--------------------------- MODULE HttpConnProofs ---------------------------
(***************************************************************************)
(* Theorems about HttpConn: types, the order of what is sent, the content  *)
(* of the write buffer, the classification of an answer, and the order of  *)
(* what is read into a body.  IInv is the inductive invariant of all but   *)
(* the last, which needs BInv.                                             *)
(***************************************************************************)
EXTENDS HttpConn, NumberLemmas, SequenceTheorems, TLAPS

(* The values of the variables. *)
Methods == {""} \cup {q.method : q \in Requests}
Versions == {""} \cup {q.version : q \in Requests}
Paths == {"/404.html", "/welcome.html", "/error.html"}
         \cup {ParsePath(q.path) : q \in Requests}
Token == {Eol, KeepAliveHeader, FormHeader}
         \cup {Method(q.method) : q \in Requests}
         \cup {Target(q.path, q.version) : q \in Requests}
         \cup {LengthHeader(n) : n \in Nat}
         \cup {Byte(id, k) : id \in Nat, k \in Nat}
Part == [part : {"status", "json", "length", "text"} \cup DOMAIN FileLen,
         at : Int]
States == {"REQUEST_LINE", "HEADERS", "BODY", "FINISH"}
Fields == [state : States, method : Methods, path : Paths, version : Versions,
           keep : BOOLEAN, form : BOOLEAN, length : Nat \cup {NoLength},
           body : Seq(Token)]
Answers == [path : Paths \cup {"", "/result.html", "/400.html", "/403.html"},
            code : Code, cls : Seq(Token), mapped : BOOLEAN, st_size : Nat]

IsBuffer(b, D) ==
  /\ b \in [size : Nat, read : Nat, data : Seq(D)]
  /\ b.read + Len(b.data) <= b.size
-----------------------------------------------------------------------------
(* The operations of buffer, over data of any kind. *)

(* The minimum of two numbers is the smaller one. *)
LEMMA MinOfTwo ==
  ASSUME NEW a \in Int, NEW b \in Int
  PROVE  /\ Min({a, b}) = IF a <= b THEN a ELSE b
         /\ Min({a, b}) \in {a, b}
<1> DEFINE m == IF a <= b THEN a ELSE b
<1>1. m \in {a, b} /\ \A y \in {a, b} : m =< y
  OBVIOUS
<1>2. \A x \in {a, b} : (\A y \in {a, b} : x =< y) => x = m
  OBVIOUS
<1>3. Min({a, b}) = m
  BY <1>1, <1>2 DEF Min
<1> QED BY <1>3

(* A new buffer, and one from which all is retrieved, is empty. *)
LEMMA NewBufferIs ==
  ASSUME NEW D
  PROVE  IsBuffer(NewBuffer, D) /\ NewBuffer.data = <<>>
BY BufferAssumption, EmptySeq DEF IsBuffer, NewBuffer

LEMMA RetrieveAllIs ==
  ASSUME NEW D, NEW b, IsBuffer(b, D)
  PROVE  IsBuffer(RetrieveAll(b), D) /\ RetrieveAll(b).data = <<>>
<1> <<>> \in Seq(D) /\ Len(<<>>) = 0
  BY EmptySeq
<1>1. /\ RetrieveAll(b) \in [size : Nat, read : Nat, data : Seq(D)]
      /\ RetrieveAll(b).size = b.size
      /\ RetrieveAll(b).read = 0
      /\ RetrieveAll(b).data = <<>>
  BY DEF IsBuffer, RetrieveAll
<1> QED BY <1>1 DEF IsBuffer

(* retrieve drops bytes at the front. *)
LEMMA RetrieveIs ==
  ASSUME NEW D, NEW b, IsBuffer(b, D), NEW n \in 0 .. Len(b.data)
  PROVE  /\ IsBuffer(Retrieve(b, n), D)
         /\ Retrieve(b, n).data = SubSeq(b.data, n + 1, Len(b.data))
         /\ Len(Retrieve(b, n).data) = Len(b.data) - n
<1> DEFINE t == SubSeq(b.data, n + 1, Len(b.data))
           r == b.read + n
<1>1. b.data \in Seq(D) /\ Len(b.data) \in Nat
  BY LenProperties DEF IsBuffer
<1>2. \A k \in n + 1 .. Len(b.data) : b.data[k] \in D
  BY <1>1, ElementOfSeq
<1>3. t \in Seq(D) /\ Len(t) = Len(b.data) - n
  BY <1>1, <1>2, SubSeqProperties
<1>4. r \in Nat /\ Retrieve(b, n) = [b EXCEPT !.read = r, !.data = t]
  BY <1>1 DEF Retrieve, IsBuffer
<1> HIDE DEF r, t
<1>5. /\ Retrieve(b, n) \in [size : Nat, read : Nat, data : Seq(D)]
      /\ Retrieve(b, n).size = b.size
      /\ Retrieve(b, n).read = r
      /\ Retrieve(b, n).data = t
  BY <1>3, <1>4 DEF IsBuffer
<1> QED BY <1>1, <1>3, <1>5 DEF IsBuffer, r, t

(* append keeps what the buffer has, also when it grows or moves. *)
LEMMA AppendToIs ==
  ASSUME NEW D, NEW b, IsBuffer(b, D), NEW s \in Seq(D)
  PROVE  IsBuffer(AppendTo(b, s), D) /\ AppendTo(b, s).data = b.data \o s
<1>1. b.data \in Seq(D) /\ Len(b.data) \in Nat /\ Len(s) \in Nat
  BY LenProperties DEF IsBuffer
<1>2. b.data \o s \in Seq(D) /\ Len(b.data \o s) = Len(b.data) + Len(s)
  BY <1>1, ConcatProperties
<1>3. CASE Writable(b) >= Len(s)
  <2>0. EnsureWritable(b, Len(s)) = b
    BY <1>1, <1>3 DEF EnsureWritable, Writable, WritePos, IsBuffer
  <2>1. AppendTo(b, s) = [b EXCEPT !.data = @ \o s]
    BY <2>0 DEF AppendTo
  <2>2. /\ AppendTo(b, s) \in [size : Nat, read : Nat, data : Seq(D)]
        /\ AppendTo(b, s).size = b.size
        /\ AppendTo(b, s).read = b.read
        /\ AppendTo(b, s).data = b.data \o s
    BY <1>2, <2>1 DEF IsBuffer
  <2> QED BY <1>1, <1>2, <1>3, <2>2 DEF IsBuffer, Writable, WritePos
<1>4. CASE Writable(b) < Len(s) /\ Writable(b) + Prependable(b) < Len(s)
  <2> DEFINE e == [b EXCEPT !.size = WritePos(b) + Len(s) + 1]
  <2>1. AppendTo(b, s) = [e EXCEPT !.data = @ \o s]
    BY <1>4 DEF AppendTo, EnsureWritable, MakeSpace
  <2>2. /\ e \in [size : Nat, read : Nat, data : Seq(D)]
        /\ e.size = WritePos(b) + Len(s) + 1
        /\ e.read = b.read
        /\ e.data = b.data
    BY <1>1 DEF IsBuffer, WritePos
  <2> HIDE DEF e
  <2>3. /\ AppendTo(b, s) \in [size : Nat, read : Nat, data : Seq(D)]
        /\ AppendTo(b, s).size = WritePos(b) + Len(s) + 1
        /\ AppendTo(b, s).read = b.read
        /\ AppendTo(b, s).data = b.data \o s
    BY <1>2, <2>1, <2>2
  <2> QED BY <1>1, <1>2, <2>3 DEF IsBuffer, WritePos
<1>5. CASE Writable(b) < Len(s) /\ Writable(b) + Prependable(b) >= Len(s)
  <2> DEFINE e == [b EXCEPT !.read = 0]
  <2>0. EnsureWritable(b, Len(s)) = e
    <3>1. ~(Writable(b) + Prependable(b) < Len(s))
      BY <1>1, <1>5 DEF Writable, Prependable, WritePos, IsBuffer
    <3> QED BY <1>5, <3>1 DEF EnsureWritable, MakeSpace
  <2>1. AppendTo(b, s) = [e EXCEPT !.data = @ \o s]
    BY <2>0 DEF AppendTo
  <2>2. /\ e \in [size : Nat, read : Nat, data : Seq(D)]
        /\ e.size = b.size /\ e.read = 0 /\ e.data = b.data
    BY <1>1 DEF IsBuffer
  <2> HIDE DEF e
  <2>3. /\ AppendTo(b, s) \in [size : Nat, read : Nat, data : Seq(D)]
        /\ AppendTo(b, s).size = b.size
        /\ AppendTo(b, s).read = 0
        /\ AppendTo(b, s).data = b.data \o s
    BY <1>2, <2>1, <2>2
  <2> QED BY <1>1, <1>2, <1>5, <2>3
          DEF IsBuffer, Writable, Prependable, WritePos
<1> QED BY <1>1, <1>3, <1>4, <1>5
        DEF Writable, Prependable, WritePos, IsBuffer

(* read_fd keeps the buffer in its bounds, and when the bytes fit or the   *)
(* buffer had none yet they are put behind those it has.                   *)
LEMMA ReadFdIs ==
  ASSUME NEW D, NEW b, IsBuffer(b, D), NEW s \in Seq(D), ~Wraps(b, s)
  PROVE  /\ IsBuffer(ReadFd(b, s), D)
         /\ Keeps(b, s) => ReadFd(b, s).data = b.data \o s
<1>1. b.data \in Seq(D) /\ Len(b.data) \in Nat /\ Len(s) \in Nat
  BY LenProperties DEF IsBuffer
<1>2. Writable(b) \in Nat /\ b.size \in Nat /\ b.read \in Nat
      /\ Writable(b) <= b.size
  BY <1>1 DEF IsBuffer, Writable, WritePos
<1>3. CASE ~Spills(b, s)
  <2>1. b.data \o s \in Seq(D) /\ Len(b.data \o s) = Len(b.data) + Len(s)
    BY <1>1, ConcatProperties
  <2>2. ReadFd(b, s) = [b EXCEPT !.data = @ \o s]
    BY <1>3 DEF ReadFd
  <2>3. /\ ReadFd(b, s) \in [size : Nat, read : Nat, data : Seq(D)]
        /\ ReadFd(b, s).size = b.size
        /\ ReadFd(b, s).read = b.read
        /\ ReadFd(b, s).data = b.data \o s
    BY <2>1, <2>2 DEF IsBuffer
  <2> QED BY <1>1, <1>2, <1>3, <2>1, <2>3
          DEF IsBuffer, Spills, Writable, WritePos
<1>4. CASE Spills(b, s)
  <2> DEFINE w == Writable(b)
             s1 == SubSeq(s, 1, w)
             s2 == SubSeq(s, w + 1, w + Len(s) - b.size)
             f == Filled(b, s)
  <2>1. Len(s) >= b.size /\ w < Len(s)
    BY <1>1, <1>2, <1>4 DEF Wraps, Spills
  <2>2. \A k \in 1 .. Len(s) : s[k] \in D
    BY ElementOfSeq
  <2>3. s1 \in Seq(D) /\ Len(s1) = w
    <3>1. \A k \in 1 .. w : s[k] \in D
      BY <1>1, <1>2, <2>1, <2>2
    <3> QED BY <1>2, <3>1, SubSeqProperties
  <2>4. s2 \in Seq(D)
    <3>1. \A k \in w + 1 .. w + Len(s) - b.size : s[k] \in D
      BY <1>1, <1>2, <2>1, <2>2
    <3>2. w + 1 \in Int /\ w + Len(s) - b.size \in Int
      BY <1>1, <1>2
    <3> QED BY <3>1, <3>2, SubSeqProperties
  <2>5. b.data \o s1 \in Seq(D) /\ Len(b.data \o s1) = Len(b.data) + w
    BY <1>1, <2>3, ConcatProperties
  <2>6. f = [b EXCEPT !.data = @ \o s1]
    BY DEF Filled
  <2> HIDE DEF s1, f
  <2>7. /\ f \in [size : Nat, read : Nat, data : Seq(D)]
        /\ f.size = b.size
        /\ f.read = b.read
        /\ f.data = b.data \o s1
    BY <2>5, <2>6 DEF IsBuffer
  <2>8. IsBuffer(f, D)
    BY <1>1, <1>2, <2>5, <2>7 DEF IsBuffer, Writable, WritePos
  <2>9. ReadFd(b, s) = AppendTo(f, s2)
    BY <1>4 DEF ReadFd, f
  <2> HIDE DEF s2
  <2>10. IsBuffer(ReadFd(b, s), D) /\ ReadFd(b, s).data = (b.data \o s1) \o s2
    BY <2>4, <2>7, <2>8, <2>9, AppendToIs
  <2>11. ASSUME Keeps(b, s) PROVE ReadFd(b, s).data = b.data \o s
    <3>1. WritePos(b) = 0 /\ b.data = <<>> /\ w = b.size
      <4>1. WritePos(b) = 0
        BY <1>1, <1>2, <2>1, <2>11 DEF Keeps
      <4>2. Len(b.data) = 0 /\ w = b.size
        BY <1>1, <1>2, <4>1 DEF WritePos, Writable
      <4> QED BY <1>1, <4>1, <4>2, EmptySeq
    <3>2. s2 = SubSeq(s, w + 1, Len(s))
      BY SMTT(30), <1>1, <1>2, <3>1 DEF s2
    <3>3. s1 \o s2 = SubSeq(s, 1, Len(s))
      <4>1. /\ 1 \in 1 .. Len(s) + 1 /\ w \in 1 - 1 .. Len(s)
            /\ Len(s) \in w .. Len(s)
        BY <1>1, <1>2, <2>1
      <4> QED BY <3>2, <4>1, ConcatAdjacentSubSeq DEF s1
    <3>4. s1 \o s2 = s
      BY <3>3, SubSeqFull
    <3> QED BY <2>3, <2>4, <2>10, <3>1, <3>4, ConcatEmptySeq
  <2> QED BY <2>10, <2>11
<1> QED BY <1>3, <1>4

(* So does the read whose count wraps, when the process goes on.           *)
LEMMA ShrunkIs ==
  ASSUME NEW D, NEW b, IsBuffer(b, D), NEW s \in Seq(D), CanShrink(b, s)
  PROVE  IsBuffer(Shrunk(b, s), D)
<1>1. b.data \in Seq(D) /\ Len(b.data) \in Nat /\ Len(s) \in Nat
  BY LenProperties DEF IsBuffer
<1>2. Writable(b) \in Nat /\ b.size \in Nat /\ b.read \in Nat
  BY <1>1 DEF IsBuffer, Writable, WritePos
<1>3. Writable(b) < Len(s) /\ Len(s) < b.size /\ b.read <= Len(s)
  BY DEF CanShrink, Wraps, Spills
<1> DEFINE w == Writable(b)
           s1 == SubSeq(s, 1, w)
           d == b.data \o s1
<1>4. s1 \in Seq(D) /\ Len(s1) = w
  <2>1. \A k \in 1 .. w : s[k] \in D
    BY <1>1, <1>2, <1>3, ElementOfSeq
  <2> QED BY <1>2, <2>1, SubSeqProperties
<1> HIDE DEF s1
<1>5. d \in Seq(D) /\ Len(d) = Len(b.data) + w
  <2>1. b.data \in Seq(D) /\ s1 \in Seq(D)
    BY <1>1, <1>4
  <2>2. b.data \o s1 \in Seq(D) /\ Len(b.data \o s1) = Len(b.data) + Len(s1)
    BY <2>1, ConcatProperties
  <2> QED BY <1>4, <2>2
<1>6. Filled(b, s) = [b EXCEPT !.data = d]
  BY DEF Filled, s1
<1>7. Filled(b, s).data = d
  BY <1>6 DEF IsBuffer
<1> HIDE DEF d
<1>8. /\ SubSeq(d, 1, Len(s) - b.read) \in Seq(D)
      /\ Len(SubSeq(d, 1, Len(s) - b.read)) = Len(s) - b.read
  <2>1. Len(s) - b.read \in 0 .. Len(d)
    BY SMTT(20), <1>1, <1>2, <1>3, <1>5 DEF Writable, WritePos
  <2>2. \A k \in 1 .. Len(s) - b.read : d[k] \in D
    BY <1>5, <2>1, ElementOfSeq
  <2> QED BY <2>1, <2>2, SubSeqProperties
<1>9. Shrunk(b, s) = [size |-> Len(s) + 1, read |-> b.read,
                      data |-> SubSeq(d, 1, Len(s) - b.read)]
  BY <1>7 DEF Shrunk
<1> QED BY <1>1, <1>2, <1>3, <1>8, <1>9 DEF IsBuffer
-----------------------------------------------------------------------------
(* The parser. *)

(* What a token of a kind carries. *)
LEMMA TokenIs ==
  ASSUME NEW t \in Token
  PROVE  /\ t.kind = "method" => t.method \in Methods
         /\ t.kind = "target" => ParsePath(t.path) \in Paths
                                 /\ t.version \in Versions
         /\ t.kind = "length" => t.length \in Nat
         /\ t = Eol <=> t.kind = "eol"
<1>1. CASE t \in {Eol, KeepAliveHeader, FormHeader}
  BY <1>1 DEF Eol, KeepAliveHeader, FormHeader
<1>2. CASE t \in {Method(q.method) : q \in Requests}
  <2>1. PICK q \in Requests : t = Method(q.method)
    BY <1>2
  <2>2. t.kind = "method" /\ t.method = q.method /\ t # Eol
    BY <2>1 DEF Method, Eol
  <2> QED BY <2>2 DEF Methods
<1>3. CASE t \in {Target(q.path, q.version) : q \in Requests}
  <2>1. PICK q \in Requests : t = Target(q.path, q.version)
    BY <1>3
  <2>2. t.kind = "target" /\ t.path = q.path /\ t.version = q.version
    BY <2>1 DEF Target
  <2>3. ParsePath(t.path) \in Paths /\ t.version \in Versions
    BY <2>2 DEF Paths, Versions
  <2>4. t # Eol
    BY <2>2 DEF Eol
  <2> QED BY <2>2, <2>3, <2>4
<1>4. CASE t \in {LengthHeader(n) : n \in Nat}
  BY <1>4 DEF LengthHeader, Eol
<1>5. CASE t \in {Byte(id, k) : id \in Nat, k \in Nat}
  BY <1>5 DEF Byte, Eol
<1> QED BY <1>1, <1>2, <1>3, <1>4, <1>5 DEF Token

(* line_end: before it there is no CRLF, and at it there is one or the end *)
(* of the buffer.                                                          *)
LEMMA LineEndIs ==
  ASSUME NEW b, IsBuffer(b, Token)
  PROVE  /\ LineEnd(b) \in 1 .. Len(b.data) + 1
         /\ \A k \in 1 .. LineEnd(b) - 1 : b.data[k] # Eol
         /\ LineEnd(b) <= Len(b.data) => b.data[LineEnd(b)] = Eol
<1>1. Len(b.data) \in Nat
  BY LenProperties DEF IsBuffer
<1>2. CASE Contains(b.data, Eol)
  <2> DEFINE I == {i \in 1 .. Len(b.data) : b.data[i] = Eol}
  <2>1. I # {} /\ I \subseteq Nat
    BY <1>1, <1>2 DEF Contains
  <2>2. LineEnd(b) = Min(I)
    BY <1>2, <2>1 DEF LineEnd, SelectInSeq
  <2>3. \E m \in I : \A k \in I : m <= k
    BY <2>1, LeastNatural
  <2>4. Min(I) \in I /\ \A k \in I : Min(I) <= k
    BY <2>3 DEF Min
  <2> HIDE DEF I
  <2>5. LineEnd(b) \in I /\ \A k \in I : LineEnd(b) <= k
    BY <2>2, <2>4
  <2>6. LineEnd(b) \in 1 .. Len(b.data) /\ b.data[LineEnd(b)] = Eol
    BY <2>5 DEF I
  <2>7. \A k \in 1 .. LineEnd(b) - 1 : b.data[k] # Eol
    BY <1>1, <2>5, <2>6 DEF I
  <2> QED BY <1>1, <2>6, <2>7
<1>3. CASE ~Contains(b.data, Eol)
  BY <1>1, <1>3 DEF Contains, LineEnd
<1> QED BY <1>2, <1>3

(* A line, and what follows it in the buffer. *)
LEMMA LineIs ==
  ASSUME NEW b, IsBuffer(b, Token)
  PROVE  /\ Line(b) \in Seq(Token) /\ Len(Line(b)) = LineEnd(b) - 1
         /\ \A k \in 1 .. LineEnd(b) - 1 : Line(b)[k] = b.data[k]
<1>1. b.data \in Seq(Token) /\ Len(b.data) \in Nat
  BY LenProperties DEF IsBuffer
<1>2. LineEnd(b) \in 1 .. Len(b.data) + 1
  BY LineEndIs
<1>3. \A k \in 1 .. LineEnd(b) - 1 : b.data[k] \in Token
  BY <1>1, <1>2, ElementOfSeq
<1> DEFINE n == LineEnd(b) - 1
<1>4. n \in Nat /\ Line(b) = SubSeq(b.data, 1, n)
  BY <1>1, <1>2 DEF Line
<1> HIDE DEF n
<1>5. /\ SubSeq(b.data, 1, n) \in Seq(Token)
      /\ Len(SubSeq(b.data, 1, n)) = IF 1 <= n THEN n - 1 + 1 ELSE 0
      /\ \A k \in 1 .. n - 1 + 1 : SubSeq(b.data, 1, n)[k] = b.data[1 + k - 1]
  <2>1. \A k \in 1 .. n : b.data[k] \in Token
    BY <1>3 DEF n
  <2> QED BY <1>4, <2>1, SubSeqProperties
<1>6. /\ Line(b) \in Seq(Token) /\ Len(Line(b)) = n
      /\ \A k \in 1 .. n : Line(b)[k] = b.data[k]
  BY <1>4, <1>5
<1> QED BY <1>6 DEF n

ParserTypes ==
  /\ IsBuffer(read_buff, Token)
  /\ request \in Fields
  /\ cls_probs \in Seq(Token)

(* The end of a turn leaves a buffer, and goes on only behind a line that  *)
(* was retrieved with its CRLF.                                            *)
LEMMA EndTurnIs ==
  ASSUME NEW r, IsBuffer(read_buff, Token), EndTurn(r)
  PROVE  /\ request' = r
         /\ IsBuffer(read_buff', Token)
         /\ parse' \in {"loop", "ok"}
         /\ parse' = "loop" =>
              /\ LineEnd(read_buff) <= Len(read_buff.data)
              /\ Len(read_buff'.data) = Len(read_buff.data) - LineEnd(read_buff)
              /\ read_buff'.data = SubSeq(read_buff.data, LineEnd(read_buff) + 1,
                                          Len(read_buff.data))
              /\ r.state # "FINISH"
<1>1. request' = r
  BY DEF EndTurn
<1>2. CASE LineIsWhole(read_buff)
  <2>1. LineEnd(read_buff) \in 0 .. Len(read_buff.data)
    <3>1. Len(read_buff.data) \in Nat
      BY LenProperties DEF IsBuffer
    <3> QED BY <1>2, <3>1, LineEndIs DEF LineIsWhole
  <2>2. read_buff' = Retrieve(read_buff, LineEnd(read_buff))
    BY <1>2 DEF EndTurn
  <2>3. parse' = Again(read_buff', r)
    BY <1>2 DEF EndTurn
  <2>4. parse' \in {"loop", "ok"} /\ (parse' = "loop" => r.state # "FINISH")
    BY <2>3 DEF Again
  <2> QED BY <1>1, <1>2, <2>1, <2>2, <2>4, RetrieveIs DEF LineIsWhole
<1>3. CASE ~LineIsWhole(read_buff)
  BY <1>1, <1>3 DEF EndTurn
<1> QED BY <1>2, <1>3

(* What a turn with the request line does. *)
LEMMA RequestLineIs ==
  ASSUME ParserTypes, ParseRequestLine
  PROVE  /\ cls_probs' = cls_probs
         /\ \/ parse' = "err" /\ read_buff' = read_buff /\ request' = request
            \/ \E r \in Fields :
                 /\ EndTurn(r)
                 /\ r.state = "HEADERS" /\ r.length = request.length
                 /\ r.body = request.body
<1> DEFINE line == Line(read_buff)
           two == [k \in 1 .. Len(line) |-> line[k].kind] = <<"method", "target">>
<1>1. cls_probs' = cls_probs
  BY DEF ParseRequestLine
<1>2. CASE ~two
  BY <1>1, <1>2 DEF ParseRequestLine
<1>3. CASE two
  <2> DEFINE r == [request EXCEPT !.method = line[1].method,
                     !.path = ParsePath(line[2].path),
                     !.version = line[2].version, !.state = "HEADERS"]
  <2>1. EndTurn(r)
    BY <1>3 DEF ParseRequestLine
  <2>2. Len(line) = 2 /\ line[1].kind = "method" /\ line[2].kind = "target"
    <3>1. Len(line) \in Nat
      BY LineIs, LenProperties DEF ParserTypes
    <3>2. 1 .. Len(line) = 1 .. 2
      BY <1>3, <3>1
    <3> HIDE DEF line
    <3>3. Len(line) = 2
      <4>1. 2 \in 1 .. Len(line)
        BY <3>2
      <4>2. Len(line) >= 2 /\ Len(line) \in 1 .. Len(line)
        BY <3>1, <4>1
      <4>3. Len(line) \in 1 .. 2
        BY <3>2, <4>2
      <4> QED BY <3>1, <4>2, <4>3
    <3>4. /\ 1 \in 1 .. Len(line) /\ 2 \in 1 .. Len(line)
          /\ <<"method", "target">>[1] = "method"
          /\ <<"method", "target">>[2] = "target"
      BY <3>3
    <3> QED BY <1>3, <3>3, <3>4
  <2>3. line[1] \in Token /\ line[2] \in Token
    BY <2>2, LineIs, ElementOfSeq DEF ParserTypes
  <2> HIDE DEF line
  <2>4. /\ line[1].method \in Methods /\ ParsePath(line[2].path) \in Paths
        /\ line[2].version \in Versions
    BY <2>2, <2>3, TokenIs
  <2>5. /\ r \in Fields /\ r.state = "HEADERS" /\ r.length = request.length
        /\ r.body = request.body
    BY <2>4 DEF Fields, States, ParserTypes
  <2> QED BY <1>1, <2>1, <2>5
<1> QED BY <1>2, <1>3

IsHeader(line) == Len(line) = 1 /\ line[1].kind \in HeaderKinds

(* What a turn with a header line does. *)
LEMMA HeaderIs ==
  ASSUME ParserTypes, ParseHeader
  PROVE  /\ cls_probs' = cls_probs
         /\ \E r \in Fields :
              /\ EndTurn(r) /\ r.body = request.body
              /\ \/ r.state = "FINISH"
                 \/ /\ ~IsHeader(Line(read_buff))
                    /\ r.state = "BODY" /\ r.length = request.length
                 \/ /\ IsHeader(Line(read_buff))
                    /\ r.state = "HEADERS"
                    /\ r.length = IF Line(read_buff)[1].kind = "length"
                                    THEN Line(read_buff)[1].length
                                    ELSE request.length
<1> DEFINE line == Line(read_buff)
           t == line[1]
           h == IF IsHeader(line) THEN SetHeader(request, t)
                                  ELSE [request EXCEPT !.state = "BODY"]
           r == IF AtMostCRLF(read_buff) THEN [h EXCEPT !.state = "FINISH"] ELSE h
<1>1. cls_probs' = cls_probs /\ EndTurn(r) /\ request.state = "HEADERS"
  BY DEF ParseHeader, IsHeader
<1>2. /\ h \in Fields /\ h.body = request.body
      /\ ~IsHeader(line) => h.state = "BODY" /\ h.length = request.length
      /\ IsHeader(line) =>
           /\ h.state = "HEADERS"
           /\ h.length = IF t.kind = "length" THEN t.length ELSE request.length
  <2>1. CASE ~IsHeader(line)
    BY <2>1 DEF ParserTypes, Fields, States
  <2>2. CASE IsHeader(line)
    <3>1. t \in Token
      <4>1. line \in Seq(Token) /\ Len(line) = 1
        BY <2>2, LineIs DEF ParserTypes, IsHeader
      <4> HIDE DEF line
      <4> QED BY <4>1, ElementOfSeq
    <3> HIDE DEF line, t
    <3>2. t.kind = "length" => t.length \in Nat
      BY <3>1, TokenIs
    <3>3. CASE t.kind = "connection"
      BY <1>1, <2>2, <3>3 DEF SetHeader, ParserTypes, Fields, States
    <3>4. CASE t.kind = "type"
      BY <1>1, <2>2, <3>4 DEF SetHeader, ParserTypes, Fields, States
    <3>5. CASE t.kind = "length"
      BY <1>1, <2>2, <3>2, <3>5 DEF SetHeader, ParserTypes, Fields, States
    <3>6. t.kind \in {"connection", "type", "length"}
      BY <2>2 DEF IsHeader, HeaderKinds, t
    <3> QED BY <3>3, <3>4, <3>5, <3>6
  <2> QED BY <2>1, <2>2
<1> HIDE DEF h
<1>3. r \in Fields /\ r.body = request.body
  BY <1>2 DEF Fields, States
<1>4. r.state = "FINISH" \/ r = h
  BY <1>2 DEF Fields
<1> HIDE DEF r
<1> QED BY <1>1, <1>2, <1>3, <1>4

(* A request for a classification whose body is complete. *)
WholeImage(r) ==
  /\ r.method = "POST" /\ r.form /\ r.path = "/result.html"
  /\ r.length > 0 /\ Len(r.body) >= r.length

Extended == [request EXCEPT !.body = @ \o Line(read_buff)]

LEMMA ExtendedIs ==
  ASSUME ParserTypes
  PROVE  /\ Extended \in Fields
         /\ Extended.state = request.state /\ Extended.method = request.method
         /\ Extended.path = request.path /\ Extended.form = request.form
         /\ Extended.length = request.length
         /\ Extended.body = request.body \o Line(read_buff)
         /\ Len(Extended.body) = Len(request.body) + LineEnd(read_buff) - 1
<1>1. request.body \in Seq(Token) /\ Line(read_buff) \in Seq(Token)
      /\ Len(Line(read_buff)) = LineEnd(read_buff) - 1
  BY LineIs DEF ParserTypes, Fields
<1> DEFINE d == request.body \o Line(read_buff)
<1>2. d \in Seq(Token) /\ Len(d) = Len(request.body) + Len(Line(read_buff))
  BY <1>1, ConcatProperties
<1>3. Extended = [request EXCEPT !.body = d]
  BY DEF Extended
<1>4. Len(request.body) \in Nat /\ LineEnd(read_buff) \in Nat
  BY <1>1, LenProperties, LineEndIs DEF ParserTypes, IsBuffer
<1> HIDE DEF d
<1>5. /\ Extended \in Fields
      /\ Extended.state = request.state /\ Extended.method = request.method
      /\ Extended.path = request.path /\ Extended.form = request.form
      /\ Extended.length = request.length
      /\ Extended.body = d
  BY <1>2, <1>3 DEF ParserTypes, Fields
<1>6. Len(Extended.body) = Len(request.body) + LineEnd(read_buff) - 1
  BY <1>1, <1>2, <1>4, <1>5
<1> QED BY <1>5, <1>6 DEF d

(* What a turn with the body does. *)
LEMMA BodyIs ==
  ASSUME ParserTypes, ParseBody
  PROVE  \/ /\ request.length = NoLength
            /\ EndTurn(request) /\ cls_probs' = cls_probs
         \/ /\ request.length # NoLength /\ Len(Extended.body) < request.length
            /\ request' = Extended /\ parse' = "more"
            /\ read_buff' = Retrieve(read_buff, LineEnd(read_buff) - 1)
            /\ cls_probs' = cls_probs
         \/ /\ request.length # NoLength /\ Len(Extended.body) >= request.length
            /\ request' = Extended /\ parse' = "throw"
            /\ read_buff' = read_buff /\ cls_probs' = cls_probs
         \/ /\ request.length # NoLength /\ Len(Extended.body) >= request.length
            /\ \E r \in Fields :
                 /\ EndTurn(r)
                 /\ r.state = "FINISH" /\ r.length = request.length
                 /\ r.body = Extended.body
                 /\ cls_probs' \in {cls_probs, r.body}
                 /\ WholeImage(r) => cls_probs' = r.body
<1>1. CASE request.length = NoLength
  BY <1>1 DEF ParseBody
<1>2. CASE request.length # NoLength /\ Len(Extended.body) < request.length
  BY <1>2 DEF ParseBody, Extended
<1>3. CASE request.length # NoLength /\ ~(Len(Extended.body) < request.length)
  <2>1. Len(Extended.body) >= request.length
    <3>1. Extended.body \in Seq(Token) /\ request.length \in Int
      BY ExtendedIs DEF ParserTypes, Fields, NoLength
    <3> QED BY <1>3, <3>1, LenProperties
  <2>2. ParsePost(Extended)
    BY <1>3 DEF ParseBody, Extended
  <2> DEFINE e == Extended
             Final(path) == [e EXCEPT !.state = "FINISH", !.path = path]
             isForm == e.method = "POST" /\ e.form
  <2>3. ASSUME NEW path \in Paths
        PROVE  /\ Final(path) \in Fields /\ Final(path).state = "FINISH"
               /\ Final(path).length = request.length
               /\ Final(path).body = e.body
               /\ Final(path).method = e.method /\ Final(path).form = e.form
               /\ Final(path).path = path
    BY ExtendedIs DEF Fields, States
  <2>4. /\ e.path \in Paths /\ "/welcome.html" \in Paths /\ "/error.html" \in Paths
    BY ExtendedIs DEF Fields, Paths
  <2>5. \/ \E page \in {"/welcome.html", "/error.html"} :
              EndTurn(Final(page)) /\ cls_probs' = cls_probs
        \/ e.path = "/result.html" /\ EndTurn(Final(e.path)) /\ cls_probs' = e.body
        \/ parse' = "throw" /\ request' = e /\ read_buff' = read_buff
           /\ cls_probs' = cls_probs
        \/ /\ ~isForm \/ e.path # "/result.html"
           /\ EndTurn(Final(e.path)) /\ cls_probs' = cls_probs
    BY <2>2 DEF ParsePost
  <2> HIDE DEF e, Final
  <2>6. CASE \E page \in {"/welcome.html", "/error.html"} :
               EndTurn(Final(page)) /\ cls_probs' = cls_probs
    <3>1. PICK page \in {"/welcome.html", "/error.html"} :
            EndTurn(Final(page)) /\ cls_probs' = cls_probs
      BY <2>6
    <3>2. page \in Paths /\ page # "/result.html"
      BY <2>4
    <3>3. ~WholeImage(Final(page))
      BY <2>3, <3>2 DEF WholeImage
    <3> QED BY <1>3, <2>1, <2>3, <3>1, <3>2, <3>3 DEF e
  <2>7. CASE /\ e.path = "/result.html" /\ EndTurn(Final(e.path))
             /\ cls_probs' = e.body
    BY <1>3, <2>1, <2>3, <2>4, <2>7 DEF e
  <2>8. CASE /\ parse' = "throw" /\ request' = e /\ read_buff' = read_buff
             /\ cls_probs' = cls_probs
    BY <1>3, <2>1, <2>8 DEF e
  <2>9. CASE /\ ~isForm \/ e.path # "/result.html"
             /\ EndTurn(Final(e.path)) /\ cls_probs' = cls_probs
    <3>1. ~WholeImage(Final(e.path))
      BY <2>3, <2>4, <2>9 DEF WholeImage
    <3> QED BY <1>3, <2>1, <2>3, <2>4, <2>9, <3>1 DEF e
  <2> QED BY <2>5, <2>6, <2>7, <2>8, <2>9
<1> QED BY <1>1, <1>2, <1>3

(* A turn of the parser keeps the types. *)
LEMMA ParserStep ==
  ASSUME ParserTypes, ParseTurn
  PROVE  /\ ParserTypes' /\ parse' \in {"loop", "ok", "err", "more", "throw"}
         /\ parse = "loop"
<1>0. parse = "loop"
  BY DEF ParseTurn, ParseRequestLine, ParseHeader, ParseBody
<1>1. CASE ParseRequestLine
  BY <1>0, <1>1, RequestLineIs, EndTurnIs DEF ParserTypes
<1>2. CASE ParseHeader
  BY <1>0, <1>2, HeaderIs, EndTurnIs DEF ParserTypes
<1>3. CASE ParseBody
  <2>1. Extended \in Fields /\ Extended.body \in Seq(Token)
    BY ExtendedIs DEF Fields
  <2>2. CASE request.length = NoLength /\ EndTurn(request) /\ cls_probs' = cls_probs
    BY <1>0, <2>2, EndTurnIs DEF ParserTypes
  <2>3. CASE /\ request' = Extended /\ parse' = "more"
             /\ read_buff' = Retrieve(read_buff, LineEnd(read_buff) - 1)
             /\ cls_probs' = cls_probs
    <3>1. LineEnd(read_buff) - 1 \in 0 .. Len(read_buff.data)
      BY LineEndIs, LenProperties DEF ParserTypes, IsBuffer
    <3> QED BY <1>0, <2>1, <2>3, <3>1, RetrieveIs DEF ParserTypes
  <2>4. CASE /\ request' = Extended /\ parse' = "throw"
             /\ read_buff' = read_buff /\ cls_probs' = cls_probs
    BY <1>0, <2>1, <2>4 DEF ParserTypes
  <2>5. CASE \E r \in Fields :
               /\ EndTurn(r) /\ r.body = Extended.body
               /\ cls_probs' \in {cls_probs, r.body}
    BY <1>0, <2>1, <2>5, EndTurnIs DEF ParserTypes
  <2> QED BY <1>3, <2>2, <2>3, <2>4, <2>5, BodyIs
<1> QED BY <1>1, <1>2, <1>3 DEF ParseTurn
-----------------------------------------------------------------------------
(* The answer. *)

(* make_response puts the header behind what the write buffer has; a file  *)
(* it maps has as many bytes as it announces; and it answers /result.html  *)
(* only when that was asked for, with the classification of that moment.   *)
LEMMA ResponseIs ==
  ASSUME IsBuffer(write_buff, Part), request.path \in Paths,
         cls_probs \in Seq(Token), NEW code \in {-1, 200},
         MakeResponse(request.path, cls_probs, code)
  PROVE  /\ IsBuffer(write_buff', Part)
         /\ response' \in Answers
         /\ \E h \in Seq(Part) : write_buff'.data = write_buff.data \o h
         /\ response'.mapped /\ response'.st_size > 0 =>
              /\ FilePieces(response'.path) \in Seq(Part)
              /\ Len(FilePieces(response'.path)) = response'.st_size
         /\ response'.path = "/result.html" =>
              request.path = "/result.html" /\ response'.cls = cls_probs
<1>0. \A c \in Code : Status(c) \in Code /\ Status(c) \in Int
  BY DEF Code, Status
<1>1. CASE request.path = "/result.html"
  <2>1. MakeResult(cls_probs, code)
    BY <1>1 DEF MakeResponse
  <2> DEFINE h == <<Piece("status", Status(code)), Piece("json", Len(cls_probs))>>
  <2>2. h \in Seq(Part)
    <3>1. Len(cls_probs) \in Int /\ Status(code) \in Int
      BY <1>0, LenProperties DEF Code
    <3>2. Piece("status", Status(code)) \in Part
          /\ Piece("json", Len(cls_probs)) \in Part
      BY <3>1 DEF Piece, Part
    <3> QED BY <3>2
  <2>3. write_buff' = AppendTo(write_buff, h)
    BY <2>1 DEF MakeResult
  <2> HIDE DEF h
  <2>4. IsBuffer(write_buff', Part) /\ write_buff'.data = write_buff.data \o h
    BY <2>2, <2>3, AppendToIs
  <2>5. /\ response' \in Answers /\ response'.path = "/result.html"
        /\ response'.cls = cls_probs /\ ~response'.mapped
    BY <1>0, <2>1 DEF MakeResult, Answers, Code
  <2> QED BY <1>1, <2>2, <2>4, <2>5
<1>2. CASE request.path # "/result.html"
  <2> DEFINE path == request.path
             c == FileCode(path, code)
             page == ErrorHtml(path, c)
             size == StatSize(path, page)
             found == page \in DOMAIN FileLen
             h == <<Piece("status", Status(c)),
                    IF found THEN Piece("length", size) ELSE Piece("text", 0)>>
  <2>1. MakeFile(path, code)
    BY <1>2 DEF MakeResponse
  <2>2. c \in Code
    BY DEF FileCode, Code
  <2>3. page \in Paths \cup {"/400.html", "/403.html"} /\ page # "/result.html"
    BY <1>2 DEF ErrorHtml, Paths
  <2>4. size \in Nat /\ (found => size = FileLen[page])
    BY ResponseAssumption DEF StatSize
  <2>5. /\ response' = [path |-> page, code |-> Status(c), cls |-> <<>>,
                        mapped |-> found, st_size |-> size]
        /\ write_buff' = AppendTo(write_buff, h)
    BY <2>1 DEF MakeFile
  <2>6. h \in Seq(Part)
    <3>1. Status(c) \in Int /\ size \in Int
      BY <1>0, <2>2, <2>4
    <3> HIDE DEF c, size, found
    <3>2. Piece("status", Status(c)) \in Part
      BY <3>1 DEF Piece, Part
    <3>3. Piece("length", size) \in Part /\ Piece("text", 0) \in Part
      BY <3>1 DEF Piece, Part
    <3> QED BY <3>2, <3>3
  <2> HIDE DEF h
  <2>7. IsBuffer(write_buff', Part) /\ write_buff'.data = write_buff.data \o h
    BY <2>5, <2>6, AppendToIs
  <2> HIDE DEF c, page, size
  <2>8. /\ response' \in Answers /\ response'.path = page
        /\ response'.st_size = size /\ response'.mapped = found
    <3>1. Status(c) \in Code /\ <<>> \in Seq(Token) /\ found \in BOOLEAN
      BY <1>0, <2>2, EmptySeq
    <3> HIDE DEF found
    <3> QED BY <2>3, <2>4, <2>5, <3>1 DEF Answers
  <2>9. ASSUME found
        PROVE  FilePieces(page) \in Seq(Part) /\ Len(FilePieces(page)) = size
    <3> DEFINE n == FileLen[page]
               f == [k \in 1 .. n |-> Piece(page, k)]
    <3>1. n \in Nat /\ n = size
      BY <2>4, <2>9
    <3>2. \A k \in 1 .. n : Piece(page, k) \in Part
      BY <2>9, <3>1 DEF Piece, Part
    <3>3. f \in [1 .. n -> Part]
      BY <3>2
    <3>4. f \in Seq(Part) /\ Len(f) = n
      BY <3>1, <3>3
    <3> QED BY <3>1, <3>4 DEF FilePieces
  <2> QED BY <2>3, <2>6, <2>7, <2>8, <2>9
<1> QED BY <1>1, <1>2
-----------------------------------------------------------------------------
(* What is sent. *)

(* A piece of a sequence behind its beginning makes a longer beginning.    *)
LEMMA BeginningGrows ==
  ASSUME NEW D, NEW a \in Seq(D), NEW m \in Nat, NEW k \in Nat, m + k <= Len(a)
  PROVE  /\ SubSeq(a, 1, m) \o SubSeq(a, m + 1, m + k) = SubSeq(a, 1, m + k)
         /\ SubSeq(a, 1, m + k) \in Seq(D) /\ Len(SubSeq(a, 1, m + k)) = m + k
<1>1. Len(a) \in Nat
  BY LenProperties
<1>2. 1 \in 1 .. Len(a) + 1 /\ m \in 1 - 1 .. Len(a) /\ m + k \in m .. Len(a)
  BY <1>1
<1>3. \A i \in 1 .. m + k : a[i] \in D
  BY <1>1, ElementOfSeq
<1>4. 1 \in Int /\ m + k \in Int
  OBVIOUS
<1>5. /\ SubSeq(a, 1, m + k) \in Seq(D)
      /\ Len(SubSeq(a, 1, m + k)) = IF 1 <= m + k THEN m + k - 1 + 1 ELSE 0
  BY <1>3, <1>4, SubSeqProperties
<1>6. SubSeq(a, 1, m) \o SubSeq(a, m + 1, m + k) = SubSeq(a, 1, m + k)
  BY <1>2, ConcatAdjacentSubSeq
<1> QED BY <1>5, <1>6

(* What is left of a piece when its first n bytes are dropped.             *)
LEMMA PieceShrinks ==
  ASSUME NEW D, NEW a \in Seq(D), NEW i \in Nat, NEW l \in Nat, i + l <= Len(a),
         NEW n \in 0 .. l
  PROVE  /\ SubSeq(SubSeq(a, i + 1, i + l), n + 1, l) = SubSeq(a, i + n + 1, i + l)
         /\ Len(SubSeq(a, i + 1, i + l)) = l
<1>1. Len(a) \in Nat
  BY LenProperties
<1> DEFINE p == SubSeq(a, i + 1, i + l)
           q == SubSeq(p, n + 1, l)
           r == SubSeq(a, i + n + 1, i + l)
<1>2. p \in Seq(D) /\ Len(p) = l /\ \A j \in 1 .. l : p[j] = a[i + j]
  <2>1. \A j \in i + 1 .. i + l : a[j] \in D
    BY <1>1, ElementOfSeq
  <2>2. i + 1 \in Int /\ i + l \in Int
    OBVIOUS
  <2>3. /\ p \in Seq(D)
        /\ Len(p) = IF i + 1 <= i + l THEN i + l - (i + 1) + 1 ELSE 0
        /\ \A j \in 1 .. i + l - (i + 1) + 1 : p[j] = a[i + 1 + j - 1]
    BY <2>1, <2>2, SubSeqProperties
  <2> HIDE DEF p
  <2> QED BY <2>3
<1>3. r \in Seq(D) /\ Len(r) = l - n /\ \A j \in 1 .. l - n : r[j] = a[i + n + j]
  <2>1. \A j \in i + n + 1 .. i + l : a[j] \in D
    BY <1>1, ElementOfSeq
  <2>2. i + n + 1 \in Int /\ i + l \in Int
    OBVIOUS
  <2>3. /\ r \in Seq(D)
        /\ Len(r) = IF i + n + 1 <= i + l THEN i + l - (i + n + 1) + 1 ELSE 0
        /\ \A j \in 1 .. i + l - (i + n + 1) + 1 : r[j] = a[i + n + 1 + j - 1]
    BY <2>1, <2>2, SubSeqProperties
  <2> HIDE DEF r
  <2> QED BY <2>3
<1> HIDE DEF p, r
<1>4. q \in Seq(D) /\ Len(q) = l - n /\ \A j \in 1 .. l - n : q[j] = p[n + j]
  <2>1. \A j \in n + 1 .. l : p[j] \in D
    BY <1>2, ElementOfSeq
  <2>2. n + 1 \in Int /\ l \in Int
    OBVIOUS
  <2>3. /\ q \in Seq(D)
        /\ Len(q) = IF n + 1 <= l THEN l - (n + 1) + 1 ELSE 0
        /\ \A j \in 1 .. l - (n + 1) + 1 : q[j] = p[n + 1 + j - 1]
    BY <2>1, <2>2, SubSeqProperties
  <2> HIDE DEF q
  <2> QED BY <2>3
<1> HIDE DEF q
<1>5. \A j \in 1 .. Len(q) : q[j] = r[j]
  <2>1. ASSUME NEW j \in 1 .. l - n PROVE q[j] = r[j]
    <3>1. n + j \in 1 .. l /\ i + (n + j) = i + n + j
      OBVIOUS
    <3>2. q[j] = p[n + j] /\ p[n + j] = a[i + (n + j)] /\ r[j] = a[i + n + j]
      BY <1>2, <1>3, <1>4, <3>1
    <3> QED BY <3>1, <3>2
  <2> QED BY <1>4, <2>1
<1>6. q = r
  BY <1>3, <1>4, <1>5, SeqEqual
<1> QED BY <1>2, <1>6 DEF p, q, r

Span == [off : Nat, len : Nat]

WriterTypes ==
  /\ IsBuffer(write_buff, Part)
  /\ response \in Answers
  /\ iov = <<iov[1], iov[2]>> /\ iov[1] \in Span /\ iov[2] \in Span
  /\ iov_cnt \in 0 .. 2
  /\ answer \in Seq(Part) /\ sent \in Seq(Part)

(* While an answer is sent the iovecs are the rest of it: what is sent     *)
(* ends where the first of them that is not empty begins, the first ends   *)
(* where the second begins, and the last one ends with the answer.  The    *)
(* second counts only when iov_cnt_ says so.                               *)
BeingSent ==
  /\ iov_cnt \in {1, 2}
  /\ write_buff.data = Pieces(iov[1], iov[1].len)
  /\ iov_cnt = 2 => iov[2].off + iov[2].len = Len(answer)
  /\ iov[1].len > 0 =>
       /\ Len(sent) = iov[1].off
       /\ iov[1].off + iov[1].len = IF iov_cnt = 2 THEN iov[2].off ELSE Len(answer)
  /\ iov[1].len = 0 =>
       Len(sent) = IF iov_cnt = 2 THEN iov[2].off ELSE Len(answer)
IsBeginning == sent = SubSeq(answer, 1, Len(sent)) /\ Len(sent) <= Len(answer)

(* A writev of any length moves both iovecs to the next byte. *)
LEMMA WriteIs ==
  ASSUME WriterTypes, BeingSent, IsBeginning, NEW n \in 1 .. Offered, Write(n)
  PROVE  WriterTypes' /\ BeingSent' /\ IsBeginning'
<1> DEFINE v == iov[1]
           w == iov[2]
<1>1. /\ v \in Span /\ w \in Span /\ answer' = answer /\ iov_cnt' = iov_cnt
      /\ response' = response
      /\ n \in Nat \ {0} /\ Len(answer) \in Nat /\ Len(sent) \in Nat
      /\ iov_cnt = 2 \/ n <= v.len
      /\ n <= v.len + w.len
      /\ v.off \in Nat /\ v.len \in Nat /\ w.off \in Nat /\ w.len \in Nat
  <2>1. answer' = answer /\ iov_cnt' = iov_cnt /\ response' = response
    BY DEF Write
  <2>2. Len(answer) \in Nat /\ Len(sent) \in Nat
    BY LenProperties DEF WriterTypes
  <2>3. v \in Span /\ w \in Span
    BY DEF WriterTypes
  <2>4. v.off \in Nat /\ v.len \in Nat /\ w.off \in Nat /\ w.len \in Nat
    BY <2>3 DEF Span
  <2> QED BY <2>1, <2>2, <2>3, <2>4 DEF Offered
<1> DEFINE L == Len(answer)
<1>4. /\ iov_cnt \in {1, 2}
      /\ iov_cnt = 2 => w.off + w.len = L
      /\ v.len > 0 => Len(sent) = v.off
      /\ v.len > 0 /\ iov_cnt = 2 => v.off + v.len = w.off
      /\ v.len > 0 /\ iov_cnt # 2 => v.off + v.len = L
      /\ v.len = 0 /\ iov_cnt = 2 => Len(sent) = w.off
      /\ write_buff.data = SubSeq(answer, v.off + 1, v.off + v.len)
  BY DEF BeingSent, Pieces
<1>2. CASE n <= v.len
  <2>1. iov' = <<Advanced(v, n), w>> /\ write_buff' = Retrieve(write_buff, n)
    BY <1>1, <1>2 DEF Write, IovAfter, WriteBuffAfter
  <2>2. Min({n, v.len}) = n
    BY <1>1, <1>2, MinOfTwo
  <2>3. sent' = (sent \o Pieces(v, n)) \o Pieces(w, 0)
    <3>1. n - n = 0
      BY <1>1
    <3> QED BY <2>2, <3>1 DEF Write
  <2>4. Pieces(w, 0) = <<>>
    BY <1>1, SubSeqEmpty DEF Pieces
  <2>5. Len(sent) = v.off /\ v.off + n <= L /\ v.off + v.len <= L
    <3> HIDE DEF v, w, L
    <3>1. v.len > 0
      BY <1>1, <1>2
    <3>2. v.off + v.len <= L
      BY <1>1, <1>4, <3>1
    <3> QED BY <1>1, <1>2, <1>4, <3>1, <3>2
  <2>6. sent \o Pieces(v, n) = SubSeq(answer, 1, v.off + n)
        /\ SubSeq(answer, 1, v.off + n) \in Seq(Part)
        /\ Len(SubSeq(answer, 1, v.off + n)) = v.off + n
    <3>1. sent = SubSeq(answer, 1, v.off) /\ answer \in Seq(Part)
      BY <2>5 DEF IsBeginning, WriterTypes
    <3>2. Pieces(v, n) = SubSeq(answer, v.off + 1, v.off + n)
      BY DEF Pieces
    <3>3. v.off \in Nat /\ n \in Nat /\ v.off + n <= Len(answer)
      BY <1>1, <2>5
    <3>4. /\ SubSeq(answer, 1, v.off) \o SubSeq(answer, v.off + 1, v.off + n)
               = SubSeq(answer, 1, v.off + n)
          /\ SubSeq(answer, 1, v.off + n) \in Seq(Part)
          /\ Len(SubSeq(answer, 1, v.off + n)) = v.off + n
      BY <3>1, <3>3, BeginningGrows
    <3> QED BY <3>1, <3>2, <3>4
  <2>7. sent' = SubSeq(answer, 1, v.off + n)
    BY <2>3, <2>4, <2>6, ConcatEmptySeq
  <2>8. /\ iov'[1] = Bytes(v.off + n, v.len - n) /\ iov'[2] = w
        /\ iov' = <<iov'[1], iov'[2]>>
    BY <2>1 DEF Advanced
  <2>9. iov'[1].off = v.off + n /\ iov'[1].len = v.len - n /\ iov'[1] \in Span
    BY <1>1, <1>2, <2>8 DEF Bytes, Span
  <2>10. /\ IsBuffer(write_buff', Part)
         /\ write_buff'.data = SubSeq(answer, v.off + n + 1, v.off + v.len)
    <3>1. n \in 0 .. v.len /\ answer \in Seq(Part)
      BY <1>1, <1>2 DEF WriterTypes
    <3>2. write_buff.data = SubSeq(answer, v.off + 1, v.off + v.len)
      BY <1>4
    <3>3. /\ Len(write_buff.data) = v.len
          /\ SubSeq(write_buff.data, n + 1, v.len) =
                SubSeq(answer, v.off + n + 1, v.off + v.len)
      <4>1. v.off \in Nat /\ v.len \in Nat /\ v.off + v.len <= Len(answer)
        BY <1>1, <2>5
      <4>2. /\ SubSeq(SubSeq(answer, v.off + 1, v.off + v.len), n + 1, v.len)
                 = SubSeq(answer, v.off + n + 1, v.off + v.len)
            /\ Len(SubSeq(answer, v.off + 1, v.off + v.len)) = v.len
        BY <3>1, <4>1, PieceShrinks
      <4> QED BY <3>2, <4>2
    <3>4. n \in 0 .. Len(write_buff.data) /\ IsBuffer(write_buff, Part)
      BY <3>1, <3>3 DEF WriterTypes
    <3> QED BY <2>1, <3>3, <3>4, RetrieveIs
  <2>11. write_buff'.data = SubSeq(answer', iov'[1].off + 1, iov'[1].off + iov'[1].len)
    <3>1. iov'[1].off + iov'[1].len = v.off + v.len
      BY <1>1, <2>9
    <3> QED BY <1>1, <2>9, <2>10, <3>1
  <2>12. WriterTypes'
    BY <1>1, <2>6, <2>7, <2>8, <2>9, <2>10 DEF WriterTypes
  <2>13. BeingSent'
    <3>1. v.len > 0
      BY <1>1, <1>2
    <3>2. Len(sent') = v.off + n /\ write_buff'.data = Pieces(iov[1], iov[1].len)'
      BY <2>6, <2>7, <2>11 DEF Pieces
    <3>3. Len(answer') = L /\ iov'[2] = w /\ iov_cnt' = iov_cnt
      BY <1>1, <2>8
    <3>4. Len(sent') = iov'[1].off /\ iov'[1].off + iov'[1].len = v.off + v.len
      BY SMTT(30), <1>1, <2>9, <3>2
    <3> DEFINE o == iov'[1].off
               l == iov'[1].len
               s == Len(sent')
    <3>5. o \in Nat /\ l \in Nat /\ s \in Nat
      BY <1>1, <1>2, <2>9, <3>2
    <3>6. /\ iov_cnt = 2 => w.off + w.len = L
          /\ o + l = IF iov_cnt = 2 THEN w.off ELSE L
          /\ s = o
      BY <1>4, <3>1, <3>4
    <3>7. l = 0 => s = IF iov_cnt = 2 THEN w.off ELSE L
      BY <3>5, <3>6
    <3> QED BY <1>4, <3>2, <3>3, <3>6, <3>7 DEF BeingSent
  <2>14. IsBeginning'
    BY <1>1, <2>5, <2>6, <2>7 DEF IsBeginning
  <2> QED BY <2>12, <2>13, <2>14
<1>3. CASE n > v.len
  <2> DEFINE k == n - v.len
  <2>1. /\ iov' = <<[v EXCEPT !.len = 0], Advanced(w, k)>>
        /\ write_buff' = IF v.len > 0 THEN RetrieveAll(write_buff) ELSE write_buff
    <3>1. ~(n <= v.len)
      BY <1>1, <1>3
    <3> QED BY <1>3, <3>1 DEF Write, IovAfter, WriteBuffAfter
  <2>2. Min({n, v.len}) = v.len
    BY <1>1, <1>3, MinOfTwo
  <2>3. sent' = (sent \o Pieces(v, v.len)) \o Pieces(w, k)
    BY <2>2 DEF Write
  <2>4. /\ iov_cnt = 2 /\ k \in Nat /\ k <= w.len /\ w.off + k <= Len(answer)
        /\ w.off + w.len = Len(answer) /\ w.off <= Len(answer)
    <3>1. iov_cnt = 2 /\ w.off + w.len = L
      BY <1>1, <1>3, <1>4
    <3> HIDE DEF v, w
    <3> QED BY <1>1, <1>3, <3>1
  <2>5. sent \o Pieces(v, v.len) = SubSeq(answer, 1, w.off)
    <3>1. CASE v.len > 0
      <4>1. Len(sent) = v.off /\ v.off + v.len = w.off
        BY <1>4, <2>4, <3>1
      <4>2. sent = SubSeq(answer, 1, v.off) /\ answer \in Seq(Part)
        BY <4>1 DEF IsBeginning, WriterTypes
      <4>3. Pieces(v, v.len) = SubSeq(answer, v.off + 1, v.off + v.len)
        BY DEF Pieces
      <4>4. v.off \in Nat /\ v.len \in Nat /\ v.off + v.len <= Len(answer)
        BY <1>1, <2>4, <4>1
      <4>5. SubSeq(answer, 1, v.off) \o SubSeq(answer, v.off + 1, v.off + v.len)
              = SubSeq(answer, 1, v.off + v.len)
        BY <4>2, <4>4, BeginningGrows
      <4> QED BY <4>1, <4>2, <4>3, <4>5
    <3>2. CASE v.len = 0
      <4>1. Pieces(v, v.len) = <<>>
        BY <1>1, <3>2, SubSeqEmpty DEF Pieces
      <4>2. Len(sent) = w.off
        BY <1>4, <2>4, <3>2
      <4> QED BY <4>1, <4>2, ConcatEmptySeq DEF IsBeginning, WriterTypes
    <3> QED BY SMTT(30), <1>1, <3>1, <3>2
  <2>6. /\ sent' = SubSeq(answer, 1, w.off + k)
        /\ SubSeq(answer, 1, w.off + k) \in Seq(Part)
        /\ Len(SubSeq(answer, 1, w.off + k)) = w.off + k
    <3>1. Pieces(w, k) = SubSeq(answer, w.off + 1, w.off + k) /\ answer \in Seq(Part)
      BY DEF Pieces, WriterTypes
    <3>2. w.off \in Nat /\ k \in Nat /\ w.off + k <= Len(answer)
      BY <1>1, <2>4
    <3> HIDE DEF k
    <3>3. /\ SubSeq(answer, 1, w.off) \o SubSeq(answer, w.off + 1, w.off + k)
               = SubSeq(answer, 1, w.off + k)
          /\ SubSeq(answer, 1, w.off + k) \in Seq(Part)
          /\ Len(SubSeq(answer, 1, w.off + k)) = w.off + k
      BY <3>1, <3>2, BeginningGrows
    <3> QED BY <2>3, <2>5, <3>1, <3>3
  <2>7. /\ iov'[1] = [v EXCEPT !.len = 0] /\ iov'[2] = Bytes(w.off + k, w.len - k)
        /\ iov' = <<iov'[1], iov'[2]>>
    BY <2>1 DEF Advanced
  <2>8. /\ iov'[1].len = 0 /\ iov'[1].off = v.off /\ iov'[1] \in Span
        /\ iov'[2].off = w.off + k /\ iov'[2].len = w.len - k /\ iov'[2] \in Span
    <3> HIDE DEF v, w, k
    <3>1. w.off + k \in Nat /\ w.len - k \in Nat
      BY <1>1, <2>4
    <3>2. iov'[1].len = 0 /\ iov'[1].off = v.off /\ iov'[1] \in Span
      BY <1>1, <2>7 DEF Span
    <3> QED BY <2>7, <3>1, <3>2 DEF Bytes, Span
  <2>9. IsBuffer(write_buff', Part) /\ write_buff'.data = <<>>
    <3>1. CASE v.len > 0
      BY <2>1, <3>1, RetrieveAllIs DEF WriterTypes
    <3>2. CASE v.len = 0
      <4>1. Pieces(v, v.len) = <<>>
        BY <1>1, <3>2, SubSeqEmpty DEF Pieces
      <4> QED BY <2>1, <3>2, <4>1 DEF BeingSent, WriterTypes
    <3> QED BY <1>1, <3>1, <3>2
  <2>10. SubSeq(answer', iov'[1].off + 1, iov'[1].off + iov'[1].len) = <<>>
    BY <1>1, <2>8, SubSeqEmpty
  <2>11. WriterTypes'
    BY <1>1, <2>6, <2>7, <2>8, <2>9 DEF WriterTypes
  <2>12. BeingSent'
    <3>1. Len(answer') = L /\ iov_cnt' = 2 /\ Len(sent') = w.off + k
      BY <1>1, <2>4, <2>6
    <3>2. iov'[2].off + iov'[2].len = L
      BY SMTT(30), <1>1, <2>4, <2>8
    <3>3. write_buff'.data = Pieces(iov[1], iov[1].len)'
      BY <2>9, <2>10 DEF Pieces
    <3> QED BY <2>8, <3>1, <3>2, <3>3 DEF BeingSent
  <2>13. IsBeginning'
    BY <1>1, <2>4, <2>6 DEF IsBeginning
  <2> QED BY <2>11, <2>12, <2>13
<1> QED BY <1>1, <1>2, <1>3

(* A new answer starts with both iovecs at its beginning. *)
LEMMA RespondIs ==
  ASSUME WriterTypes, ParserTypes, write_buff.data = <<>>, Respond
  PROVE  WriterTypes' /\ BeingSent' /\ IsBeginning'
<1> DEFINE code == IF parse = "ok" THEN 200 ELSE -1
           head == write_buff'.data
           file == response'.mapped /\ response'.st_size > 0
           pieces == IF file THEN FilePieces(response'.path) ELSE <<>>
           size == IF file THEN response'.st_size ELSE 0
           w == IF file THEN Bytes(Len(head), response'.st_size) ELSE iov[2]
<1>1. /\ IsBuffer(write_buff', Part) /\ response' \in Answers
      /\ \E h \in Seq(Part) : write_buff'.data = write_buff.data \o h
      /\ file => /\ FilePieces(response'.path) \in Seq(Part)
                 /\ Len(FilePieces(response'.path)) = response'.st_size
  <2>1. MakeResponse(request.path, cls_probs, code) /\ code \in {-1, 200}
    BY DEF Respond
  <2>2. IsBuffer(write_buff, Part) /\ request.path \in Paths /\ cls_probs \in Seq(Token)
    BY DEF WriterTypes, ParserTypes, Fields
  <2> HIDE DEF code
  <2> QED BY <2>1, <2>2, ResponseIs
<1>2. head \in Seq(Part) /\ Len(head) \in Nat
  BY <1>1, LenProperties DEF IsBuffer
<1>3. pieces \in Seq(Part) /\ Len(pieces) = size /\ size \in Nat
  <2>1. <<>> \in Seq(Part) /\ Len(<<>>) = 0
    BY EmptySeq
  <2>2. response'.st_size \in Nat
    BY <1>1 DEF Answers
  <2> QED BY <1>1, <2>1, <2>2
<1>4. /\ iov' = <<Bytes(0, Len(head)), w>>
      /\ iov_cnt' = IF file THEN 2 ELSE 1
      /\ answer' = head \o pieces
      /\ sent' = <<>>
  BY DEF Respond, SetIov
<1>5. /\ w \in Span
      /\ file => w.off = Len(head) /\ w.len = size
  <2>1. CASE file
    BY <1>2, <1>3, <2>1 DEF Bytes, Span
  <2>2. CASE ~file
    BY <2>2 DEF WriterTypes
  <2> QED BY <2>1, <2>2
<1>6. ~file => size = 0 /\ pieces = <<>>
  OBVIOUS
<1> HIDE DEF head, file, pieces, size, w
<1>7. /\ answer' \in Seq(Part) /\ Len(answer') = Len(head) + size
      /\ \A k \in 1 .. Len(head) : answer'[k] = head[k]
  <2>1. /\ answer' \in Seq(Part) /\ Len(answer') = Len(head) + Len(pieces)
        /\ \A k \in 1 .. Len(head) + Len(pieces) :
             answer'[k] = IF k <= Len(head) THEN head[k] ELSE pieces[k - Len(head)]
    BY <1>2, <1>3, <1>4, ConcatProperties
  <2> QED BY <1>2, <1>3, <2>1
<1>8. sent' \in Seq(Part) /\ Len(sent') = 0 /\ SubSeq(answer', 1, 0) = <<>>
  BY <1>4, EmptySeq, SubSeqEmpty
<1>9. /\ iov'[1] = Bytes(0, Len(head)) /\ iov'[2] = w /\ iov' = <<iov'[1], iov'[2]>>
      /\ iov'[1].off = 0 /\ iov'[1].len = Len(head) /\ iov'[1] \in Span
  BY <1>2, <1>4 DEF Bytes, Span
<1>10. SubSeq(answer', 0 + 1, 0 + Len(head)) = head
  <2> DEFINE p == SubSeq(answer', 1, Len(head))
  <2>1. \A k \in 1 .. Len(head) : answer'[k] \in Part
    BY <1>2, <1>7, ElementOfSeq
  <2>2. 1 \in Int /\ Len(head) \in Int
    BY <1>2
  <2>3. /\ p \in Seq(Part) /\ Len(p) = IF 1 <= Len(head) THEN Len(head) - 1 + 1 ELSE 0
        /\ \A k \in 1 .. Len(head) - 1 + 1 : p[k] = answer'[1 + k - 1]
    BY <2>1, <2>2, SubSeqProperties
  <2> HIDE DEF p
  <2>4. Len(p) = Len(head) /\ \A k \in 1 .. Len(p) : p[k] = head[k]
    BY <1>2, <1>7, <2>3
  <2>5. p = head
    BY <1>2, <2>3, <2>4, SeqEqual
  <2>6. 0 + 1 = 1 /\ 0 + Len(head) = Len(head)
    BY <1>2
  <2> QED BY <2>5, <2>6 DEF p
<1>11. WriterTypes'
  BY <1>1, <1>4, <1>5, <1>7, <1>8, <1>9 DEF WriterTypes
<1>12. IsBeginning'
  <2>1. 0 <= Len(answer')
    BY <1>2, <1>3, <1>7
  <2> QED BY <1>4, <1>8, <2>1 DEF IsBeginning
<1>13. BeingSent'
  <2>1. write_buff'.data = Pieces(iov[1], iov[1].len)'
    BY <1>9, <1>10 DEF Pieces, head
  <2>2. CASE file
    <3>1. /\ iov_cnt' = 2 /\ iov'[2].off = Len(head) /\ iov'[2].len = size
          /\ Len(answer') = Len(head) + size
      BY <1>4, <1>5, <1>7, <1>9, <2>2
    <3> QED BY <1>2, <1>8, <1>9, <2>1, <3>1 DEF BeingSent
  <2>3. CASE ~file
    <3>1. iov_cnt' = 1 /\ Len(answer') = Len(head)
      BY <1>2, <1>4, <1>6, <1>7, <2>3
    <3> QED BY <1>2, <1>8, <1>9, <2>1, <3>1 DEF BeingSent
  <2> QED BY <2>2, <2>3
<1> QED BY <1>11, <1>12, <1>13
-----------------------------------------------------------------------------
(* What clients send. *)

(* Behind an announced length come the end of the header and as many bytes *)
(* of one request, in order.                                               *)
Follows(S, i) ==
  /\ i + 2 + S[i].length <= Len(S)
  /\ S[i + 1] = Eol /\ S[i + 2] = Eol
  /\ \E id \in Nat : \A k \in 1 .. S[i].length : S[i + 2 + k] = Byte(id, k)
Announced(S) == \A i \in 1 .. Len(S) : S[i].kind = "length" => Follows(S, i)

(* The tokens but for the one that announces a length. *)
Other == {t \in Token : t.kind # "length"}

LEMMA TokensAre ==
  ASSUME NEW q \in Requests, NEW id \in Nat
  PROVE  Tokens(q, id) \in Seq(Token) /\ Announced(Tokens(q, id))
<1> DEFINE A == <<Method(q.method), Target(q.path, q.version), Eol>>
           B == IF q.keep THEN <<KeepAliveHeader, Eol>> ELSE <<>>
           C == IF q.form THEN <<FormHeader, Eol>> ELSE <<>>
           N == IF q.length # NoLength THEN <<LengthHeader(q.length), Eol>> ELSE <<>>
           F == [k \in 1 .. q.body |-> Byte(id, k)]
           P == (A \o B) \o C
           S == ((P \o N) \o <<Eol>>) \o F
<1>1. Tokens(q, id) = S
  BY DEF Tokens
<1>2. /\ Method(q.method) \in Other /\ Target(q.path, q.version) \in Other
      /\ Eol \in Other /\ KeepAliveHeader \in Other /\ FormHeader \in Other
      /\ \A k \in Nat : Byte(id, k) \in Other
  <2>1. Method(q.method) \in Other
    BY DEF Other, Token, Method
  <2>2. Target(q.path, q.version) \in Other
    BY DEF Other, Token, Target
  <2>3. Eol \in Other /\ KeepAliveHeader \in Other /\ FormHeader \in Other
    BY DEF Other, Token, Eol, KeepAliveHeader, FormHeader
  <2>4. ASSUME NEW k \in Nat PROVE Byte(id, k) \in Other
    <3>1. Byte(id, k) \in Token
      BY DEF Token
    <3> QED BY <3>1 DEF Other, Byte
  <2> QED BY <2>1, <2>2, <2>3, <2>4
<1>3. P \in Seq(Other)
  <2>1. A \in Seq(Other) /\ B \in Seq(Other) /\ C \in Seq(Other)
    BY <1>2
  <2> HIDE DEF A, B, C
  <2>2. A \o B \in Seq(Other)
    BY <2>1, ConcatProperties
  <2> QED BY <2>1, <2>2, ConcatProperties
<1>4. q.body \in Nat /\ F \in Seq(Other) /\ Len(F) = q.body
      /\ \A k \in 1 .. q.body : F[k] = Byte(id, k)
  <2>1. q.body \in Nat
    BY ConnAssumption
  <2>2. F \in [1 .. q.body -> Other]
    BY <1>2, <2>1
  <2> QED BY <2>1, <2>2
<1>5. /\ <<Eol>> \in Seq(Other) /\ Len(<<Eol>>) = 1 /\ <<Eol>>[1] = Eol
  BY <1>2
<1> HIDE DEF P, F
<1>6. \A s \in Seq(Other) : s \in Seq(Token)
  BY SeqMonotonic DEF Other
<1>7. CASE q.length = NoLength
  <2>1. N = <<>>
    BY <1>7
  <2>2. P \o N = P
    BY <1>3, <2>1, ConcatEmptySeq
  <2>3. P \o <<Eol>> \in Seq(Other)
    BY <1>3, <1>5, ConcatProperties
  <2>4. S \in Seq(Other)
    BY <1>4, <2>2, <2>3, ConcatProperties
  <2> HIDE DEF S
  <2>5. ASSUME NEW i \in 1 .. Len(S) PROVE S[i].kind # "length"
    BY <2>4, ElementOfSeq DEF Other
  <2> QED BY <1>1, <1>6, <2>4, <2>5 DEF Announced
<1>8. CASE q.length # NoLength
  <2> DEFINE n == q.length
             p == Len(P)
  <2>1. n \in Nat /\ n <= q.body
    BY <1>8, ConnAssumption
  <2>2. p \in Nat /\ P \in Seq(Token) /\ Len(P) = p
    BY <1>3, <1>6, LenProperties
  <2>3. /\ N \in Seq(Token) /\ Len(N) = 2 /\ N[1] = LengthHeader(n) /\ N[2] = Eol
    <3>1. LengthHeader(n) \in Token /\ Eol \in Token
      BY <2>1 DEF Token
    <3>2. N = <<LengthHeader(n), Eol>>
      BY <1>8
    <3> HIDE DEF N
    <3> QED BY <3>1, <3>2
  <2> HIDE DEF N, n, p
  <2> DEFINE R == P \o N
             T == R \o <<Eol>>
  <2>4. /\ R \in Seq(Token) /\ Len(R) = p + 2
        /\ \A i \in 1 .. p + 2 : R[i] = IF i <= p THEN P[i] ELSE N[i - p]
    <3>1. /\ R \in Seq(Token) /\ Len(R) = Len(P) + Len(N)
          /\ \A i \in 1 .. Len(P) + Len(N) :
               R[i] = IF i <= Len(P) THEN P[i] ELSE N[i - Len(P)]
      BY <2>2, <2>3, ConcatProperties
    <3> HIDE DEF R
    <3> QED BY <2>2, <2>3, <3>1
  <2> HIDE DEF R
  <2>5. /\ T \in Seq(Token) /\ Len(T) = p + 3
        /\ \A i \in 1 .. p + 3 : T[i] = IF i <= p + 2 THEN R[i] ELSE <<Eol>>[i - (p + 2)]
    <3>0. <<Eol>> \in Seq(Token)
      BY <1>5, <1>6
    <3>1. <<Eol>> \in Seq(Token) /\ p + 2 + 1 = p + 3
      BY <2>2, <3>0
    <3>2. /\ T \in Seq(Token) /\ Len(T) = Len(R) + Len(<<Eol>>)
          /\ \A i \in 1 .. Len(R) + Len(<<Eol>>) :
               T[i] = IF i <= Len(R) THEN R[i] ELSE <<Eol>>[i - Len(R)]
      BY <2>4, <3>1, ConcatProperties
    <3> HIDE DEF T
    <3> QED BY <1>5, <2>4, <3>1, <3>2
  <2> HIDE DEF T
  <2>6. /\ S \in Seq(Token) /\ Len(S) = p + 3 + q.body
        /\ \A i \in 1 .. p + 3 + q.body :
             S[i] = IF i <= p + 3 THEN T[i] ELSE F[i - (p + 3)]
    <3>1. F \in Seq(Token) /\ S = T \o F
      BY <1>4, <1>6 DEF T, R
    <3> HIDE DEF S
    <3>2. /\ S \in Seq(Token) /\ Len(S) = Len(T) + Len(F)
          /\ \A i \in 1 .. Len(T) + Len(F) :
               S[i] = IF i <= Len(T) THEN T[i] ELSE F[i - Len(T)]
      BY <2>5, <3>1, ConcatProperties
    <3> QED BY <1>4, <2>5, <3>2
  <2> HIDE DEF S
  <2>7. /\ \A i \in 1 .. p : S[i] = P[i]
        /\ S[p + 1] = LengthHeader(n) /\ S[p + 2] = Eol /\ S[p + 3] = Eol
        /\ \A k \in 1 .. q.body : S[p + 3 + k] = Byte(id, k)
    <3>1. ASSUME NEW i \in 1 .. p PROVE S[i] = P[i]
      <4>1. /\ i \in 1 .. p + 2 /\ i \in 1 .. p + 3 /\ i \in 1 .. p + 3 + q.body
            /\ i <= p /\ i <= p + 2 /\ i <= p + 3
        BY <1>4, <2>2
      <4>2. S[i] = T[i]
        BY <2>6, <4>1
      <4>3. T[i] = R[i]
        BY <2>5, <4>1
      <4>4. R[i] = P[i]
        BY <2>4, <4>1
      <4> QED BY <4>2, <4>3, <4>4
    <3>2. S[p + 1] = LengthHeader(n)
      <4>1. p + 1 \in 1 .. p + 2 /\ p + 1 \in 1 .. p + 3 /\ p + 1 \in 1 .. p + 3 + q.body
            /\ p + 1 - p = 1
        BY <1>4, <2>2
      <4> QED BY SMTT(20), <2>2, <2>3, <2>4, <2>5, <2>6, <4>1
    <3>3. S[p + 2] = Eol
      <4>1. p + 2 \in 1 .. p + 2 /\ p + 2 \in 1 .. p + 3 /\ p + 2 \in 1 .. p + 3 + q.body
            /\ p + 2 - p = 2
        BY <1>4, <2>2
      <4> QED BY <2>2, <2>3, <2>4, <2>5, <2>6, <4>1
    <3>4. S[p + 3] = Eol
      <4>1. p + 3 \in 1 .. p + 3 /\ p + 3 \in 1 .. p + 3 + q.body /\ p + 3 - (p + 2) = 1
        BY <1>4, <2>2
      <4> QED BY <1>5, <2>2, <2>5, <2>6, <4>1
    <3>5. ASSUME NEW k \in 1 .. q.body PROVE S[p + 3 + k] = Byte(id, k)
      <4>1. p + 3 + k \in 1 .. p + 3 + q.body /\ ~(p + 3 + k <= p + 3)
            /\ p + 3 + k - (p + 3) = k
        BY <1>4, <2>2
      <4>2. S[p + 3 + k] = F[k]
        <5> DEFINE j == p + 3 + k
        <5>1. j \in 1 .. p + 3 + q.body /\ ~(j <= p + 3)
          BY <4>1
        <5> HIDE DEF j
        <5>2. S[j] = F[j - (p + 3)]
          BY <2>6, <5>1
        <5>3. j - (p + 3) = k
          BY <1>4, <2>2 DEF j
        <5>4. S[j] = F[k]
          BY <5>2, <5>3
        <5> QED BY <5>4 DEF j
      <4>3. F[k] = Byte(id, k)
        BY <1>4
      <4> QED BY <4>1, <4>2, <4>3
    <3> QED BY <3>1, <3>2, <3>3, <3>4, <3>5
  <2>8. ASSUME NEW i \in 1 .. Len(S), S[i].kind = "length" PROVE Follows(S, i)
    <3>1. i = p + 1
      <4>1. CASE i <= p
        <5>1. i \in 1 .. Len(P)
          BY <2>2, <4>1
        <5>2. P[i] \in Other
          BY <1>3, <5>1, ElementOfSeq
        <5> QED BY <2>7, <2>8, <2>2, <4>1, <5>1, <5>2 DEF Other
      <4>2. CASE i > p + 1
        <5>1. i = p + 2 \/ i = p + 3 \/ \E k \in 1 .. q.body : i = p + 3 + k
          <6>1. i > p + 3 => i = p + 3 + (i - (p + 3)) /\ i - (p + 3) \in 1 .. q.body
            BY <1>4, <2>2, <2>6
          <6> QED BY <2>2, <2>6, <4>2, <6>1
        <5>2. S[i] = Eol \/ \E k \in 1 .. q.body : S[i] = Byte(id, k)
          BY <2>7, <5>1
        <5>3. S[i].kind \in {"eol", "byte"}
          <6>1. Eol.kind = "eol"
            BY DEF Eol
          <6>2. \A k \in 1 .. q.body : Byte(id, k).kind = "byte"
            BY DEF Byte
          <6> QED BY <5>2, <6>1, <6>2
        <5> QED BY <2>8, <5>3
      <4> QED BY <2>2, <4>1, <4>2
    <3>2. S[i].length = n
      BY <2>7, <3>1 DEF LengthHeader
    <3>3. i + 2 + n <= Len(S) /\ S[i + 1] = Eol /\ S[i + 2] = Eol
      <4>1. i + 1 = p + 2 /\ i + 2 = p + 3
        BY <2>2, <3>1
      <4> QED BY <1>4, <2>1, <2>2, <2>6, <2>7, <4>1
    <3>4. ASSUME NEW k \in 1 .. n PROVE S[i + 2 + k] = Byte(id, k)
      <4>1. k \in 1 .. q.body /\ i + 2 + k = p + 3 + k
        BY <1>4, <2>1, <2>2, <3>1
      <4> QED BY <2>7, <4>1
    <3> QED BY <3>2, <3>3, <3>4 DEF Follows
  <2> QED BY <1>1, <2>6, <2>8 DEF Announced
<1> QED BY <1>7, <1>8
-----------------------------------------------------------------------------
(* The invariant, in parts. *)

ControlTypes ==
  /\ ET \in BOOLEAN /\ moved \in BOOLEAN /\ gone \in BOOLEAN
  /\ dropped \in BOOLEAN /\ owed \in BOOLEAN
  /\ pc \in {"closed", "in", "read", "process", "out", "write", "written", "crashed"}
  /\ parse \in {"idle", "begin", "loop", "ok", "more", "err", "throw"}
  /\ pc \notin {"process", "crashed"} => parse = "idle"
  /\ conns \in 0 .. MaxConn /\ asked \in 0 .. MaxAsked
ClientTypes == unsent \in Seq(Token) /\ net \in Seq(Token)
Types == ControlTypes /\ ClientTypes /\ ParserTypes /\ WriterTypes

(* When nothing is sent there is no answer, and before an answer is made   *)
(* the write buffer is empty.                                              *)
Phase ==
  /\ IsBeginning
  /\ pc \in {"closed", "in", "read", "process"} => answer = <<>> /\ sent = <<>>
  /\ pc \in {"in", "read", "process"} => write_buff.data = <<>>
  /\ pc \in {"out", "write", "written"} => BeingSent

(* What the request has in the states of the parser. *)
Shape ==
  /\ request.state = "REQUEST_LINE" => request.length = NoLength
  /\ request.state \in {"REQUEST_LINE", "HEADERS"} => request.body = <<>>
  /\ pc # "crashed" /\ request.state = "BODY" =>
       IF request.length > 0 THEN Len(request.body) < request.length
                             ELSE request.body = <<>>
Classified ==
  /\ pc # "crashed" /\ WholeImage(request) => cls_probs = request.body
  /\ pc \in {"out", "write", "written"} /\ response.path = "/result.html" =>
       request.path = "/result.html" /\ response.cls = cls_probs

IInv == Types /\ Phase /\ Shape /\ Classified

LEMMA InitIInv == Init => IInv
<1> SUFFICES ASSUME Init PROVE IInv
  OBVIOUS
<1>1. ControlTypes
  <2>1. conns \in 0 .. MaxConn /\ asked \in 0 .. MaxAsked
    BY ConnAssumption DEF Init
  <2>2. moved \in BOOLEAN /\ gone \in BOOLEAN /\ dropped \in BOOLEAN /\ owed \in BOOLEAN
    BY DEF Init
  <2> QED BY <2>1, <2>2 DEF Init, ControlTypes
<1>2. ClientTypes
  BY EmptySeq DEF Init, ClientTypes
<1>3. <<>> \in Seq(Token) /\ <<>> \in Seq(Part) /\ Len(<<>>) = 0
  BY EmptySeq
<1>4. request \in Fields
  BY <1>3 DEF Init, InitRequest, Fields, States, Methods, Paths, Versions
<1>5. ParserTypes
  BY <1>3, <1>4, NewBufferIs DEF Init, ParserTypes, NotClassified
<1>6. response \in Answers
  BY <1>3 DEF Init, InitResponse, Answers, Code
<1>7. iov = <<iov[1], iov[2]>> /\ iov[1] \in Span /\ iov[2] \in Span
  <2>1. PICK junk \in 0 .. 1 : iov = <<Bytes(0, 0), Bytes(0, junk)>>
    BY DEF Init
  <2> QED BY <2>1 DEF Bytes, Span
<1>8. WriterTypes
  BY <1>3, <1>6, <1>7, NewBufferIs DEF Init, WriterTypes
<1>9. Phase
  BY <1>3, SubSeqEmpty DEF Init, Phase, IsBeginning
<1>10. Shape /\ Classified
  BY <1>3 DEF Init, Shape, Classified, InitRequest, WholeImage, NoLength
<1> QED BY <1>1, <1>2, <1>5, <1>8, <1>9, <1>10 DEF IInv, Types

(* reset and close_conn. *)
LEMMA ResetIs ==
  ASSUME ParserTypes, WriterTypes, Reset
  PROVE  /\ IsBuffer(read_buff', Token) /\ read_buff'.data = <<>>
         /\ IsBuffer(write_buff', Part) /\ write_buff'.data = <<>>
         /\ request' \in Fields /\ request' = InitRequest
<1>1. InitRequest \in Fields
  BY EmptySeq DEF InitRequest, Fields, States, Methods, Paths, Versions
<1> QED BY <1>1, RetrieveAllIs DEF Reset, ParserTypes, WriterTypes

LEMMA CloseIs ==
  ASSUME WriterTypes, Close
  PROVE  /\ response' \in Answers /\ ClientTypes'
         /\ answer' = <<>> /\ sent' = <<>> /\ IsBeginning'
         /\ answer' \in Seq(Part) /\ sent' \in Seq(Part)
<1>1. <<>> \in Seq(Token) /\ <<>> \in Seq(Part) /\ Len(<<>>) = 0
  BY EmptySeq
<1>2. response' \in Answers
  BY DEF Close, Unmapped, WriterTypes, Answers
<1> QED BY <1>1, <1>2, SubSeqEmpty DEF Close, ClientTypes, IsBeginning

LEMMA ControlStep ==
  ASSUME ControlTypes, ParserTypes, [Next]_vars
  PROVE  ControlTypes'
<1> USE DEF ControlTypes
<1>1. CASE UNCHANGED vars
  BY <1>1 DEF vars, client, parser, sending
<1>2. ASSUME NEW q \in Requests, Ask(q) PROVE ControlTypes'
  BY <1>2, ConnAssumption DEF Ask, parser, sending
<1>3. ASSUME NEW n \in 1 .. Len(unsent), Arrive(n) PROVE ControlTypes'
  BY <1>3 DEF Arrive, parser, sending
<1>4. CASE Leave
  BY <1>4 DEF Leave, parser, sending
<1>5. CASE Open
  <2>1. conns' \in 0 .. MaxConn
    BY <1>5, ConnAssumption DEF Open
  <2>2. /\ pc' = "in" /\ parse' = parse /\ parse = "idle" /\ ~dropped' /\ ~owed'
        /\ dropped' \in BOOLEAN /\ owed' \in BOOLEAN
    BY <1>5 DEF Open
  <2>3. ET' = ET /\ moved' = moved /\ gone' = gone /\ asked' = asked
    BY <1>5 DEF Open, client
  <2> QED BY <2>1, <2>2, <2>3
<1>6. CASE CloseIdle
  <2>1. gone' \in BOOLEAN /\ pc' = "closed" /\ parse' = parse /\ parse = "idle"
    BY <1>6 DEF CloseIdle, Close, parser
  <2> QED BY <1>6, <2>1 DEF CloseIdle
<1>7. CASE Event
  BY <1>7 DEF Event, client, parser, sending
<1>8. CASE Read
  BY <1>8 DEF Read, sending
<1>9. CASE ReadCrash \/ RespondCrash \/ WriteCrash
  BY <1>9 DEF ReadCrash, RespondCrash, WriteCrash, client, parser, sending
<1>10. CASE ReadEnds
  BY <1>10 DEF ReadEnds, Close
<1>11. CASE Parse
  <2>1. parse' \in {"loop", "more", "ok", "err", "throw"}
    BY <1>11, ParserStep DEF Parse, ParseBegin, Again
  <2> QED BY <1>11, <2>1 DEF Parse, client, sending
<1>12. CASE NeedMore
  BY <1>12 DEF NeedMore, client, sending
<1>13. CASE Respond
  BY <1>13 DEF Respond, client
<1>14. ASSUME NEW n \in 1 .. Offered, Write(n) PROVE ControlTypes'
  BY <1>14 DEF Write, client, parser
<1>15. ASSUME NEW ret \in {"sent", "none", "EAGAIN", "error"}, OnWriteEnds(ret)
       PROVE ControlTypes'
  BY <1>15 DEF OnWriteEnds, WriteReturns, Reset, Close
<1> QED BY <1>1, <1>2, <1>3, <1>4, <1>5, <1>6, <1>7, <1>8, <1>9, <1>10, <1>11,
           <1>12, <1>13, <1>14, <1>15 DEF Next, Task

(* Sequences of tokens, cut and joined. *)
LEMMA CutIs ==
  ASSUME NEW s \in Seq(Token), NEW n \in 0 .. Len(s)
  PROVE  /\ SubSeq(s, 1, n) \in Seq(Token) /\ Len(SubSeq(s, 1, n)) = n
         /\ \A k \in 1 .. n : SubSeq(s, 1, n)[k] = s[k]
         /\ SubSeq(s, n + 1, Len(s)) \in Seq(Token)
         /\ Len(SubSeq(s, n + 1, Len(s))) = Len(s) - n
         /\ \A k \in 1 .. Len(s) - n : SubSeq(s, n + 1, Len(s))[k] = s[n + k]
<1>1. Len(s) \in Nat /\ \A k \in 1 .. Len(s) : s[k] \in Token
  BY LenProperties, ElementOfSeq
<1> DEFINE a == SubSeq(s, 1, n)
           b == SubSeq(s, n + 1, Len(s))
<1>2. /\ a \in Seq(Token) /\ Len(a) = IF 1 <= n THEN n - 1 + 1 ELSE 0
      /\ \A k \in 1 .. n - 1 + 1 : a[k] = s[1 + k - 1]
  <2>1. 1 \in Int /\ n \in Int /\ \A k \in 1 .. n : s[k] \in Token
    BY <1>1
  <2> QED BY <2>1, SubSeqProperties
<1>3. /\ b \in Seq(Token)
      /\ Len(b) = IF n + 1 <= Len(s) THEN Len(s) - (n + 1) + 1 ELSE 0
      /\ \A k \in 1 .. Len(s) - (n + 1) + 1 : b[k] = s[n + 1 + k - 1]
  <2>1. n + 1 \in Int /\ Len(s) \in Int /\ \A k \in n + 1 .. Len(s) : s[k] \in Token
    BY <1>1
  <2> QED BY <2>1, SubSeqProperties
<1> HIDE DEF a, b
<1>4. a \in Seq(Token) /\ Len(a) = n /\ \A k \in 1 .. n : a[k] = s[k]
  BY <1>1, <1>2
<1>5. /\ b \in Seq(Token) /\ Len(b) = Len(s) - n
      /\ \A k \in 1 .. Len(s) - n : b[k] = s[n + k]
  BY <1>1, <1>3
<1> QED BY <1>4, <1>5 DEF a, b

(* What a turn of read takes. *)
LEMMA ReceivedIs ==
  ASSUME ClientTypes, ParserTypes
  PROVE  \E n \in 0 .. Len(net) :
           /\ Received = SubSeq(net, 1, n) /\ Received \in Seq(Token)
           /\ Len(Received) = n
<1> DEFINE m == MostRead(read_buff)
           n == Min({Len(net), m})
<1>1. Len(net) \in Nat /\ m \in Nat
  <2>1. Len(net) \in Nat /\ Len(read_buff.data) \in Nat
    BY LenProperties DEF ClientTypes, ParserTypes, IsBuffer
  <2> QED BY <2>1, BufferAssumption
          DEF MostRead, Writable, WritePos, ParserTypes, IsBuffer
<1> HIDE DEF m
<1>2. n \in 0 .. Len(net)
  BY <1>1, MinOfTwo
<1>3. Received = SubSeq(net, 1, n)
  BY DEF Received, m
<1> HIDE DEF n
<1> QED BY <1>2, <1>3, CutIs DEF ClientTypes

LEMMA ClientStep ==
  ASSUME Types, [Next]_vars
  PROVE  ClientTypes'
<1> USE DEF ClientTypes, Types
<1>1. CASE UNCHANGED vars
  BY <1>1 DEF vars, client
<1>2. ASSUME NEW q \in Requests, Ask(q) PROVE ClientTypes'
  <2>1. asked + 1 \in Nat
    BY ConnAssumption DEF ControlTypes
  <2>2. Tokens(q, asked + 1) \in Seq(Token)
    BY <2>1, TokensAre
  <2> QED BY <1>2, <2>2 DEF Ask
<1>3. ASSUME NEW n \in 1 .. Len(unsent), Arrive(n) PROVE ClientTypes'
  <2>1. n \in 0 .. Len(unsent)
    BY LenProperties
  <2>2. SubSeq(unsent, 1, n) \in Seq(Token) /\ SubSeq(unsent, n + 1, Len(unsent)) \in Seq(Token)
    BY <2>1, CutIs
  <2>3. net \o SubSeq(unsent, 1, n) \in Seq(Token)
    BY <2>2, ConcatProperties
  <2> QED BY <1>3, <2>2, <2>3 DEF Arrive
<1>4. CASE Leave
  BY <1>4, EmptySeq DEF Leave
<1>5. CASE Open \/ Event \/ ReadCrash \/ RespondCrash \/ WriteCrash \/ Parse
           \/ NeedMore \/ Respond
  BY <1>5 DEF Open, Event, ReadCrash, RespondCrash, WriteCrash, Parse, NeedMore,
              Respond, client
<1>6. CASE CloseIdle
  BY <1>6, CloseIs DEF CloseIdle
<1>7. CASE Read
  <2>1. PICK n \in 0 .. Len(net) : Len(Received) = n
    BY ReceivedIs
  <2>2. SubSeq(net, n + 1, Len(net)) \in Seq(Token)
    BY CutIs
  <2> QED BY <1>7, <2>1, <2>2 DEF Read
<1>8. CASE ReadEnds
  BY <1>8, CloseIs DEF ReadEnds
<1>9. ASSUME NEW n \in 1 .. Offered, Write(n) PROVE ClientTypes'
  BY <1>9 DEF Write, client
<1>10. ASSUME NEW ret \in {"sent", "none", "EAGAIN", "error"}, OnWriteEnds(ret)
       PROVE ClientTypes'
  BY <1>10, CloseIs DEF OnWriteEnds
<1> QED BY <1>1, <1>2, <1>3, <1>4, <1>5, <1>6, <1>7, <1>8, <1>9, <1>10
        DEF Next, Task

LEMMA ParserTypesStep ==
  ASSUME Types, [Next]_vars
  PROVE  ParserTypes'
<1> USE DEF ParserTypes, Types
<1>1. CASE UNCHANGED vars
  BY <1>1 DEF vars, parser
<1>2. ASSUME NEW q \in Requests, Ask(q) PROVE ParserTypes'
  BY <1>2 DEF Ask, parser
<1>3. ASSUME NEW n \in 1 .. Len(unsent), Arrive(n) PROVE ParserTypes'
  BY <1>3 DEF Arrive, parser
<1>4. CASE Leave \/ Event \/ CloseIdle \/ ReadCrash \/ RespondCrash \/ WriteCrash
  BY <1>4 DEF Leave, Event, CloseIdle, ReadCrash, RespondCrash, WriteCrash, parser
<1>5. CASE Open
  <2>1. InitRequest \in Fields
    BY EmptySeq DEF InitRequest, Fields, States, Methods, Paths, Versions
  <2> QED BY <1>5, <2>1, RetrieveAllIs DEF Open
<1>6. CASE Read
  <2>1. Received \in Seq(Token)
    BY ReceivedIs
  <2>2. IsBuffer(read_buff', Token)
    BY <1>6, <2>1, ReadFdIs, ShrunkIs DEF Read
  <2> QED BY <1>6, <2>2 DEF Read
<1>7. CASE ReadEnds \/ NeedMore \/ Respond
  BY <1>7 DEF ReadEnds, NeedMore, Respond
<1>8. CASE Parse
  BY <1>8, ParserStep DEF Parse
<1>9. ASSUME NEW n \in 1 .. Offered, Write(n) PROVE ParserTypes'
  BY <1>9 DEF Write, parser
<1>10. ASSUME NEW ret \in {"sent", "none", "EAGAIN", "error"}, OnWriteEnds(ret)
       PROVE ParserTypes'
  BY <1>10, ResetIs DEF OnWriteEnds
<1> QED BY <1>1, <1>2, <1>3, <1>4, <1>5, <1>6, <1>7, <1>8, <1>9, <1>10
        DEF Next, Task

(* The write buffer, the iovecs and the answer. *)
LEMMA WriterStep ==
  ASSUME Types, Phase, [Next]_vars
  PROVE  WriterTypes' /\ Phase'
<1> USE DEF Types
<1>0. ASSUME UNCHANGED <<write_buff, response, sending>>
      PROVE  /\ WriterTypes' /\ IsBeginning' /\ (BeingSent => BeingSent')
             /\ answer' = answer /\ sent' = sent /\ write_buff' = write_buff
  <2>1. /\ write_buff' = write_buff /\ response' = response /\ iov' = iov
        /\ iov_cnt' = iov_cnt /\ answer' = answer /\ sent' = sent
    BY <1>0 DEF sending
  <2>2. WriterTypes'
    BY <2>1 DEF WriterTypes
  <2>3. IsBeginning'
    BY <2>1 DEF IsBeginning, Phase
  <2>4. ASSUME BeingSent PROVE BeingSent'
    BY <2>1, <2>4 DEF BeingSent, Pieces
  <2> QED BY <2>1, <2>2, <2>3, <2>4
<1>1. CASE UNCHANGED vars
  BY <1>0, <1>1 DEF vars, Phase
<1>2. ASSUME NEW q \in Requests, Ask(q) PROVE WriterTypes' /\ Phase'
  BY <1>0, <1>2 DEF Ask, Phase
<1>3. ASSUME NEW n \in 1 .. Len(unsent), Arrive(n) PROVE WriterTypes' /\ Phase'
  BY <1>0, <1>3 DEF Arrive, Phase
<1>4. CASE Leave \/ Event \/ Read \/ Parse \/ NeedMore
  BY <1>0, <1>4 DEF Leave, Event, Read, Parse, NeedMore, Phase
<1>5. CASE ReadCrash \/ RespondCrash \/ WriteCrash
  BY <1>0, <1>5 DEF ReadCrash, RespondCrash, WriteCrash, Phase
<1>6. CASE Open
  <2>1. IsBuffer(write_buff', Part) /\ write_buff'.data = <<>>
    BY <1>6, RetrieveAllIs DEF Open, WriterTypes
  <2> QED BY <1>6, <2>1 DEF Open, sending, WriterTypes, Phase, IsBeginning
<1>7. CASE CloseIdle
  BY <1>7, CloseIs DEF CloseIdle, Close, WriterTypes, Phase
<1>8. CASE ReadEnds
  <2>1. CASE Close
    BY <1>8, <2>1, CloseIs DEF ReadEnds, Close, WriterTypes, Phase
  <2>2. CASE pc' = "process" /\ UNCHANGED <<response, unsent, net, gone, answer, sent>>
    BY <1>8, <2>2 DEF ReadEnds, WriterTypes, Phase, IsBeginning
  <2> QED BY <1>8, <2>1, <2>2 DEF ReadEnds
<1>9. CASE Respond
  <2>1. write_buff.data = <<>> /\ pc' = "out"
    BY <1>9 DEF Respond, Phase
  <2> QED BY <1>9, <2>1, RespondIs DEF Phase
<1>10. ASSUME NEW n \in 1 .. Offered, Write(n) PROVE WriterTypes' /\ Phase'
  <2>1. BeingSent /\ IsBeginning /\ pc' \in {"write", "written"}
    BY <1>10 DEF Write, Phase
  <2> QED BY <1>10, <2>1, WriteIs DEF Phase
<1>11. ASSUME NEW ret \in {"sent", "none", "EAGAIN", "error"}, OnWriteEnds(ret)
       PROVE WriterTypes' /\ Phase'
  <2>1. iov' = iov /\ iov_cnt' = iov_cnt /\ pc \in {"write", "written"}
    BY <1>11 DEF OnWriteEnds, WriteReturns
  <2>2. CASE Reset /\ pc' = "in" /\ answer' = <<>> /\ sent' = <<>> /\ response' = response
    <3>1. IsBuffer(write_buff', Part) /\ write_buff'.data = <<>>
      BY <2>2, ResetIs
    <3> QED BY <2>1, <2>2, <3>1, EmptySeq, SubSeqEmpty DEF WriterTypes, Phase, IsBeginning
  <2>3. CASE /\ pc' = "out"
             /\ UNCHANGED <<response, read_buff, write_buff, request, dropped,
                            unsent, net, gone, answer, sent>>
    BY <1>0, <2>1, <2>3 DEF sending, Phase
  <2>4. CASE Close /\ UNCHANGED <<read_buff, write_buff, request, dropped>>
    BY <2>1, <2>4, CloseIs DEF Close, WriterTypes, Phase
  <2> QED BY <1>11, <2>2, <2>3, <2>4 DEF OnWriteEnds
<1> QED BY <1>1, <1>2, <1>3, <1>4, <1>5, <1>6, <1>7, <1>8, <1>9, <1>10, <1>11
        DEF Next, Task
(* A turn of the parser keeps what the request has in its states, and when *)
(* an image is whole it is the one that was classified.                    *)
LEMMA ParseShape ==
  ASSUME ParserTypes, Shape, Classified, Parse
  PROVE  /\ Shape' /\ (pc' # "crashed" /\ WholeImage(request)' => cls_probs' = request'.body)
         /\ pc' \in {"process", "crashed"}
<1>0. pc = "process" /\ pc' = IF parse' = "throw" THEN "crashed" ELSE "process"
  BY DEF Parse
<1>1. CASE UNCHANGED <<read_buff, request, cls_probs>>
  BY <1>0, <1>1 DEF Shape, Classified, WholeImage
<1>2. ASSUME NEW r \in Fields, request' = r, r.body = <<>>,
             r.state = "REQUEST_LINE" => r.length = NoLength
      PROVE  Shape' /\ ~WholeImage(request)'
  <2>1. Len(r.body) = 0 /\ r.length \in Int
    BY <1>2, EmptySeq DEF Fields, NoLength
  <2> QED BY <1>2, <2>1 DEF Shape, WholeImage
<1>3. CASE ParseRequestLine
  <2>1. request.body = <<>>
    BY <1>3 DEF ParseRequestLine, Shape
  <2>2. CASE read_buff' = read_buff /\ request' = request
    BY <1>1, <1>3, <2>2, RequestLineIs
  <2>3. CASE \E r \in Fields : /\ EndTurn(r) /\ r.state = "HEADERS"
                               /\ r.body = request.body
    <3>1. PICK r \in Fields : EndTurn(r) /\ r.state = "HEADERS" /\ r.body = <<>>
      BY <2>1, <2>3
    <3> QED BY <1>0, <1>2, <3>1 DEF EndTurn
  <2> QED BY <1>3, <2>2, <2>3, RequestLineIs
<1>4. CASE ParseHeader
  <2>1. request.body = <<>>
    BY <1>4 DEF ParseHeader, Shape
  <2>2. PICK r \in Fields : /\ EndTurn(r) /\ r.body = request.body
                            /\ r.state \in {"FINISH", "BODY", "HEADERS"}
    BY <1>4, HeaderIs
  <2> QED BY <1>0, <1>2, <2>1, <2>2 DEF EndTurn
<1>5. CASE ParseBody
  <2>1. request.state = "BODY" /\ Extended.state = "BODY"
        /\ Extended.length = request.length /\ Extended \in Fields
    BY <1>5, ExtendedIs DEF ParseBody
  <2>2. Extended.length \in Int /\ Len(Extended.body) \in Nat
        /\ (Extended.length # NoLength => Extended.length \in Nat)
    BY <2>1, LenProperties DEF Fields, NoLength
  <2>3. CASE EndTurn(request) /\ cls_probs' = cls_probs
    BY <1>0, <2>3 DEF EndTurn, Shape, Classified, WholeImage
  <2>4. CASE /\ request.length # NoLength /\ Len(Extended.body) < request.length
             /\ request' = Extended
    <3>1. /\ Extended.length > 0 /\ Len(Extended.body) < Extended.length
          /\ ~(Len(Extended.body) >= Extended.length)
      BY <2>1, <2>2, <2>4
    <3>2. ~WholeImage(request)'
      BY <2>4, <3>1 DEF WholeImage
    <3>3. /\ request'.state = "BODY" /\ request'.length > 0
          /\ Len(request'.body) < request'.length
      BY <2>1, <2>4, <3>1
    <3>4. Shape'
      BY <3>3 DEF Shape
    <3> QED BY <1>0, <3>2, <3>4
  <2>5. CASE request' = Extended /\ parse' = "throw"
    BY <1>0, <2>1, <2>5 DEF Shape
  <2>6. CASE \E r \in Fields : /\ EndTurn(r) /\ r.state = "FINISH"
                               /\ (WholeImage(r) => cls_probs' = r.body)
    <3>1. PICK r \in Fields : /\ EndTurn(r) /\ r.state = "FINISH"
                              /\ (WholeImage(r) => cls_probs' = r.body)
      BY <2>6
    <3>2. request' = r
      BY <3>1 DEF EndTurn
    <3> QED BY <1>0, <3>1, <3>2 DEF Shape, WholeImage
  <2> QED BY <1>0, <1>5, <2>3, <2>4, <2>5, <2>6, BodyIs
<1> QED BY <1>0, <1>1, <1>3, <1>4, <1>5 DEF Parse, ParseTurn

(* The request and the classification of its image. *)
LEMMA ImageStep ==
  ASSUME Types, Phase, Shape, Classified, [Next]_vars
  PROVE  Shape' /\ Classified'
<1> USE DEF Types
<1>0. ASSUME request' = request, cls_probs' = cls_probs, pc # "crashed"
      PROVE  Shape' /\ (WholeImage(request)' => cls_probs' = request'.body)
  BY <1>0 DEF Shape, Classified, WholeImage
<1>1. CASE UNCHANGED vars
  <2>1. /\ request' = request /\ cls_probs' = cls_probs /\ pc' = pc
        /\ response' = response
    BY <1>1 DEF vars, parser
  <2> QED BY <2>1 DEF Shape, Classified, WholeImage
<1>2. ASSUME request' = request, cls_probs' = cls_probs, pc # "crashed",
             pc' \notin {"out", "write", "written"}
      PROVE  Shape' /\ Classified'
  BY <1>0, <1>2 DEF Classified
<1>3. ASSUME request' = request, cls_probs' = cls_probs, response' = response,
             pc \in {"out", "write", "written"}
      PROVE  Shape' /\ Classified'
  BY <1>0, <1>3 DEF Classified
<1>4. ASSUME request' = InitRequest, pc' \notin {"out", "write", "written"}
      PROVE  Shape' /\ Classified'
  BY <1>4 DEF Shape, Classified, WholeImage, InitRequest, NoLength
<1>5. ASSUME NEW q \in Requests, Ask(q) PROVE Shape' /\ Classified'
  BY <1>2, <1>5 DEF Ask, parser
<1>6. ASSUME NEW n \in 1 .. Len(unsent), Arrive(n) PROVE Shape' /\ Classified'
  BY <1>2, <1>6 DEF Arrive, parser
<1>7. CASE Leave
  BY <1>2, <1>3, <1>7 DEF Leave, parser
<1>8. CASE Open
  BY <1>4, <1>8 DEF Open
<1>9. CASE CloseIdle \/ ReadCrash \/ RespondCrash \/ WriteCrash \/ NeedMore
  BY <1>2, <1>9
     DEF CloseIdle, Close, ReadCrash, RespondCrash, WriteCrash, NeedMore, parser
<1>10. CASE Event
  BY <1>2, <1>3, <1>10 DEF Event, parser
<1>11. CASE Read \/ ReadEnds
  BY <1>2, <1>11 DEF Read, ReadEnds, Close
<1>12. CASE Parse
  BY <1>12, ParseShape DEF Classified
<1>13. CASE Respond
  <2>1. /\ request' = request /\ cls_probs' = cls_probs /\ pc = "process"
        /\ pc' = "out"
    BY <1>13 DEF Respond
  <2>2. response'.path = "/result.html" =>
          request.path = "/result.html" /\ response'.cls = cls_probs
    <3> DEFINE code == IF parse = "ok" THEN 200 ELSE -1
    <3>1. MakeResponse(request.path, cls_probs, code) /\ code \in {-1, 200}
      BY <1>13 DEF Respond
    <3>2. IsBuffer(write_buff, Part) /\ request.path \in Paths /\ cls_probs \in Seq(Token)
      BY DEF WriterTypes, ParserTypes, Fields
    <3> HIDE DEF code
    <3> QED BY <3>1, <3>2, ResponseIs
  <2> QED BY <1>0, <2>1, <2>2 DEF Classified
<1>14. ASSUME NEW n \in 1 .. Offered, Write(n) PROVE Shape' /\ Classified'
  BY <1>3, <1>14 DEF Write, parser
<1>15. ASSUME NEW ret \in {"sent", "none", "EAGAIN", "error"}, OnWriteEnds(ret)
       PROVE Shape' /\ Classified'
  <2>1. pc \in {"write", "written"} /\ cls_probs' = cls_probs
    BY <1>15 DEF OnWriteEnds, WriteReturns
  <2> QED BY <1>2, <1>3, <1>4, <1>15, <2>1 DEF OnWriteEnds, Reset, Close
<1> QED BY <1>1, <1>5, <1>6, <1>7, <1>8, <1>9, <1>10, <1>11, <1>12, <1>13, <1>14,
           <1>15 DEF Next, Task
-----------------------------------------------------------------------------
(* What follows. *)

LEMMA IInvStep == IInv /\ [Next]_vars => IInv'
<1> SUFFICES ASSUME IInv, [Next]_vars PROVE IInv'
  OBVIOUS
<1> USE DEF IInv
<1>1. ControlTypes' /\ ClientTypes' /\ ParserTypes'
  BY ControlStep, ClientStep, ParserTypesStep DEF Types
<1>2. WriterTypes' /\ Phase'
  BY WriterStep
<1>3. Shape' /\ Classified'
  BY ImageStep
<1> QED BY <1>1, <1>2, <1>3 DEF Types

(* Whatever is read, cut, parsed, answered and sent in whatever portions,  *)
(* and whoever uses the connection next, IInv holds.                       *)
THEOREM Invariance == Spec => []IInv
BY InitIInv, IInvStep, PTL DEF Spec

(* What the state has is of its type. *)
THEOREM Typing == Spec => []TypeOK
<1>1. IInv => TypeOK
  <2> SUFFICES ASSUME IInv PROVE TypeOK
    OBVIOUS
  <2> USE DEF IInv, Types
  <2>1. \A b \in {read_buff, write_buff} : b.read \in Nat /\ Writable(b) \in Nat
    <3>1. Len(read_buff.data) \in Nat /\ Len(write_buff.data) \in Nat
      BY LenProperties DEF ParserTypes, WriterTypes, IsBuffer
    <3> QED BY <3>1 DEF ParserTypes, WriterTypes, IsBuffer, Writable, WritePos
  <2>2. /\ request.state \in {"REQUEST_LINE", "HEADERS", "BODY", "FINISH"}
        /\ response.code \in Code /\ response.st_size \in Nat
    BY DEF ParserTypes, WriterTypes, Fields, States, Answers
  <2>3. iov \in Seq([off : Nat, len : Nat]) /\ Len(iov) = 2 /\ iov_cnt \in 0 .. 2
    <3>1. iov[1] \in Span /\ iov[2] \in Span
      BY DEF WriterTypes
    <3>2. <<iov[1], iov[2]>> \in Seq(Span) /\ Len(<<iov[1], iov[2]>>) = 2
      BY <3>1
    <3> QED BY <3>2 DEF WriterTypes, Span
  <2>4. {ET, moved, gone, dropped, owed} \subseteq BOOLEAN
    BY DEF ControlTypes
  <2> QED BY <2>1, <2>2, <2>3, <2>4 DEF ControlTypes, TypeOK
<1> QED BY <1>1, Invariance, PTL

(* What a client gets is the beginning of its answer, however the sends    *)
(* of http_conn::write are cut.                                            *)
THEOREM SendsInOrder == Spec => []SentInOrder
<1>1. IInv => SentInOrder
  <2> SUFFICES ASSUME IInv PROVE SentInOrder
    OBVIOUS
  <2>1. /\ sent = SubSeq(answer, 1, Len(sent)) /\ Len(sent) <= Len(answer)
        /\ sent \in Seq(Part)
    BY DEF IInv, Types, WriterTypes, Phase, IsBeginning
  <2>2. SubSeq(sent, 1, Len(sent)) = sent
    BY <2>1, SubSeqFull
  <2> QED BY <2>1, <2>2 DEF SentInOrder, IsPrefix
<1> QED BY <1>1, Invariance, PTL

(* The write buffer holds what the first iovec points to, and nothing when *)
(* an answer is made.                                                      *)
THEOREM BufferAgrees == Spec => []WriteBuffAgrees
<1>1. IInv => WriteBuffAgrees
  BY DEF IInv, Phase, BeingSent, WriteBuffAgrees
<1> QED BY <1>1, Invariance, PTL

(* An answer to a whole image has the classification of this image, though *)
(* init leaves that of an earlier request in the connection.               *)
THEOREM AnswersThisImage == Spec => []ResultOfImage
<1>1. IInv => ResultOfImage
  <2> SUFFICES ASSUME IInv,
                      pc \in {"out", "write", "written"},
                      response.path = "/result.html",
                      request.method = "POST" /\ request.form,
                      request.length > 0, Len(request.body) >= request.length
               PROVE  response.cls = request.body
    BY DEF ResultOfImage
  <2>1. request.path = "/result.html" /\ response.cls = cls_probs
    BY DEF IInv, Classified
  <2>2. WholeImage(request)
    BY <2>1 DEF WholeImage
  <2> QED BY <2>1, <2>2 DEF IInv, Classified
<1> QED BY <1>1, Invariance, PTL

(* Edge-triggered, an answer is given up only for a client that has left:  *)
(* on_write_ ends otherwise in a turn that has nothing to send, and then   *)
(* the iovecs are at the end of the answer, or with a full socket, and     *)
(* then there is something left and the connection waits for room.         *)
THEOREM SendsAll == Spec => SentWhole
<1> DEFINE Whole == ET /\ pc = "write" /\ pc' \in {"in", "closed"} => gone \/ sent = answer
<1>1. IInv /\ [Next]_vars => [Whole]_vars
  <2> SUFFICES ASSUME IInv, Next, ET, pc = "write", pc' \in {"in", "closed"}, ~gone
               PROVE  sent = answer
    OBVIOUS
  <2>1. PICK ret \in {"sent", "none", "EAGAIN", "error"} : OnWriteEnds(ret)
    <3>1. ~(\E q \in Requests : Ask(q)) /\ ~(\E n \in 1 .. Len(unsent) : Arrive(n))
      BY DEF Ask, Arrive
    <3>2. ~Leave /\ ~Open /\ ~CloseIdle /\ ~Event
      BY DEF Leave, Open, CloseIdle, Event
    <3>3. ~Read /\ ~ReadCrash /\ ~ReadEnds /\ ~Parse /\ ~NeedMore
      BY DEF Read, ReadCrash, ReadEnds, Parse, NeedMore
    <3>4. ~Respond /\ ~RespondCrash /\ ~WriteCrash
      BY DEF Respond, RespondCrash, WriteCrash
    <3>5. ~(\E n \in 1 .. Offered : Write(n))
      BY DEF Write
    <3> QED BY <3>1, <3>2, <3>3, <3>4, <3>5 DEF Next, Task
  <2>2. BeingSent /\ IsBeginning /\ WriterTypes
    BY DEF IInv, Types, Phase
  <2>3. iov[1].len \in Nat /\ iov[2].len \in Nat /\ iov[1].off \in Nat /\ iov[2].off \in Nat
    BY <2>2 DEF WriterTypes, Span
  <2>4. Len(sent) = Len(answer)
    <3>1. ret \in {"none", "EAGAIN"}
      BY <2>1 DEF OnWriteEnds, WriteReturns
    <3>2. CASE ret = "none"
      <4>1. iov[1].len = 0 /\ (iov_cnt = 2 => iov[2].len = 0)
        <5>1. Offered = 0
          BY <2>1, <3>2 DEF OnWriteEnds, WriteReturns
        <5> QED BY <2>3, <5>1 DEF Offered
      <4> QED BY <2>2, <2>3, <4>1 DEF BeingSent
    <3>3. CASE ret = "EAGAIN"
      <4>1. BytesToWrite > 0
        BY <2>1, <2>3, <3>3 DEF OnWriteEnds, WriteReturns, Offered, BytesToWrite
      <4>2. ~Kept /\ ~(BytesToWrite = 0)
        BY <2>3, <4>1 DEF Kept, BytesToWrite
      <4> QED BY <2>1, <3>3, <4>2 DEF OnWriteEnds
    <3> QED BY <3>1, <3>2, <3>3
  <2> QED BY <2>2, <2>4, SubSeqFull DEF IsBeginning, WriterTypes
<1> QED BY <1>1, Invariance, PTL DEF Spec, SentWhole
-----------------------------------------------------------------------------
(* The stream of a client: what the connection has read and not parsed,    *)
(* what is in the socket, and what is still to come.                       *)
Joined(a, b, c) == (a \o b) \o c

(* What the parser relies on when it goes on with request r: behind the    *)
(* header come the end of the header and the announced body; behind a part *)
(* of the body comes the next part of the same body.                       *)
AwaitsBody(S, r) ==
  r.state = "HEADERS" /\ r.length # NoLength =>
    /\ Len(S) > r.length /\ S[1] = Eol
    /\ \E id \in Nat : \A k \in 1 .. r.length : S[1 + k] = Byte(id, k)
AwaitsRest(S, r) ==
  r.state = "BODY" /\ r.length # NoLength =>
    /\ Len(r.body) <= r.length /\ Len(S) >= r.length - Len(r.body)
    /\ \E id \in Nat :
         /\ \A k \in 1 .. Len(r.body) : r.body[k] = Byte(id, k)
         /\ \A k \in 1 .. r.length - Len(r.body) : S[k] = Byte(id, Len(r.body) + k)

Parsing ==
  \/ pc \in {"in", "read"}
  \/ pc = "process" /\ parse \in {"begin", "loop", "more"}

(* Once the client has left, what it would have sent may stay out.         *)
Stream ==
  ~dropped /\ pc \notin {"closed", "crashed"} =>
    \E rest \in Seq(Token) :
      /\ ~gone => rest = unsent
      /\ Announced(Joined(read_buff.data, net, rest))
      /\ Parsing => /\ AwaitsBody(Joined(read_buff.data, net, rest), request)
                    /\ AwaitsRest(Joined(read_buff.data, net, rest), request)

Gathered(r) ==
  \E id \in Nat : \A k \in 1 .. Len(r.body) : k <= r.length => r.body[k] = Byte(id, k)
BodyIsOne == ~dropped => Gathered(request)

(* A closed connection has nothing of a client. *)
NoClient == pc = "closed" => unsent = <<>> /\ net = <<>>

BInv == IInv /\ NoClient /\ Stream /\ BodyIsOne

LEMMA JoinedIs ==
  ASSUME NEW a \in Seq(Token), NEW b \in Seq(Token), NEW c \in Seq(Token)
  PROVE  /\ Joined(a, b, c) \in Seq(Token)
         /\ Len(Joined(a, b, c)) = Len(a) + Len(b) + Len(c)
         /\ \A k \in 1 .. Len(a) : Joined(a, b, c)[k] = a[k]
<1> DEFINE d == a \o b
<1>1. Len(a) \in Nat /\ Len(b) \in Nat /\ Len(c) \in Nat
  BY LenProperties
<1>2. /\ d \in Seq(Token) /\ Len(d) = Len(a) + Len(b)
      /\ \A k \in 1 .. Len(a) + Len(b) :
           d[k] = IF k <= Len(a) THEN a[k] ELSE b[k - Len(a)]
  BY ConcatProperties
<1> HIDE DEF d
<1>3. /\ d \o c \in Seq(Token) /\ Len(d \o c) = Len(d) + Len(c)
      /\ \A k \in 1 .. Len(d) + Len(c) :
           (d \o c)[k] = IF k <= Len(d) THEN d[k] ELSE c[k - Len(d)]
  <2>1. d \in Seq(Token)
    BY <1>2
  <2> QED BY <2>1, ConcatProperties
<1> DEFINE j == d \o c
<1> HIDE DEF j
<1>4. /\ j \in Seq(Token) /\ Len(j) = Len(a) + Len(b) + Len(c)
      /\ \A k \in 1 .. Len(a) : j[k] = a[k]
  <2>1. j \in Seq(Token) /\ Len(j) = Len(d) + Len(c)
    BY <1>3 DEF j
  <2>2. \A k \in 1 .. Len(d) + Len(c) : j[k] = IF k <= Len(d) THEN d[k] ELSE c[k - Len(d)]
    BY <1>3 DEF j
  <2>3. ASSUME NEW k \in 1 .. Len(a) PROVE j[k] = a[k]
    <3>1. k \in 1 .. Len(d) + Len(c) /\ k <= Len(d) /\ k \in 1 .. Len(a) + Len(b)
      BY <1>1, <1>2
    <3> QED BY <1>2, <2>2, <3>1
  <2> QED BY <1>1, <1>2, <2>1, <2>3
<1> QED BY <1>4 DEF j, d, Joined

(* Without what the parser has retrieved the stream is the rest of it. *)
LEMMA RestIs ==
  ASSUME NEW a \in Seq(Token), NEW b \in Seq(Token), NEW c \in Seq(Token),
         NEW j \in 0 .. Len(a)
  PROVE  LET S == Joined(a, b, c)
             T == Joined(SubSeq(a, j + 1, Len(a)), b, c)
         IN /\ S \in Seq(Token) /\ T \in Seq(Token)
            /\ Len(T) = Len(S) - j
            /\ \A k \in 1 .. Len(T) : T[k] = S[j + k]
<1> DEFINE p == SubSeq(a, 1, j)
           q == SubSeq(a, j + 1, Len(a))
           T == Joined(q, b, c)
           S == Joined(a, b, c)
<1>1. /\ p \in Seq(Token) /\ Len(p) = j
      /\ q \in Seq(Token) /\ Len(q) = Len(a) - j
  BY CutIs
<1>2. p \o q = a
  <2>1. /\ 1 \in 1 .. Len(a) + 1 /\ j \in 1 - 1 .. Len(a)
        /\ Len(a) \in j .. Len(a)
    BY LenProperties
  <2>2. p \o q = SubSeq(a, 1, Len(a))
    BY <2>1, ConcatAdjacentSubSeq
  <2> QED BY <2>2, SubSeqFull
<1> HIDE DEF p, q
<1>3. T \in Seq(Token) /\ S \in Seq(Token)
  BY <1>1, JoinedIs
<1>4. S = p \o T
  <2>1. p \in Seq(Token) /\ q \in Seq(Token)
    BY <1>1
  <2>2. q \o b \in Seq(Token)
    BY <2>1, ConcatProperties
  <2>3. (p \o q) \o b = p \o (q \o b)
    BY SMTT(30), <2>1, ConcatAssociative
  <2>4. (p \o (q \o b)) \o c = p \o ((q \o b) \o c)
    BY SMTT(30), <2>1, <2>2, ConcatAssociative
  <2> QED BY <1>2, <2>3, <2>4 DEF Joined
<1> HIDE DEF S, T
<1>5. /\ Len(p \o T) = Len(p) + Len(T)
      /\ \A i \in 1 .. Len(p) + Len(T) :
           (p \o T)[i] = IF i <= Len(p) THEN p[i] ELSE T[i - Len(p)]
  BY <1>1, <1>3, ConcatProperties
<1>6. Len(T) \in Nat /\ Len(S) = j + Len(T)
  BY <1>1, <1>3, <1>4, <1>5, LenProperties
<1>7. ASSUME NEW k \in 1 .. Len(T) PROVE T[k] = S[j + k]
  <2> DEFINE i == j + k
  <2>1. i \in 1 .. Len(p) + Len(T) /\ ~(i <= Len(p)) /\ i - Len(p) = k
    BY <1>1, <1>6
  <2> HIDE DEF i
  <2>2. S[i] = T[i - Len(p)]
    BY <1>4, <1>5, <2>1
  <2> QED BY <2>1, <2>2 DEF i
<1>8. Len(T) = Len(S) - j
  BY <1>6
<1> QED BY <1>3, <1>7, <1>8 DEF S, T, q

(* What is announced in a stream is announced in the rest of it, and in    *)
(* two streams one after the other.                                        *)
LEMMA AnnouncedRest ==
  ASSUME NEW S \in Seq(Token), NEW T \in Seq(Token), NEW j \in Nat,
         Len(T) = Len(S) - j, \A k \in 1 .. Len(T) : T[k] = S[j + k],
         Announced(S)
  PROVE  Announced(T)
<1> SUFFICES ASSUME NEW i \in 1 .. Len(T), T[i].kind = "length"
             PROVE  Follows(T, i)
  BY DEF Announced
<1>1. Len(S) \in Nat /\ Len(T) \in Nat
  BY LenProperties
<1> DEFINE m == j + i
           n == T[i].length
<1>2. m \in 1 .. Len(S) /\ T[i] = S[m] /\ n \in Nat
  <2>1. T[i] \in Token
    BY ElementOfSeq
  <2> QED BY <1>1, <2>1, TokenIs
<1>3. Follows(S, m)
  BY <1>2 DEF Announced
<1>4. PICK id \in Nat : \A k \in 1 .. n : S[m + 2 + k] = Byte(id, k)
  BY <1>2, <1>3 DEF Follows
<1>5. m + 2 + n <= Len(S) /\ S[m + 1] = Eol /\ S[m + 2] = Eol
  BY <1>2, <1>3 DEF Follows
<1> HIDE DEF n
<1>6. i + 2 + n <= Len(T)
  BY <1>1, <1>2, <1>5
<1>7. T[i + 1] = Eol /\ T[i + 2] = Eol
  <2>1. /\ i + 1 \in 1 .. Len(T) /\ j + (i + 1) = m + 1
        /\ i + 2 \in 1 .. Len(T) /\ j + (i + 2) = m + 2
    BY <1>1, <1>2, <1>6
  <2>2. T[i + 1] = S[j + (i + 1)] /\ T[i + 2] = S[j + (i + 2)]
    BY <2>1
  <2> QED BY <1>5, <2>1, <2>2
<1>8. ASSUME NEW k \in 1 .. n PROVE T[i + 2 + k] = Byte(id, k)
  <2>1. i + 2 + k \in 1 .. Len(T) /\ j + (i + 2 + k) = m + 2 + k
    <3>1. n \in Nat /\ k \in Nat /\ 1 <= k /\ k <= n /\ i \in Nat
      BY <1>2
    <3> QED BY <1>1, <1>6, <3>1
  <2>2. T[i + 2 + k] = S[j + (i + 2 + k)]
    BY <2>1
  <2> QED BY <1>4, <2>1, <2>2
<1> QED BY <1>6, <1>7, <1>8 DEF Follows, n
LEMMA AnnouncedBoth ==
  ASSUME NEW S \in Seq(Token), NEW T \in Seq(Token), Announced(S), Announced(T)
  PROVE  Announced(S \o T)
<1> DEFINE U == S \o T
<1>1. Len(S) \in Nat /\ Len(T) \in Nat
  BY LenProperties
<1>2. /\ U \in Seq(Token) /\ Len(U) = Len(S) + Len(T)
      /\ \A k \in 1 .. Len(S) + Len(T) : U[k] = IF k <= Len(S) THEN S[k] ELSE T[k - Len(S)]
  BY ConcatProperties
<1> HIDE DEF U
<1>3. /\ \A k \in 1 .. Len(S) : U[k] = S[k]
      /\ \A k \in Len(S) + 1 .. Len(U) : U[k] = T[k - Len(S)]
  BY <1>1, <1>2
<1>4. ASSUME NEW i \in 1 .. Len(U), U[i].kind = "length" PROVE Follows(U, i)
  <2> DEFINE n == U[i].length
  <2>1. n \in Nat
    <3>1. U[i] \in Token
      BY <1>2, ElementOfSeq
    <3> QED BY <1>4, <3>1, TokenIs
  <2>2. CASE i \in 1 .. Len(S)
    <3>1. U[i] = S[i]
      BY <1>3, <2>2
    <3>2. Follows(S, i)
      BY <1>4, <2>2, <3>1 DEF Announced
    <3>3. PICK id \in Nat : \A k \in 1 .. n : S[i + 2 + k] = Byte(id, k)
      BY <3>1, <3>2 DEF Follows
    <3>4. i + 2 + n <= Len(S) /\ S[i + 1] = Eol /\ S[i + 2] = Eol
      BY <3>1, <3>2 DEF Follows
    <3> HIDE DEF n
    <3>5. i + 2 + n <= Len(U) /\ i + 1 \in 1 .. Len(S) /\ i + 2 \in 1 .. Len(S)
      BY <1>1, <1>2, <2>1, <3>4
    <3>6. U[i + 1] = Eol /\ U[i + 2] = Eol
      BY <1>3, <3>4, <3>5
    <3>7. ASSUME NEW k \in 1 .. n PROVE U[i + 2 + k] = Byte(id, k)
      <4>1. i + 2 + k \in 1 .. Len(S)
        BY <1>1, <2>1, <2>2, <3>4
      <4> QED BY <1>3, <3>3, <4>1
    <3> QED BY <3>5, <3>6, <3>7 DEF Follows, n
  <2>3. CASE i \notin 1 .. Len(S)
    <3> DEFINE m == i - Len(S)
    <3>1. i \in Len(S) + 1 .. Len(U) /\ m \in 1 .. Len(T)
      BY <1>1, <1>2, <2>3
    <3>2. U[i] = T[m]
      BY <1>3, <3>1
    <3>3. Follows(T, m)
      BY <1>4, <3>1, <3>2 DEF Announced
    <3>4. PICK id \in Nat : \A k \in 1 .. n : T[m + 2 + k] = Byte(id, k)
      BY <3>2, <3>3 DEF Follows
    <3>5. m + 2 + n <= Len(T) /\ T[m + 1] = Eol /\ T[m + 2] = Eol
      BY <3>2, <3>3 DEF Follows
    <3> HIDE DEF n
    <3>6. i + 2 + n <= Len(U)
      BY <1>1, <1>2, <2>1, <3>1, <3>5
    <3>7. U[i + 1] = Eol /\ U[i + 2] = Eol
      <4>1. /\ i + 1 \in Len(S) + 1 .. Len(U) /\ (i + 1) - Len(S) = m + 1
            /\ i + 2 \in Len(S) + 1 .. Len(U) /\ (i + 2) - Len(S) = m + 2
        BY <1>1, <1>2, <2>1, <3>1, <3>6
      <4>2. U[i + 1] = T[(i + 1) - Len(S)] /\ U[i + 2] = T[(i + 2) - Len(S)]
        BY <1>3, <4>1
      <4> QED BY <3>5, <4>1, <4>2
    <3>8. ASSUME NEW k \in 1 .. n PROVE U[i + 2 + k] = Byte(id, k)
      <4>1. i + 2 + k \in Len(S) + 1 .. Len(U) /\ (i + 2 + k) - Len(S) = m + 2 + k
        <5>1. n \in Nat /\ k \in Nat /\ 1 <= k /\ k <= n /\ i \in Nat
          BY <2>1, <3>1
        <5> QED BY <1>1, <1>2, <3>1, <3>6, <5>1
      <4>2. U[i + 2 + k] = T[(i + 2 + k) - Len(S)]
        BY <1>3, <4>1
      <4> QED BY <3>4, <4>1, <4>2
    <3> QED BY <3>6, <3>7, <3>8 DEF Follows, n
  <2> QED BY <2>2, <2>3
<1> QED BY <1>4 DEF Announced, U

(* What the parser relies on it has also when more is to come. *)
LEMMA AwaitsBoth ==
  ASSUME NEW S \in Seq(Token), NEW T \in Seq(Token), NEW r \in Fields
  PROVE  /\ AwaitsBody(S, r) => AwaitsBody(S \o T, r)
         /\ AwaitsRest(S, r) => AwaitsRest(S \o T, r)
<1> DEFINE U == S \o T
<1>1. Len(S) \in Nat /\ Len(T) \in Nat
  BY LenProperties
<1>2. /\ U \in Seq(Token) /\ Len(U) = Len(S) + Len(T)
      /\ \A k \in 1 .. Len(S) + Len(T) : U[k] = IF k <= Len(S) THEN S[k] ELSE T[k - Len(S)]
  BY ConcatProperties
<1> HIDE DEF U
<1>3. \A k \in 1 .. Len(S) : U[k] = S[k]
  BY <1>1, <1>2
<1>4. Len(r.body) \in Nat /\ (r.length # NoLength => r.length \in Nat)
  BY LenProperties DEF Fields
<1>5. ASSUME AwaitsBody(S, r), r.state = "HEADERS", r.length # NoLength
      PROVE  /\ Len(U) > r.length /\ U[1] = Eol
             /\ \E id \in Nat : \A k \in 1 .. r.length : U[1 + k] = Byte(id, k)
  <2>1. PICK id \in Nat : \A k \in 1 .. r.length : S[1 + k] = Byte(id, k)
    BY <1>5 DEF AwaitsBody
  <2>2. Len(S) > r.length /\ S[1] = Eol
    BY <1>5 DEF AwaitsBody
  <2>3. Len(U) > r.length /\ 1 \in 1 .. Len(S)
    BY <1>1, <1>2, <1>4, <1>5, <2>2
  <2>4. ASSUME NEW k \in 1 .. r.length PROVE U[1 + k] = Byte(id, k)
    <3>1. 1 + k \in 1 .. Len(S)
      BY <1>1, <1>4, <1>5, <2>2
    <3> QED BY <1>3, <2>1, <3>1
  <2> QED BY <1>3, <2>2, <2>3, <2>4
<1>6. ASSUME AwaitsRest(S, r), r.state = "BODY", r.length # NoLength
      PROVE  /\ Len(r.body) <= r.length /\ Len(U) >= r.length - Len(r.body)
             /\ \E id \in Nat :
                  /\ \A k \in 1 .. Len(r.body) : r.body[k] = Byte(id, k)
                  /\ \A k \in 1 .. r.length - Len(r.body) :
                       U[k] = Byte(id, Len(r.body) + k)
  <2> DEFINE n == Len(r.body)
  <2>1. PICK id \in Nat :
               /\ \A k \in 1 .. n : r.body[k] = Byte(id, k)
               /\ \A k \in 1 .. r.length - n : S[k] = Byte(id, n + k)
    BY <1>6 DEF AwaitsRest
  <2>2. n <= r.length /\ Len(S) >= r.length - n
    BY <1>6 DEF AwaitsRest
  <2> HIDE DEF n
  <2>3. Len(U) >= r.length - n
    BY <1>1, <1>2, <1>4, <1>6, <2>2 DEF n
  <2>4. ASSUME NEW k \in 1 .. r.length - n PROVE U[k] = Byte(id, n + k)
    <3>1. k \in 1 .. Len(S)
      BY <1>1, <1>4, <1>6, <2>2 DEF n
    <3> QED BY <1>3, <2>1, <3>1
  <2> QED BY <2>1, <2>2, <2>3, <2>4 DEF n
<1> QED BY <1>5, <1>6 DEF AwaitsBody, AwaitsRest, U

(* A turn retrieves from the front. *)
LEMMA EndTurnCuts ==
  ASSUME NEW r, IsBuffer(read_buff, Token), EndTurn(r)
  PROVE  \E j \in 0 .. Len(read_buff.data) :
           /\ read_buff'.data = SubSeq(read_buff.data, j + 1, Len(read_buff.data))
           /\ parse' = "loop" => j = LineEnd(read_buff)
<1>1. Len(read_buff.data) \in Nat /\ read_buff.data \in Seq(Token)
  BY LenProperties DEF IsBuffer
<1>2. CASE LineIsWhole(read_buff)
  <2>1. LineEnd(read_buff) \in 0 .. Len(read_buff.data)
    BY <1>1, <1>2, LineEndIs DEF LineIsWhole
  <2>2. read_buff' = Retrieve(read_buff, LineEnd(read_buff))
    BY <1>2 DEF EndTurn
  <2> QED BY <2>1, <2>2, RetrieveIs
<1>3. CASE ~LineIsWhole(read_buff)
  <2>1. parse' = "ok" /\ read_buff' = read_buff
    BY <1>3 DEF EndTurn
  <2>2. read_buff.data = SubSeq(read_buff.data, 0 + 1, Len(read_buff.data))
    BY <1>1, SubSeqFull
  <2> QED BY <1>1, <2>1, <2>2
<1> QED BY <1>2, <1>3
(* The stream before a turn and after it. *)
LEMMA CutStream ==
  ASSUME ParserTypes, ClientTypes, NEW rest \in Seq(Token),
         Announced(Joined(read_buff.data, net, rest)),
         NEW j \in 0 .. Len(read_buff.data),
         read_buff'.data = SubSeq(read_buff.data, j + 1, Len(read_buff.data))
  PROVE  LET S == Joined(read_buff.data, net, rest)
             T == Joined(read_buff'.data, net, rest)
         IN /\ S \in Seq(Token) /\ T \in Seq(Token)
            /\ Len(S) \in Nat /\ Len(T) \in Nat /\ Len(read_buff.data) \in Nat
            /\ Len(T) = Len(S) - j /\ Len(read_buff.data) <= Len(S)
            /\ \A k \in 1 .. Len(T) : T[k] = S[j + k]
            /\ \A k \in 1 .. Len(read_buff.data) : S[k] = read_buff.data[k]
            /\ Announced(T)
<1> DEFINE a == read_buff.data
           S == Joined(a, net, rest)
           T == Joined(SubSeq(a, j + 1, Len(a)), net, rest)
<1>1. a \in Seq(Token) /\ net \in Seq(Token)
  BY DEF ParserTypes, ClientTypes, IsBuffer
<1> HIDE DEF a
<1>2. j \in 0 .. Len(a) /\ j \in Nat
  BY DEF a
<1>3. /\ S \in Seq(Token) /\ T \in Seq(Token) /\ Len(T) = Len(S) - j
      /\ \A k \in 1 .. Len(T) : T[k] = S[j + k]
  BY <1>1, <1>2, RestIs
<1>4. Len(S) = Len(a) + Len(net) + Len(rest) /\ \A k \in 1 .. Len(a) : S[k] = a[k]
  BY <1>1, JoinedIs
<1>5. /\ Len(S) \in Nat /\ Len(T) \in Nat /\ Len(a) \in Nat
      /\ Len(net) \in Nat /\ Len(rest) \in Nat
  BY <1>1, <1>3, LenProperties
<1>6. T = Joined(read_buff'.data, net, rest)
  BY DEF a
<1>7. Announced(S)
  BY DEF a
<1> HIDE DEF S, T
<1>8. Announced(T)
  BY <1>2, <1>3, <1>7, AnnouncedRest
<1>9. Len(a) <= Len(S)
  BY <1>4, <1>5
<1> QED BY <1>3, <1>4, <1>5, <1>6, <1>8, <1>9 DEF S, a

LEMMA EmptyGathered ==
  ASSUME NEW r, r.body = <<>>
  PROVE  Gathered(r)
<1>1. Len(r.body) = 0
  BY EmptySeq
<1> QED BY <1>1 DEF Gathered

LEMMA RequestLineStream ==
  ASSUME ParserTypes, ClientTypes, Shape, NEW rest \in Seq(Token),
         Announced(Joined(read_buff.data, net, rest)), ParseRequestLine
  PROVE  LET T == Joined(read_buff'.data, net, rest)
         IN /\ Announced(T) /\ Gathered(request)'
            /\ parse' \in {"loop", "more"} => AwaitsBody(T, request') /\ AwaitsRest(T, request')
<1>1. request.length = NoLength /\ request.body = <<>>
  BY DEF ParseRequestLine, Shape
<1>2. CASE parse' = "err" /\ read_buff' = read_buff /\ request' = request
  BY <1>1, <1>2, EmptyGathered
<1>3. CASE \E r \in Fields : /\ EndTurn(r)
                             /\ r.state = "HEADERS" /\ r.length = request.length
                             /\ r.body = request.body
  <2>1. PICK r \in Fields : /\ EndTurn(r) /\ r.state = "HEADERS"
                            /\ r.length = NoLength /\ r.body = <<>>
    BY <1>1, <1>3
  <2>2. request' = r
    BY <2>1 DEF EndTurn
  <2>3. PICK j \in 0 .. Len(read_buff.data) :
          read_buff'.data = SubSeq(read_buff.data, j + 1, Len(read_buff.data))
    BY <2>1, EndTurnCuts DEF ParserTypes
  <2>4. Announced(Joined(read_buff'.data, net, rest))
    BY <2>3, CutStream
  <2>5. Gathered(request)'
    BY <2>1, <2>2, EmptyGathered
  <2> QED BY <2>1, <2>2, <2>4, <2>5 DEF AwaitsBody, AwaitsRest
<1> QED BY <1>2, <1>3, RequestLineIs

(* After the line that announces a length, and only then, the next line is *)
(* empty and the body begins behind it.                                    *)
LEMMA HeaderStream ==
  ASSUME ParserTypes, ClientTypes, Shape, NEW rest \in Seq(Token),
         Announced(Joined(read_buff.data, net, rest)),
         AwaitsBody(Joined(read_buff.data, net, rest), request), ParseHeader
  PROVE  LET T == Joined(read_buff'.data, net, rest)
         IN /\ Announced(T) /\ Gathered(request)'
            /\ parse' \in {"loop", "more"} => AwaitsBody(T, request') /\ AwaitsRest(T, request')
<1> DEFINE a == read_buff.data
           S == Joined(a, net, rest)
           T == Joined(read_buff'.data, net, rest)
           e == LineEnd(read_buff)
           line == Line(read_buff)
<1>1. request.body = <<>> /\ request.state = "HEADERS"
  BY DEF ParseHeader, Shape
<1>2. PICK r \in Fields :
        /\ EndTurn(r) /\ r.body = request.body
        /\ \/ r.state = "FINISH"
           \/ /\ ~IsHeader(line) /\ r.state = "BODY" /\ r.length = request.length
           \/ /\ IsHeader(line) /\ r.state = "HEADERS"
              /\ r.length = IF line[1].kind = "length" THEN line[1].length
                                                       ELSE request.length
  BY HeaderIs
<1>3. request' = r
  BY <1>2 DEF EndTurn
<1>4. PICK j \in 0 .. Len(a) :
        /\ read_buff'.data = SubSeq(a, j + 1, Len(a))
        /\ parse' = "loop" => j = e
  BY <1>2, EndTurnCuts DEF ParserTypes
<1>5. /\ S \in Seq(Token) /\ T \in Seq(Token)
      /\ Len(S) \in Nat /\ Len(T) \in Nat /\ Len(a) \in Nat
      /\ Len(T) = Len(S) - j /\ Len(a) <= Len(S)
      /\ \A k \in 1 .. Len(T) : T[k] = S[j + k]
      /\ \A k \in 1 .. Len(a) : S[k] = a[k]
      /\ Announced(T)
  BY <1>4, CutStream
<1>6. Gathered(request)'
  BY <1>1, <1>2, <1>3, EmptyGathered
<1>7. parse' \in {"loop", "ok"} /\ (parse' = "loop" => r.state # "FINISH" /\ e <= Len(a))
  BY <1>2, EndTurnIs DEF ParserTypes
<1>8. /\ e \in 1 .. Len(a) + 1 /\ \A k \in 1 .. e - 1 : a[k] # Eol
      /\ e <= Len(a) => a[e] = Eol
  BY LineEndIs DEF ParserTypes
<1>9. Len(line) = e - 1 /\ \A k \in 1 .. e - 1 : line[k] = a[k]
  BY LineIs DEF ParserTypes
<1>10. Announced(S) /\ AwaitsBody(S, request) /\ Len(r.body) = 0
  BY <1>1, <1>2, EmptySeq
<1>11. r.length # NoLength => r.length \in Nat
  BY DEF Fields
<1> HIDE DEF a, S, T, e, line
<1>12. ASSUME parse' = "loop", request.length # NoLength PROVE e = 1
  <2>1. S[1] = Eol /\ 1 \in 1 .. Len(a)
    BY <1>1, <1>5, <1>7, <1>8, <1>10, <1>12 DEF AwaitsBody
  <2>2. a[1] = Eol
    BY <1>5, <2>1
  <2>3. e \in Int /\ 1 <= e /\ ~(1 \in 1 .. e - 1)
    BY <1>5, <1>8, <2>2
  <2> QED BY <2>3
<1>13. CASE parse' = "loop" /\ ~IsHeader(line) /\ r.state = "BODY"
            /\ r.length = request.length
  <2>1. ASSUME r.length # NoLength
        PROVE  /\ Len(r.body) <= r.length /\ Len(T) >= r.length - Len(r.body)
               /\ \E id \in Nat :
                    /\ \A k \in 1 .. Len(r.body) : r.body[k] = Byte(id, k)
                    /\ \A k \in 1 .. r.length - Len(r.body) :
                         T[k] = Byte(id, Len(r.body) + k)
    <3>1. j = 1
      BY <1>4, <1>12, <1>13, <2>1 DEF e
    <3>2. PICK id \in Nat : \A k \in 1 .. r.length : S[1 + k] = Byte(id, k)
      BY <1>1, <1>10, <1>13, <2>1 DEF AwaitsBody
    <3>3. Len(S) > r.length /\ r.length \in Nat
      BY <1>1, <1>10, <1>11, <1>13, <2>1 DEF AwaitsBody
    <3>4. Len(T) >= r.length
      BY <1>5, <3>1, <3>3
    <3> DEFINE n == Len(r.body)
    <3>5. n = 0
      BY <1>10
    <3> HIDE DEF n
    <3>6. r.length - n = r.length /\ n <= r.length
      BY <3>3, <3>5
    <3>7. ASSUME NEW k \in 1 .. r.length - n PROVE T[k] = Byte(id, n + k)
      <4>1. k \in 1 .. Len(T) /\ k \in 1 .. r.length /\ n + k = k
        BY <1>5, <3>3, <3>4, <3>5
      <4>2. T[k] = S[1 + k]
        BY <1>5, <3>1, <4>1
      <4> QED BY <3>2, <4>1, <4>2
    <3>8. \A k \in 1 .. n : r.body[k] = Byte(id, k)
      BY <3>5
    <3> QED BY <3>4, <3>6, <3>7, <3>8 DEF n
  <2> QED BY <1>3, <1>5, <1>6, <1>13, <2>1 DEF AwaitsBody, AwaitsRest, T
<1>14. CASE /\ parse' = "loop" /\ IsHeader(line) /\ r.state = "HEADERS"
            /\ r.length = IF line[1].kind = "length" THEN line[1].length
                                                     ELSE request.length
  <2>1. Len(line) = 1 /\ line[1].kind \in HeaderKinds
    BY <1>14 DEF IsHeader
  <2>2. e = 2 /\ j = 2 /\ line[1] = a[1] /\ S[1] = a[1] /\ 1 \in 1 .. Len(S)
    <3>1. e \in Int /\ e = 2 /\ j = e /\ e <= Len(a)
      <4>1. j = e /\ e <= Len(a) /\ Len(line) = e - 1
        BY <1>4, <1>7, <1>9, <1>14
      <4>2. e \in Int
        BY <1>5, <1>8
      <4>3. 1 = e - 1
        BY <2>1, <4>1
      <4>4. e = 2
        BY <4>2, <4>3
      <4> QED BY <4>1, <4>2, <4>4
    <3>2. 1 \in 1 .. e - 1 /\ 1 \in 1 .. Len(a) /\ 1 \in 1 .. Len(S)
      BY <1>5, <3>1
    <3> QED BY <1>5, <1>9, <3>1, <3>2
  <2>3. request.length = NoLength
    BY <1>12, <1>14, <2>2
  <2>4. ASSUME r.length # NoLength
        PROVE  /\ Len(T) > r.length /\ T[1] = Eol
               /\ \E id \in Nat : \A k \in 1 .. r.length : T[1 + k] = Byte(id, k)
    <3>1. S[1].kind = "length" /\ r.length = S[1].length /\ r.length \in Nat
      BY <1>11, <1>14, <2>2, <2>3, <2>4
    <3>2. Follows(S, 1)
      BY <1>10, <2>2, <3>1 DEF Announced
    <3>3. 1 + 2 + r.length <= Len(S) /\ S[1 + 2] = Eol
      BY <3>1, <3>2 DEF Follows
    <3>4. PICK id \in Nat : \A k \in 1 .. r.length : S[1 + 2 + k] = Byte(id, k)
      BY <3>1, <3>2 DEF Follows
    <3>5. Len(T) > r.length /\ 1 \in 1 .. Len(T)
      BY <1>5, <2>2, <3>1, <3>3
    <3>6. T[1] = Eol
      BY <1>5, <2>2, <3>3, <3>5
    <3>7. ASSUME NEW k \in 1 .. r.length PROVE T[1 + k] = Byte(id, k)
      <4>1. 1 + k \in 1 .. Len(T) /\ 2 + (1 + k) = 1 + 2 + k
        BY <1>5, <3>1, <3>5
      <4>2. T[1 + k] = S[2 + (1 + k)]
        BY <1>5, <2>2, <4>1
      <4> QED BY <3>4, <4>1, <4>2
    <3> QED BY <3>4, <3>5, <3>6, <3>7
  <2> QED BY <1>3, <1>5, <1>6, <1>14, <2>4 DEF AwaitsBody, AwaitsRest, T
<1>15. CASE parse' = "ok"
  BY <1>5, <1>6, <1>15 DEF T
<1> QED BY <1>2, <1>7, <1>13, <1>14, <1>15
(* The line that is appended to the body is the next part of this body. *)
LEMMA ExtendedBytes ==
  ASSUME ParserTypes, ClientTypes, NEW rest \in Seq(Token),
         AwaitsRest(Joined(read_buff.data, net, rest), request),
         request.state = "BODY", request.length # NoLength
  PROVE  LET S == Joined(read_buff.data, net, rest)
             n == Len(request.body)
         IN \E id \in Nat :
              /\ \A k \in 1 .. request.length - n : S[k] = Byte(id, n + k)
              /\ \A k \in 1 .. Len(Extended.body) :
                   k <= request.length => Extended.body[k] = Byte(id, k)
<1> DEFINE a == read_buff.data
           S == Joined(a, net, rest)
           b == request.body
           n == Len(b)
           l == request.length
           e == LineEnd(read_buff)
           line == Line(read_buff)
           x == Extended.body
<1>1. PICK id \in Nat : /\ \A k \in 1 .. n : b[k] = Byte(id, k)
                        /\ \A k \in 1 .. l - n : S[k] = Byte(id, n + k)
  BY DEF AwaitsRest
<1>2. a \in Seq(Token) /\ net \in Seq(Token) /\ b \in Seq(Token) /\ l \in Nat
  BY DEF ParserTypes, ClientTypes, IsBuffer, Fields
<1>3. line \in Seq(Token) /\ Len(line) = e - 1 /\ \A k \in 1 .. e - 1 : line[k] = a[k]
  BY LineIs DEF ParserTypes
<1>4. e \in 1 .. Len(a) + 1
  BY LineEndIs DEF ParserTypes
<1>5. x = b \o line
  BY ExtendedIs
<1> HIDE DEF a, b, l, e, line, x
<1>6. \A k \in 1 .. Len(a) : S[k] = a[k]
  BY <1>2, JoinedIs
<1>7. Len(a) \in Nat /\ n \in Nat
  BY <1>2, LenProperties
<1>8. /\ Len(x) = Len(b) + Len(line)
      /\ \A k \in 1 .. Len(b) + Len(line) :
           x[k] = IF k <= Len(b) THEN b[k] ELSE line[k - Len(b)]
  <2>1. b \in Seq(Token) /\ line \in Seq(Token)
    BY <1>2, <1>3
  <2>2. /\ Len(b \o line) = Len(b) + Len(line)
        /\ \A k \in 1 .. Len(b) + Len(line) :
             (b \o line)[k] = IF k <= Len(b) THEN b[k] ELSE line[k - Len(b)]
    BY <2>1, ConcatProperties
  <2> QED BY <1>5, <2>2
<1> HIDE DEF S
<1>9. ASSUME NEW k \in 1 .. Len(x), k <= l PROVE x[k] = Byte(id, k)
  <2>0. e \in Nat /\ Len(line) \in Nat /\ k \in 1 .. Len(b) + Len(line)
    BY <1>3, <1>4, <1>7, <1>8, LenProperties
  <2>1. CASE k <= n
    <3>1. x[k] = b[k] /\ k \in 1 .. n
      BY <1>7, <1>8, <2>0, <2>1
    <3> QED BY <1>1, <3>1
  <2>2. CASE ~(k <= n)
    <3> DEFINE i == k - n
    <3>1. i \in 1 .. e - 1 /\ i \in 1 .. Len(a) /\ i \in 1 .. l - n /\ n + i = k
      BY <1>2, <1>3, <1>4, <1>7, <1>9, <2>0, <2>2
    <3>2. x[k] = line[i]
      BY <1>8, <2>0, <2>2
    <3> HIDE DEF i
    <3>3. line[i] = a[i] /\ a[i] = S[i] /\ S[i] = Byte(id, n + i)
      BY <1>1, <1>3, <1>6, <3>1
    <3> QED BY <3>1, <3>2, <3>3
  <2> QED BY <2>1, <2>2
<1> QED BY <1>1, <1>9 DEF S, a, b, l, x

LEMMA BodyStream ==
  ASSUME ParserTypes, ClientTypes, Shape, pc # "crashed", NEW rest \in Seq(Token),
         Announced(Joined(read_buff.data, net, rest)),
         AwaitsRest(Joined(read_buff.data, net, rest), request),
         Gathered(request), ParseBody
  PROVE  LET T == Joined(read_buff'.data, net, rest)
         IN /\ Announced(T) /\ Gathered(request)'
            /\ parse' \in {"loop", "more"} => AwaitsBody(T, request') /\ AwaitsRest(T, request')
<1> DEFINE a == read_buff.data
           S == Joined(a, net, rest)
           T == Joined(read_buff'.data, net, rest)
           e == LineEnd(read_buff)
           n == Len(request.body)
<1>1. request.state = "BODY" /\ Extended.state = "BODY"
      /\ Extended.length = request.length /\ Extended \in Fields
      /\ Len(Extended.body) = n + e - 1
  BY ExtendedIs DEF ParseBody
<1>2. n \in Nat /\ Len(a) \in Nat
  BY LenProperties DEF ParserTypes, Fields, IsBuffer
<1>3. e \in 1 .. Len(a) + 1
  BY LineEndIs DEF ParserTypes
<1>4. CASE request.length = NoLength /\ EndTurn(request)
  <2>1. PICK j \in 0 .. Len(a) : read_buff'.data = SubSeq(a, j + 1, Len(a))
    BY <1>4, EndTurnCuts DEF ParserTypes
  <2>2. Announced(T)
    BY <2>1, CutStream
  <2>3. request' = request
    BY <1>4 DEF EndTurn
  <2> QED BY <1>1, <1>4, <2>2, <2>3 DEF AwaitsBody, AwaitsRest
<1>5. ASSUME request.length # NoLength
      PROVE  \E id \in Nat :
               /\ \A k \in 1 .. request.length - n : S[k] = Byte(id, n + k)
               /\ \A k \in 1 .. Len(Extended.body) :
                    k <= request.length => Extended.body[k] = Byte(id, k)
  BY <1>1, <1>5, ExtendedBytes
<1>6. CASE /\ request.length # NoLength /\ Len(Extended.body) < request.length
           /\ request' = Extended /\ parse' = "more"
           /\ read_buff' = Retrieve(read_buff, LineEnd(read_buff) - 1)
  <2> DEFINE j == e - 1
             l == request.length
             x == Extended.body
  <2>1. j \in 0 .. Len(a) /\ j + 1 = e
    BY <1>2, <1>3
  <2>2. read_buff'.data = SubSeq(a, j + 1, Len(a))
    <3>1. IsBuffer(read_buff, Token) /\ j \in 0 .. Len(read_buff.data)
      BY <2>1 DEF ParserTypes
    <3> QED BY <1>6, <3>1, RetrieveIs
  <2>3. Len(x) = n + j /\ l \in Nat /\ n + j < l
    BY <1>1, <1>2, <1>3, <1>6 DEF Fields, ParserTypes
  <2> HIDE DEF j
  <2>4. /\ Len(S) \in Nat /\ Len(T) \in Nat /\ Len(T) = Len(S) - j
        /\ \A k \in 1 .. Len(T) : T[k] = S[j + k]
        /\ Announced(T)
    BY <2>1, <2>2, CutStream
  <2>5. PICK id \in Nat :
          /\ \A k \in 1 .. l - n : S[k] = Byte(id, n + k)
          /\ \A k \in 1 .. Len(x) : k <= l => x[k] = Byte(id, k)
    BY <1>5, <1>6
  <2>6. Len(S) >= l - n
    BY <1>1, <1>6 DEF AwaitsRest
  <2> HIDE DEF S, T, n, l, x
  <2>7. Len(x) <= l /\ Len(T) >= l - Len(x) /\ \A k \in 1 .. Len(x) : x[k] = Byte(id, k)
    BY <1>2, <2>1, <2>3, <2>4, <2>5, <2>6
  <2>8. ASSUME NEW k \in 1 .. l - Len(x) PROVE T[k] = Byte(id, Len(x) + k)
    <3> DEFINE i == j + k
    <3>1. k \in 1 .. Len(T) /\ i \in 1 .. l - n /\ n + i = Len(x) + k
      BY <1>2, <2>1, <2>3, <2>4, <2>6, <2>7
    <3>2. T[k] = S[i]
      BY <2>4, <3>1
    <3> HIDE DEF i
    <3>3. S[i] = Byte(id, n + i)
      BY <2>5, <3>1
    <3> QED BY <3>1, <3>2, <3>3
  <2>9. Gathered(Extended)
    BY <1>1, <2>5 DEF Gathered, l, x
  <2>10. AwaitsRest(T, Extended)
    BY <1>1, <2>7, <2>8 DEF AwaitsRest, l, x
  <2>11. AwaitsBody(T, Extended)
    BY <1>1 DEF AwaitsBody
  <2> QED BY <1>6, <2>4, <2>9, <2>10, <2>11 DEF T
<1>7. CASE /\ request.length # NoLength /\ request' = Extended /\ parse' = "throw"
           /\ read_buff' = read_buff
  <2>1. Gathered(Extended)
    BY <1>1, <1>5, <1>7 DEF Gathered
  <2> QED BY <1>7, <2>1
<1>8. CASE /\ request.length # NoLength
           /\ \E r \in Fields :
                /\ EndTurn(r)
                /\ r.state = "FINISH" /\ r.length = request.length
                /\ r.body = Extended.body
  <2>1. PICK r \in Fields : /\ EndTurn(r)
                            /\ r.state = "FINISH" /\ r.length = request.length
                            /\ r.body = Extended.body
    BY <1>8
  <2>2. request' = r
    BY <2>1 DEF EndTurn
  <2>3. Gathered(r)
    BY <1>5, <1>8, <2>1 DEF Gathered
  <2>4. parse' = "ok"
    BY <2>1, EndTurnIs DEF ParserTypes
  <2>5. PICK j \in 0 .. Len(a) : read_buff'.data = SubSeq(a, j + 1, Len(a))
    BY <2>1, EndTurnCuts DEF ParserTypes
  <2>6. Announced(T)
    BY <2>5, CutStream
  <2> QED BY <2>2, <2>3, <2>4, <2>6
<1> QED BY <1>4, <1>6, <1>7, <1>8, BodyIs

(* A turn of the parser leaves behind it what the next one relies on. *)
LEMMA TurnStream ==
  ASSUME ParserTypes, ClientTypes, Shape, pc # "crashed", NEW rest \in Seq(Token),
         Announced(Joined(read_buff.data, net, rest)),
         AwaitsBody(Joined(read_buff.data, net, rest), request),
         AwaitsRest(Joined(read_buff.data, net, rest), request),
         Gathered(request), ParseTurn
  PROVE  LET T == Joined(read_buff'.data, net, rest)
         IN /\ Announced(T) /\ Gathered(request)'
            /\ parse' \in {"loop", "more"} => AwaitsBody(T, request') /\ AwaitsRest(T, request')
<1>1. CASE ParseRequestLine
  BY <1>1, RequestLineStream
<1>2. CASE ParseHeader
  BY <1>2, HeaderStream
<1>3. CASE ParseBody
  BY <1>3, BodyStream
<1> QED BY <1>1, <1>2, <1>3 DEF ParseTurn
(* What a client has sent is taken from the front of the stream and its    *)
(* next request put behind it.                                             *)
LEMMA StreamStep ==
  ASSUME IInv, NoClient, Stream, BodyIsOne, [Next]_vars
  PROVE  NoClient' /\ Stream' /\ BodyIsOne'
<1> USE DEF IInv, Types
<1>a. /\ read_buff.data \in Seq(Token) /\ net \in Seq(Token) /\ unsent \in Seq(Token)
      /\ request \in Fields
  BY DEF ParserTypes, ClientTypes, IsBuffer
<1>b. ASSUME read_buff'.data = read_buff.data, net' = net, request' = request,
             ~gone' => ~gone /\ unsent' = unsent, dropped' = dropped,
             pc \notin {"closed", "crashed"}, Parsing' => Parsing
      PROVE  Stream' /\ BodyIsOne'
  <2>1. BodyIsOne'
    BY <1>b DEF BodyIsOne, Gathered
  <2>2. ASSUME ~dropped
        PROVE  \E rest \in Seq(Token) :
                 /\ ~gone' => rest = unsent'
                 /\ Announced(Joined(read_buff'.data, net', rest))
                 /\ Parsing' =>
                      /\ AwaitsBody(Joined(read_buff'.data, net', rest), request')
                      /\ AwaitsRest(Joined(read_buff'.data, net', rest), request')
    BY <1>b, <2>2 DEF Stream
  <2> QED BY <1>b, <2>1, <2>2 DEF Stream
<1>c. ASSUME pc' \in {"closed", "crashed"}, dropped' = dropped, request' = request,
             pc' = "closed" => unsent' = <<>> /\ net' = <<>>
      PROVE  NoClient' /\ Stream' /\ BodyIsOne'
  BY <1>c DEF NoClient, Stream, BodyIsOne, Gathered
<1>1. CASE UNCHANGED vars
  <2>1. /\ read_buff' = read_buff /\ net' = net /\ unsent' = unsent
        /\ request' = request /\ gone' = gone /\ dropped' = dropped
        /\ pc' = pc /\ parse' = parse
    BY <1>1 DEF vars, client, parser
  <2>2. NoClient' /\ BodyIsOne' /\ (Parsing' <=> Parsing)
    BY <2>1 DEF NoClient, BodyIsOne, Gathered, Parsing
  <2>3. CASE pc \in {"closed", "crashed"}
    BY <2>1, <2>2, <2>3 DEF Stream
  <2>4. CASE pc \notin {"closed", "crashed"}
    BY <1>b, <2>1, <2>2, <2>4
  <2> QED BY <2>2, <2>3, <2>4
<1>2. ASSUME NEW q \in Requests, Ask(q) PROVE NoClient' /\ Stream' /\ BodyIsOne'
  <2>1. /\ pc' = pc /\ pc \in {"in", "read"} /\ ~gone /\ unsent = <<>>
        /\ unsent' = Tokens(q, asked + 1) /\ dropped' = dropped /\ net' = net
        /\ gone' = gone /\ read_buff' = read_buff /\ request' = request
        /\ parse' = parse
    BY <1>2 DEF Ask, parser
  <2>2. NoClient' /\ BodyIsOne'
    BY <2>1 DEF NoClient, BodyIsOne, Gathered
  <2> DEFINE U == Tokens(q, asked + 1)
             S == Joined(read_buff.data, net, <<>>)
             T == Joined(read_buff.data, net, U)
  <2>3. U \in Seq(Token) /\ Announced(U)
    <3>1. asked + 1 \in Nat
      BY ConnAssumption DEF ControlTypes
    <3> QED BY <3>1, TokensAre
  <2>4. T = S \o U /\ S \in Seq(Token)
    <3>1. read_buff.data \o net \in Seq(Token)
      BY <1>a, ConcatProperties
    <3> QED BY <3>1, ConcatEmptySeq DEF Joined
  <2>5. ASSUME ~dropped
        PROVE  Announced(S) /\ AwaitsBody(S, request) /\ AwaitsRest(S, request)
    BY <2>1, <2>5 DEF Stream, Parsing
  <2> HIDE DEF U, S
  <2>6. ASSUME ~dropped
        PROVE  Announced(T) /\ AwaitsBody(T, request) /\ AwaitsRest(T, request)
    BY <1>a, <2>3, <2>4, <2>5, <2>6, AnnouncedBoth, AwaitsBoth
  <2>7. Stream'
    BY <2>1, <2>3, <2>6 DEF Stream, U
  <2> QED BY <2>2, <2>7
<1>3. ASSUME NEW n \in 1 .. Len(unsent), Arrive(n)
      PROVE  NoClient' /\ Stream' /\ BodyIsOne'
  <2> DEFINE u == SubSeq(unsent, 1, n)
             v == SubSeq(unsent, n + 1, Len(unsent))
  <2>1. /\ pc' = pc /\ pc \in {"in", "read"} /\ ~gone /\ gone' = gone
        /\ net' = net \o u /\ unsent' = v
        /\ dropped' = dropped /\ read_buff' = read_buff /\ request' = request
        /\ parse' = parse
    BY <1>3 DEF Arrive, parser
  <2>2. NoClient' /\ BodyIsOne' /\ Parsing
    BY <2>1 DEF NoClient, BodyIsOne, Gathered, Parsing
  <2>3. u \in Seq(Token) /\ v \in Seq(Token) /\ u \o v = unsent
    <3>1. n \in 0 .. Len(unsent) /\ Len(unsent) \in Nat
      BY <1>a, LenProperties
    <3>2. 1 \in 1 .. Len(unsent) + 1 /\ n \in 1 - 1 .. Len(unsent)
          /\ Len(unsent) \in n .. Len(unsent)
      BY <3>1
    <3>3. u \o v = SubSeq(unsent, 1, Len(unsent))
      BY <1>a, <3>2, ConcatAdjacentSubSeq
    <3>4. u \in Seq(Token) /\ v \in Seq(Token)
      BY <1>a, <3>1, CutIs
    <3> QED BY <1>a, <3>3, <3>4, SubSeqFull
  <2> HIDE DEF u, v
  <2>4. Joined(read_buff.data, net \o u, v) = Joined(read_buff.data, net, unsent)
    <3> DEFINE d == read_buff.data
    <3>1. d \in Seq(Token)
      BY <1>a
    <3> HIDE DEF d
    <3>2. net \in Seq(Token) /\ u \in Seq(Token) /\ v \in Seq(Token)
      BY <1>a, <2>3
    <3>3. (d \o net) \o u = d \o (net \o u)
      <4>1. d \in Seq(Token) /\ net \in Seq(Token) /\ u \in Seq(Token)
        BY <3>1, <3>2
      <4> QED BY SMTT(30), <4>1, ConcatAssociative
    <3> DEFINE e == d \o net
    <3>4. e \in Seq(Token)
      BY <3>1, <3>2, ConcatProperties
    <3> HIDE DEF e
    <3>5. (e \o u) \o v = e \o (u \o v)
      BY <3>2, <3>4, ConcatAssociative
    <3> QED BY <2>3, <3>3, <3>5 DEF Joined, d, e
  <2>5. ASSUME ~dropped
        PROVE  LET S == Joined(read_buff.data, net, unsent)
               IN Announced(S) /\ AwaitsBody(S, request) /\ AwaitsRest(S, request)
    BY <2>1, <2>2, <2>5 DEF Stream
  <2>6. Stream'
    BY <2>1, <2>3, <2>4, <2>5 DEF Stream
  <2> QED BY <2>2, <2>6
<1>4. CASE Leave
  <2>1. /\ pc' = pc /\ pc \in {"in", "read", "out", "write"} /\ ~gone /\ gone'
        /\ net' \in {net, <<>>} /\ read_buff' = read_buff /\ request' = request
        /\ parse' = parse /\ dropped' = dropped
    BY <1>4 DEF Leave, parser
  <2>2. NoClient' /\ BodyIsOne' /\ (Parsing' <=> Parsing)
    BY <2>1 DEF NoClient, BodyIsOne, Gathered, Parsing
  <2>3. CASE net' = net
    BY <1>b, <2>1, <2>2, <2>3
  <2>4. CASE net' = <<>>
    <3> DEFINE w == net \o unsent
    <3>1. w \in Seq(Token) /\ Joined(read_buff.data, <<>>, w)
                              = Joined(read_buff.data, net, unsent)
      <4>1. w \in Seq(Token)
        BY <1>a, ConcatProperties
      <4>2. read_buff.data \o <<>> = read_buff.data
        BY <1>a, ConcatEmptySeq
      <4> DEFINE d == read_buff.data
      <4>0. d \in Seq(Token) /\ net \in Seq(Token) /\ unsent \in Seq(Token)
        BY <1>a
      <4> HIDE DEF d
      <4>3. (d \o net) \o unsent = d \o (net \o unsent)
        BY <4>0, ConcatAssociative
      <4> QED BY <4>1, <4>2, <4>3 DEF Joined, d
    <3>2. ASSUME ~dropped
          PROVE  LET S == Joined(read_buff.data, net, unsent)
                 IN /\ Announced(S)
                    /\ Parsing => AwaitsBody(S, request) /\ AwaitsRest(S, request)
      BY <2>1, <3>2 DEF Stream
    <3>3. Stream'
      BY <2>1, <2>2, <2>4, <3>1, <3>2 DEF Stream
    <3> QED BY <2>2, <3>3
  <2> QED BY <2>1, <2>3, <2>4, <2>2
<1>5. CASE Open
  <2>1. /\ pc' = "in" /\ pc = "closed" /\ request' = InitRequest
        /\ read_buff' = RetrieveAll(read_buff)
        /\ net' = net /\ unsent' = unsent /\ net = <<>> /\ unsent = <<>>
    BY <1>5 DEF Open, client, NoClient
  <2>2. read_buff'.data = <<>> /\ <<>> \in Seq(Token)
    BY <2>1, RetrieveAllIs, EmptySeq DEF ParserTypes
  <2>3. Joined(<<>>, <<>>, <<>>) = <<>>
    BY <2>2, ConcatEmptySeq DEF Joined
  <2>4. Announced(<<>>)
    BY EmptySeq DEF Announced
  <2>5. Gathered(InitRequest) /\ AwaitsBody(<<>>, InitRequest)
        /\ AwaitsRest(<<>>, InitRequest)
    BY EmptyGathered DEF InitRequest, AwaitsBody, AwaitsRest
  <2> QED BY <2>1, <2>2, <2>3, <2>4, <2>5 DEF Stream, NoClient, BodyIsOne
<1>6. CASE CloseIdle
  BY <1>c, <1>6 DEF CloseIdle, Close, parser
<1>7. CASE Event
  <2>1. /\ pc \in {"in", "out"} /\ (pc = "in" => pc' = "read")
        /\ (pc = "out" => pc' = "write") /\ dropped' = dropped
        /\ read_buff' = read_buff /\ request' = request /\ parse' = parse
        /\ net' = net /\ unsent' = unsent /\ gone' = gone
    BY <1>7 DEF Event, client, parser
  <2> QED BY <1>b, <2>1 DEF NoClient, Parsing
<1>8. CASE ReadCrash \/ RespondCrash \/ WriteCrash
  BY <1>c, <1>8 DEF ReadCrash, RespondCrash, WriteCrash, parser
<1>9. CASE NeedMore
  BY <1>b, <1>9 DEF NeedMore, client, NoClient, Parsing
<1>10. CASE Respond
  BY <1>b, <1>10 DEF Respond, client, NoClient, Parsing
<1>11. CASE Read
  <2> DEFINE d == read_buff.data
             r == Received
             v == SubSeq(net, Len(r) + 1, Len(net))
  <2>1. /\ pc = "read" /\ net' = v /\ unsent' = unsent /\ gone' = gone
        /\ request' = request /\ dropped' = (dropped \/ ~Keeps(read_buff, r))
        /\ pc' \in {"read", "process"} /\ (pc' = "process" => parse' = "begin")
        /\ \/ ~Wraps(read_buff, r) /\ read_buff' = ReadFd(read_buff, r)
           \/ CanShrink(read_buff, r)
    BY <1>11 DEF Read
  <2>2. NoClient' /\ BodyIsOne' /\ Parsing /\ Parsing'
    BY <2>1 DEF NoClient, BodyIsOne, Gathered, Parsing
  <2>3. r \in Seq(Token) /\ v \in Seq(Token) /\ r \o v = net
    <3>1. PICK n \in 0 .. Len(net) : /\ r = SubSeq(net, 1, n) /\ r \in Seq(Token)
                                     /\ Len(r) = n
      BY ReceivedIs
    <3>2. v \in Seq(Token)
      BY <1>a, <3>1, CutIs
    <3>3. Len(net) \in Nat
      BY <1>a, LenProperties
    <3>4. /\ 1 \in 1 .. Len(net) + 1 /\ n \in 1 - 1 .. Len(net)
          /\ Len(net) \in n .. Len(net)
      BY <3>3
    <3>5. SubSeq(net, 1, n) \o SubSeq(net, n + 1, Len(net)) = SubSeq(net, 1, Len(net))
      BY <1>a, <3>4, ConcatAdjacentSubSeq
    <3> QED BY <1>a, <3>1, <3>2, <3>5, SubSeqFull
  <2>4. ASSUME ~dropped' PROVE read_buff'.data = d \o r
    <3>1. Keeps(read_buff, r)
      BY <2>1, <2>4
    <3>2. ~CanShrink(read_buff, r)
      <4>1. Len(r) \in Nat /\ Len(d) \in Nat /\ read_buff.size \in Nat
            /\ read_buff.read \in Nat
        BY <1>a, <2>3, LenProperties DEF ParserTypes, IsBuffer
      <4> QED BY <3>1, <4>1 DEF CanShrink, Wraps, Spills, Keeps, Writable, WritePos
    <3> QED BY <2>1, <2>3, <3>1, <3>2, ReadFdIs DEF ParserTypes
  <2>5. ASSUME NEW rest \in Seq(Token)
        PROVE  Joined(d \o r, v, rest) = Joined(d, net, rest)
    <3>1. d \in Seq(Token)
      BY <1>a
    <3> HIDE DEF d, r, v
    <3>2. (d \o r) \o v = d \o (r \o v)
      <4>1. d \in Seq(Token) /\ r \in Seq(Token) /\ v \in Seq(Token)
        BY <2>3, <3>1
      <4> QED BY SMTT(30), <4>1, ConcatAssociative
    <3> QED BY <2>3, <3>2 DEF Joined
  <2>6. Stream'
    <3> SUFFICES ASSUME ~dropped'
                 PROVE  \E rest \in Seq(Token) :
                          /\ ~gone' => rest = unsent'
                          /\ Announced(Joined(read_buff'.data, net', rest))
                          /\ AwaitsBody(Joined(read_buff'.data, net', rest), request')
                          /\ AwaitsRest(Joined(read_buff'.data, net', rest), request')
      BY DEF Stream
    <3>1. ~dropped /\ read_buff'.data = d \o r
      BY <2>1, <2>4
    <3>2. PICK rest \in Seq(Token) :
            /\ ~gone => rest = unsent
            /\ Announced(Joined(d, net, rest))
            /\ AwaitsBody(Joined(d, net, rest), request)
            /\ AwaitsRest(Joined(d, net, rest), request)
      BY <2>1, <2>2, <3>1 DEF Stream
    <3>3. Joined(read_buff'.data, net', rest) = Joined(d, net, rest)
      BY <2>1, <2>5, <3>1
    <3> HIDE DEF d, r, v
    <3> QED BY <2>1, <3>2, <3>3
  <2> QED BY <2>2, <2>6
<1>12. CASE ReadEnds
  <2>1. CASE Close
    BY <1>c, <1>12, <2>1 DEF ReadEnds, Close
  <2>2. CASE pc' = "process" /\ parse' = "begin" /\ UNCHANGED <<unsent, net, gone>>
    BY <1>b, <1>12, <2>2 DEF ReadEnds, NoClient, Parsing
  <2> QED BY <1>12, <2>1, <2>2 DEF ReadEnds
<1>13. CASE Parse
  <2>1. /\ pc = "process" /\ net' = net /\ unsent' = unsent /\ gone' = gone
        /\ dropped' = dropped
        /\ pc' = IF parse' = "throw" THEN "crashed" ELSE "process"
    BY <1>13 DEF Parse, client
  <2>2. CASE parse = "begin" /\ UNCHANGED <<read_buff, request, cls_probs>>
    BY <1>b, <2>1, <2>2 DEF NoClient, Parsing
  <2>3. CASE ParseTurn
    <3>1. NoClient'
      BY <2>1 DEF NoClient
    <3>2. CASE dropped
      BY <2>1, <3>1, <3>2 DEF Stream, BodyIsOne
    <3>3. CASE ~dropped
      <4>1. Parsing
        BY <2>1, <2>3, ParserStep DEF Parsing
      <4>2. PICK rest \in Seq(Token) :
              /\ ~gone => rest = unsent
              /\ Announced(Joined(read_buff.data, net, rest))
              /\ AwaitsBody(Joined(read_buff.data, net, rest), request)
              /\ AwaitsRest(Joined(read_buff.data, net, rest), request)
        BY <2>1, <3>3, <4>1 DEF Stream
      <4>3. Gathered(request) /\ pc # "crashed"
        BY <2>1, <3>3 DEF BodyIsOne
      <4> DEFINE T == Joined(read_buff'.data, net, rest)
      <4>4. /\ Announced(T) /\ Gathered(request)'
            /\ parse' \in {"loop", "more"} =>
                 AwaitsBody(T, request') /\ AwaitsRest(T, request')
        BY <2>3, <4>2, <4>3, TurnStream
      <4>5. BodyIsOne'
        BY <4>4 DEF BodyIsOne
      <4>6. Parsing' => parse' \in {"loop", "more"}
        <5>1. parse' \in {"loop", "ok", "err", "more", "throw"}
          BY <2>3, ParserStep
        <5> QED BY <2>1, <5>1 DEF Parsing
      <4>7. T = Joined(read_buff'.data, net', rest)
        BY <2>1
      <4> HIDE DEF T
      <4>8. Stream'
        BY <2>1, <4>2, <4>4, <4>6, <4>7 DEF Stream
      <4> QED BY <3>1, <4>5, <4>8
    <3> QED BY <3>2, <3>3
  <2> QED BY <1>13, <2>2, <2>3 DEF Parse
<1>14. ASSUME NEW n \in 1 .. Offered, Write(n)
       PROVE  NoClient' /\ Stream' /\ BodyIsOne'
  <2>1. /\ pc = "write" /\ pc' \in {"write", "written"} /\ net' = net
        /\ unsent' = unsent /\ gone' = gone /\ dropped' = dropped
        /\ read_buff' = read_buff /\ request' = request
    BY <1>14 DEF Write, client, parser
  <2> QED BY <1>b, <2>1 DEF NoClient, Parsing
<1>15. ASSUME NEW ret \in {"sent", "none", "EAGAIN", "error"}, OnWriteEnds(ret)
       PROVE  NoClient' /\ Stream' /\ BodyIsOne'
  <2>1. pc \in {"write", "written"}
    BY <1>15 DEF OnWriteEnds, WriteReturns
  <2>2. CASE Reset /\ pc' = "in" /\ UNCHANGED <<unsent, net, gone>>
    <3>1. read_buff'.data = <<>> /\ request' = InitRequest
      BY <2>2, ResetIs
    <3>2. NoClient' /\ Gathered(request') /\ BodyIsOne'
      BY <2>2, <3>1, EmptyGathered DEF NoClient, BodyIsOne, InitRequest
    <3>3. ASSUME ~dropped'
          PROVE  \E rest \in Seq(Token) :
                   /\ ~gone' => rest = unsent'
                   /\ Announced(Joined(read_buff'.data, net', rest))
                   /\ AwaitsBody(Joined(read_buff'.data, net', rest), request')
                   /\ AwaitsRest(Joined(read_buff'.data, net', rest), request')
      <4>1. ~dropped /\ read_buff.data = <<>>
        BY <2>2, <3>3 DEF Reset
      <4>2. PICK rest \in Seq(Token) : /\ ~gone => rest = unsent
                                       /\ Announced(Joined(<<>>, net, rest))
        BY <2>1, <4>1 DEF Stream
      <4> QED BY <2>2, <3>1, <4>2 DEF AwaitsBody, AwaitsRest, InitRequest
    <3>4. Stream'
      BY <3>3 DEF Stream
    <3> QED BY <3>2, <3>4
  <2>3. CASE pc' = "out" /\ UNCHANGED <<read_buff, request, dropped, unsent, net, gone>>
    BY <1>b, <2>1, <2>3 DEF NoClient, Parsing
  <2>4. CASE Close /\ UNCHANGED <<read_buff, request, dropped>>
    BY <1>c, <2>4 DEF Close
  <2> QED BY <1>15, <2>2, <2>3, <2>4 DEF OnWriteEnds
<1> QED BY <1>1, <1>2, <1>3, <1>4, <1>5, <1>6, <1>7, <1>8, <1>9, <1>10, <1>11,
           <1>12, <1>13, <1>14, <1>15 DEF Next, Task
LEMMA InitBInv == Init => BInv
<1> SUFFICES ASSUME Init PROVE BInv
  OBVIOUS
<1>1. NoClient /\ Stream
  BY DEF Init, NoClient, Stream
<1>2. BodyIsOne
  BY EmptyGathered DEF Init, BodyIsOne, InitRequest
<1> QED BY <1>1, <1>2, InitIInv DEF BInv

LEMMA BInvStep == BInv /\ [Next]_vars => BInv'
BY IInvStep, StreamStep DEF BInv

(* However a body is cut by the network, by read_fd and by CRLFs in it,    *)
(* its parts are put together in order and are from one request, as long   *)
(* as no bytes were dropped.                                               *)
THEOREM BodiesInOrder == Spec => []BodyInOrder
<1>1. BInv => BodyInOrder
  <2> SUFFICES ASSUME BInv, ~dropped,
                      NEW k \in 1 .. Min({Len(request.body), request.length})
               PROVE  /\ request.body[k].kind = "byte"
                      /\ request.body[k].id = request.body[1].id
                      /\ request.body[k].at = k
    BY DEF BodyInOrder
  <2>1. Len(request.body) \in Nat /\ request.length \in Int
    BY LenProperties DEF BInv, IInv, Types, ParserTypes, Fields, NoLength
  <2>2. /\ k \in 1 .. Len(request.body) /\ k <= request.length
        /\ 1 \in 1 .. Len(request.body) /\ 1 <= request.length
    BY <2>1, MinOfTwo
  <2>3. PICK id \in Nat : \A i \in 1 .. Len(request.body) :
                            i <= request.length => request.body[i] = Byte(id, i)
    BY DEF BInv, BodyIsOne, Gathered
  <2>4. request.body[k] = Byte(id, k) /\ request.body[1] = Byte(id, 1)
    BY <2>2, <2>3
  <2> QED BY <2>4 DEF Byte
<1> QED BY <1>1, InitBInv, BInvStep, PTL DEF Spec
=============================================================================
