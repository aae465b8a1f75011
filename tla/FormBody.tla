------------------------------ MODULE FormBody ------------------------------
(***************************************************************************)
(* The body of a form in code/http/http_request.cpp: the loop of           *)
(* parse_from_url_encoded_ with a turn for each action, and base64_decode  *)
(* for the image.  A character is its code, in 0 .. 255.                   *)
(***************************************************************************)
EXTENDS Integers, SequencesExt

CONSTANTS
  Forms,        \* forms: sequences of fields <<name, value>>
  Images        \* images, which a client sends as a form of one field

Char == 0 .. 255
Space == 32
Plus == 43

(* No name is twice in a form, and none has a space in it. *)
ASSUME FormAssumption ==
  /\ Forms \subseteq Seq(Seq(Char) \X Seq(Char))
  /\ \A f \in Forms : \A j, k \in DOMAIN f : f[j][1] = f[k][1] => j = k
  /\ \A f \in Forms : \A k \in DOMAIN f : \A p \in DOMAIN f[k][1] : f[k][1][p] # Space
  /\ Images \subseteq Seq(Char)

VARIABLES
  form,         \* history: what the client encoded
  image,        \* history: the image in it, if it is one
  body,         \* body_
  i, key, cur,  \* the local variables; i counts from 1
  post,         \* post_
  decoded       \* the loop is over

source == <<form, image, body>>
vars == <<source, i, key, cur, post, decoded>>

Upper == 65 .. 90
Lower == 97 .. 122
Digits == 48 .. 57
Equals == 61
Percent == 37
Ampersand == 38
-----------------------------------------------------------------------------
(* What a client does, as the forms of resources/login.html make a browser *)
(* do it: a space becomes a plus, most of what is neither a letter nor a   *)
(* digit a percent sign and two digits.  An image is sent in base64.       *)

HexDigit(d) == IF d < 10 THEN 48 + d ELSE 55 + d
AsIs == Upper \cup Lower \cup Digits \cup {42, 45, 46, 95}     \* and * - . _
Encoded(c) ==
  IF c \in AsIs THEN <<c>>
  ELSE IF c = Space THEN <<Plus>>
  ELSE <<Percent, HexDigit(c \div 16), HexDigit(c % 16)>>
UrlEncoded(s) == FlattenSeq([k \in DOMAIN s |-> Encoded(s[k])])
Field(f) == UrlEncoded(f[1]) \o <<Equals>> \o UrlEncoded(f[2])
Body(f) ==
  FlattenSeq([k \in DOMAIN f |-> (IF k = 1 THEN <<>> ELSE <<Ampersand>>) \o Field(f[k])])

Base64Chars == [k \in 0 .. 63 |->
  IF k < 26 THEN 65 + k ELSE IF k < 52 THEN 71 + k
  ELSE IF k < 62 THEN k - 4 ELSE IF k = 62 THEN 43 ELSE 47]
Base64(s) ==
  LET n == Len(s)
      At(k) == IF k <= n THEN s[k] ELSE 0
      Sextet(j) ==      \* the j-th six bits, of bytes k and k + 1
        LET k == (3 * j) \div 4 + 1
            two == At(k) * 256 + At(k + 1)
        IN CASE j % 4 = 0 -> two \div 1024
             [] j % 4 = 1 -> (two \div 16) % 64
             [] j % 4 = 2 -> (two \div 64) % 64
             [] j % 4 = 3 -> (two \div 256) % 64
  IN [j \in 1 .. 4 * ((n + 2) \div 3) |->
        IF 3 * (j - 1) < 4 * n THEN Base64Chars[Sextet(j - 1)] ELSE Equals]

ImgStr == <<105>>       \* stands for "img_str"
-----------------------------------------------------------------------------
Init ==
  /\ \/ image = <<>> /\ form \in Forms
     \/ image \in Images /\ form = <<<<ImgStr, Base64(image)>>>>
  /\ body = Body(form)
  /\ i = 1 /\ key = <<>> /\ cur = <<>> /\ post = <<>> /\ decoded = FALSE

Turn(c) == ~decoded /\ i <= Len(body) /\ body[i] = c

SetKey ==
  /\ Turn(Equals)
  /\ key' = cur /\ cur' = <<>> /\ i' = i + 1
  /\ UNCHANGED <<source, post, decoded>>

(* convert_from_hex_ *)
FromHex(c) ==
  IF c \in Lower THEN 10 + c - 97 ELSE IF c \in Upper THEN 10 + c - 65 ELSE c - 48

(* Faulty variant: the first digit alone is skipped. *)
AfterDigit == i + 2
AfterEscape == i + 3

(* A percent sign has two characters behind it in what clients encode. *)
Unescape ==
  /\ Turn(Percent)
  /\ cur' = Append(cur, (FromHex(body[i + 1]) * 16 + FromHex(body[i + 2])) % 256)
  /\ i' = AfterEscape
  /\ UNCHANGED <<source, key, post, decoded>>

(* post_[key] = cur *)
Stored == [x \in DOMAIN post \cup {key} |-> IF x = key THEN cur ELSE post[x]]

Store ==
  /\ Turn(Ampersand)
  /\ post' = Stored /\ cur' = <<>> /\ i' = i + 1
  /\ UNCHANGED <<source, key, decoded>>

(* The default: a plus is no exception. *)
Copy ==
  /\ \E c \in Char \ {Equals, Percent, Ampersand} : Turn(c)
  /\ cur' = Append(cur, body[i]) /\ i' = i + 1
  /\ UNCHANGED <<source, key, post, decoded>>

(* Behind the loop: the last field, unless there is one of its name. *)
StoreLast ==
  /\ ~decoded /\ i > Len(body)
  /\ decoded' = TRUE
  /\ post' = IF key \notin DOMAIN post /\ cur # <<>> THEN Stored ELSE post
  /\ UNCHANGED <<source, i, key, cur>>

Next == SetKey \/ Unescape \/ Store \/ Copy \/ StoreLast

Spec == Init /\ [][Next]_vars
-----------------------------------------------------------------------------
(* post_[name]: a missing field is empty. *)
Post(name) == IF name \in DOMAIN post THEN post[name] ELSE <<>>

(* base64_decode: the characters before the first one that is not base64,  *)
(* four of them for three bytes, and what is left over.                    *)
Value(c) == CHOOSE k \in 0 .. 63 : Base64Chars[k] = c
Significant(s) ==
  SubSeq(s, 1, SelectInSeq(Append(s, Equals),
                 LAMBDA c : \A k \in 0 .. 63 : Base64Chars[k] # c) - 1)

(* Faulty variant: what is left over is given up. *)
NoLeftover(n) == 0
Leftover(n) == IF n % 4 = 0 THEN 0 ELSE (n % 4) - 1

Base64Decode(s) ==
  LET v == [k \in 1 .. Len(Significant(s)) |-> Value(s[k])]
      n == Len(v)
  IN [j \in 1 .. 3 * (n \div 4) + Leftover(n) |->
        LET k == (4 * (j - 1)) \div 3 + 1
        IN CASE j % 3 = 1 -> v[k] * 4 + v[k + 1] \div 16
             [] j % 3 = 2 -> (v[k] % 16) * 16 + v[k + 1] \div 4
             [] j % 3 = 0 -> (v[k] % 4) * 64 + v[k + 1]]
-----------------------------------------------------------------------------
(* What a client encodes arrives: the fields of a form whose names differ, *)
(* whichever of them are empty, as they are but for their spaces, which    *)
(* stay the plus signs they were sent as; and in torch_model::classify an  *)
(* image of any length and content, as it is.                              *)
Left(c) == IF c = Space THEN Plus ELSE c
AsLeft(t) == [p \in DOMAIN t |-> Left(t[p])]
FormArrives ==
  decoded =>
    /\ \A k \in DOMAIN form : Post(form[k][1]) = AsLeft(form[k][2])
    /\ image # <<>> => Base64Decode(Post(ImgStr)) = image
=============================================================================
