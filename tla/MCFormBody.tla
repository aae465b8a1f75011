----------------------------- MODULE MCFormBody -----------------------------
(* FormBody with short fields of all kinds of characters and images of up  *)
(* to four bytes.                                                          *)
EXTENDS FormBody

Texts == UNION {[1 .. n -> {97, 32, 43, 61, 38, 37}] : n \in 0 .. 2}
User == <<117>>
Password == <<112>>
LoginForms == {<<<<User, s>>, <<Password, t>>>> : s \in Texts, t \in Texts}
SmallImages == UNION {[1 .. n -> {0, 107, 251, 255}] : n \in 1 .. 4}
=============================================================================
