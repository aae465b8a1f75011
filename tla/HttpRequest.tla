----------------------------- MODULE HttpRequest -----------------------------
(***************************************************************************)
(* http_request of code/http/http_request.cpp: the parser, one turn of the *)
(* loop of parse for each action, over the buffer the connection reads     *)
(* into.  A line is a sequence of tokens, CRLF is one token, a body is a   *)
(* sequence of bytes.  A token is never cut, so that a line can end early  *)
(* only between the method and the target or before its CRLF.              *)
(***************************************************************************)
EXTENDS Buffer, SequencesExt

VARIABLES
  read_buff,    \* read_buff_ of the connection
  request,      \* the fields of request_ but for
  cls_probs,    \* cls_probs_: the image that was classified last
  parse         \* "idle", in its "loop", or what parse returned:
                \* "ok" is 0, "more" 1, "err" -1, "throw" an exception

Eol == [kind |-> "eol"]
Method(m) == [kind |-> "method", method |-> m]
Target(p, v) == [kind |-> "target", path |-> p, version |-> v]
KeepAliveHeader == [kind |-> "connection"]
FormHeader == [kind |-> "type"]
LengthHeader(n) == [kind |-> "length", length |-> n]
Byte(id, k) == [kind |-> "byte", id |-> id, at |-> k]

HeaderKinds == {"connection", "type", "length"}
NoLength == -1

(* A request as a client builds it: see get_request_ of the client. *)
Tokens(q, id) ==
  LET Line(t) == <<t, Eol>>
  IN <<Method(q.method), Target(q.path, q.version), Eol>>
     \o (IF q.keep THEN Line(KeepAliveHeader) ELSE <<>>)
     \o (IF q.form THEN Line(FormHeader) ELSE <<>>)
     \o (IF q.length # NoLength THEN Line(LengthHeader(q.length)) ELSE <<>>)
     \o <<Eol>> \o [k \in 1 .. q.body |-> Byte(id, k)]

(* init: the classification stays. *)
InitRequest ==
  [state |-> "REQUEST_LINE", method |-> "", path |-> "/404.html",
   version |-> "", keep |-> FALSE, form |-> FALSE, length |-> NoLength,
   body |-> <<>>]
NotClassified == <<>>

IsKeepAlive(r) == r.keep /\ r.version = "1.1"
-----------------------------------------------------------------------------
(* line_end is the position of the next CRLF, or the end of the buffer. *)
LineEnd(b) ==
  IF Contains(b.data, Eol) THEN SelectInSeq(b.data, LAMBDA t : t = Eol)
                           ELSE Len(b.data) + 1
Line(b) == SubSeq(b.data, 1, LineEnd(b) - 1)
LineIsWhole(b) == LineEnd(b) <= Len(b.data)

(* readable_bytes() <= 2 *)
AtMostCRLF(b) ==
  \/ b.data \in {<<>>, <<Eol>>}
  \/ Len(b.data) <= 2 /\ \A k \in 1 .. Len(b.data) : b.data[k].kind = "byte"

(* The condition of the loop. *)
Again(b, r) == IF b.data # <<>> /\ r.state # "FINISH" THEN "loop" ELSE "ok"

(* Faulty variant: a request is looked at once. *)
ParseBeginOnce ==
  IF read_buff.data = <<>> \/ request.state = "BODY" THEN "more" ELSE "loop"
ParseBegin ==
  IF read_buff.data = <<>> THEN "more" ELSE Again(read_buff, request)

(* The end of a turn: an unfinished line is not retrieved, and parse       *)
(* returns 0 all the same.                                                 *)
EndTurn(r) ==
  /\ request' = r
  /\ IF LineIsWhole(read_buff)
       THEN /\ read_buff' = Retrieve(read_buff, LineEnd(read_buff))
            /\ parse' = Again(read_buff', r)
       ELSE parse' = "ok" /\ UNCHANGED read_buff

(* parse_path_ *)
DefaultHtml == {"/index", "/register", "/login", "/welcome", "/result"}
ParsePath(p) ==
  IF p = "/" THEN "/index.html" ELSE IF p \in DefaultHtml THEN p \o ".html" ELSE p

ParseRequestLine ==
  /\ parse = "loop" /\ request.state = "REQUEST_LINE"
  /\ LET line == Line(read_buff)
     IN IF [k \in 1 .. Len(line) |-> line[k].kind] = <<"method", "target">>
          THEN EndTurn([request EXCEPT !.method = line[1].method,
                          !.path = ParsePath(line[2].path),
                          !.version = line[2].version, !.state = "HEADERS"])
          ELSE parse' = "err" /\ UNCHANGED <<read_buff, request>>
  /\ UNCHANGED cls_probs

SetHeader(r, t) ==
  CASE t.kind = "connection" -> [r EXCEPT !.keep = TRUE]
    [] t.kind = "type"       -> [r EXCEPT !.form = TRUE]
    [] t.kind = "length"     -> [r EXCEPT !.length = t.length]

(* A line without a colon, the empty one or another, starts the body. *)
ParseHeader ==
  /\ parse = "loop" /\ request.state = "HEADERS"
  /\ LET line == Line(read_buff)
         r == IF Len(line) = 1 /\ line[1].kind \in HeaderKinds
                THEN SetHeader(request, line[1])
                ELSE [request EXCEPT !.state = "BODY"]
     IN EndTurn(IF AtMostCRLF(read_buff) THEN [r EXCEPT !.state = "FINISH"] ELSE r)
  /\ UNCHANGED cls_probs
-----------------------------------------------------------------------------
(* parse_post_ with the users' database (module SqlConnPool), which        *)
(* accepts a user or not, and the model, which throws for what is not an   *)
(* image.                                                                  *)
UserPages == {"/register.html", "/login.html"}

(* Faulty variant: what was classified before is good enough. *)
ParsePostCached(r) ==
  LET Finish(path) == EndTurn([r EXCEPT !.state = "FINISH", !.path = path])
  IN IF cls_probs # NotClassified
       THEN Finish(r.path) /\ UNCHANGED cls_probs
       ELSE Finish(r.path) /\ cls_probs' = r.body

ParsePost(r) ==
  LET Finish(path) == EndTurn([r EXCEPT !.state = "FINISH", !.path = path])
      isForm == r.method = "POST" /\ r.form
  IN \/ /\ isForm /\ r.path \in UserPages
        /\ \E page \in {"/welcome.html", "/error.html"} : Finish(page)
        /\ UNCHANGED cls_probs
     \/ /\ isForm /\ r.path = "/result.html"
        /\ cls_probs' = r.body
        /\ Finish(r.path)
     \/ /\ isForm /\ r.path = "/result.html"
        /\ parse' = "throw"
        /\ request' = r
        /\ UNCHANGED <<read_buff, cls_probs>>
     \/ /\ ~isForm \/ r.path \notin UserPages \cup {"/result.html"}
        /\ Finish(r.path)
        /\ UNCHANGED cls_probs

(* parse_body_: a body that is not announced is skipped line by line.      *)
(* Faulty variant: a part of the body is taken but not retrieved.          *)
ParseBodyKeeps ==
  /\ parse = "loop" /\ request.state = "BODY"
  /\ LET r == [request EXCEPT !.body = @ \o Line(read_buff)]
     IN IF Len(r.body) < request.length
          THEN /\ request' = r /\ parse' = "more"
               /\ UNCHANGED <<read_buff, cls_probs>>
          ELSE ParsePost(r)

ParseBody ==
  /\ parse = "loop" /\ request.state = "BODY"
  /\ LET r == [request EXCEPT !.body = @ \o Line(read_buff)]
     IN IF request.length = NoLength
          THEN EndTurn(request) /\ UNCHANGED cls_probs
          ELSE IF Len(r.body) < request.length
            THEN /\ request' = r
                 /\ read_buff' = Retrieve(read_buff, LineEnd(read_buff) - 1)
                 /\ parse' = "more"
                 /\ UNCHANGED cls_probs
            ELSE ParsePost(r)

ParseTurn == ParseRequestLine \/ ParseHeader \/ ParseBody
=============================================================================
