------------------------------ MODULE HttpConn ------------------------------
(***************************************************************************)
(* http_conn of code/http/http_conn.cpp with on_read_ and on_write_ of     *)
(* code/server/server.cpp: one http_conn and the clients that use it one   *)
(* after the other.  An action is one system call, one turn of the parser  *)
(* or one answer.  Who runs the tasks, and when the connection is armed,   *)
(* is in module Server: here the connection has at most one task, and a    *)
(* timeout closes it only while it has none.                               *)
(***************************************************************************)
EXTENDS HttpRequest, HttpResponse

CONSTANTS
  Requests,     \* the requests of clients
  MaxAsked,     \* bound on the requests sent
  MaxConn,      \* bound on the connections
  LowWater      \* 10240 in http_conn::write

(* A client announces at most the body it sends, and at least nothing.     *)
ASSUME ConnAssumption ==
  /\ MaxAsked \in Nat /\ MaxConn \in Nat /\ LowWater \in Nat
  /\ \A q \in Requests :
       /\ q.keep \in BOOLEAN /\ q.form \in BOOLEAN
       /\ q.length \in Nat \cup {NoLength} /\ q.body \in Nat
       /\ q.length <= q.body

VARIABLES
  ET,           \* http_conn::ET, set once by init_event_mode_
  pc,           \* "closed", armed for "in" or "out", where a task is, or
                \* "crashed": the process has ended
  iov,          \* iov_, offsets count from the start of the answer
  iov_cnt,      \* iov_cnt_
  moved,        \* this task has transferred bytes: total_len > 0
  conns,        \* the connections so far
  asked,        \* the requests so far
  unsent,       \* what the client has still to send of its request
  net,          \* the bytes in the socket
  gone,         \* the client has closed its end
  answer,       \* the answer in memory: header, then the mapped file
  sent,         \* history: what the client got of it
  dropped,      \* history: read_fd or reset dropped bytes of this client
  owed          \* history: no answer was sent since the latest request

client == <<asked, unsent, net, gone>>
parser == <<read_buff, request, cls_probs, parse>>
sending == <<iov, iov_cnt, answer, sent>>
vars == <<ET, pc, moved, conns, dropped, owed, client, parser,
          write_buff, response, sending>>

Bytes(off, len) == [off |-> off, len |-> len]

(* The iovecs of a new http_conn are not initialised; the first answer     *)
(* sets the first of them.                                                 *)
Init ==
  /\ ET \in BOOLEAN
  /\ pc = "closed" /\ moved = FALSE
  /\ conns = 0 /\ asked = 0
  /\ unsent = <<>> /\ net = <<>> /\ gone = FALSE
  /\ read_buff = NewBuffer /\ write_buff = NewBuffer
  /\ request = InitRequest /\ cls_probs = NotClassified /\ parse = "idle"
  /\ response = InitResponse
  /\ \E junk \in 0 .. 1 : iov = <<Bytes(0, 0), Bytes(0, junk)>>
  /\ iov_cnt = 0
  /\ answer = <<>> /\ sent = <<>>
  /\ dropped = FALSE /\ owed = FALSE
-----------------------------------------------------------------------------
(* The client.  What it sends while a request is parsed or answered waits  *)
(* in the socket until the next read: it acts before events and between    *)
(* the turns of read, and can leave before any system call.                *)

Ask(q) ==
  /\ pc \in {"in", "read"} /\ ~gone
  /\ unsent = <<>> /\ asked < MaxAsked
  /\ asked' = asked + 1
  /\ unsent' = Tokens(q, asked + 1)
  /\ owed' = TRUE
  /\ UNCHANGED <<ET, pc, moved, conns, dropped, net, gone, parser,
                 write_buff, response, sending>>

(* A segment of any length arrives. *)
Arrive(n) ==
  /\ pc \in {"in", "read"} /\ ~gone
  /\ net' = net \o SubSeq(unsent, 1, n)
  /\ unsent' = SubSeq(unsent, n + 1, Len(unsent))
  /\ UNCHANGED <<ET, pc, moved, conns, dropped, owed, asked, gone, parser,
                 write_buff, response, sending>>

(* A reset may drop what has arrived. *)
Leave ==
  /\ pc \in {"in", "read", "out", "write"} /\ ~gone
  /\ gone' = TRUE
  /\ net' \in {net, <<>>}
  /\ UNCHANGED <<ET, pc, moved, conns, dropped, owed, asked, unsent, parser,
                 write_buff, response, sending>>
-----------------------------------------------------------------------------
(* reset, of the buffers and the request: not of iov_, cls_probs_ or the   *)
(* response.                                                               *)
Reset ==
  /\ read_buff' = RetrieveAll(read_buff)
  /\ write_buff' = RetrieveAll(write_buff)
  /\ request' = InitRequest
  /\ dropped' = (dropped \/ read_buff.data # <<>>)

(* init, of the http_conn for a new client. *)
Open ==
  /\ pc = "closed" /\ conns < MaxConn
  /\ conns' = conns + 1
  /\ pc' = "in"
  /\ read_buff' = RetrieveAll(read_buff)
  /\ write_buff' = RetrieveAll(write_buff)
  /\ request' = InitRequest
  /\ dropped' = FALSE /\ owed' = FALSE
  /\ UNCHANGED <<ET, moved, client, cls_probs, parse, response, sending>>

(* close_conn: the kernel drops what the socket has for this client. *)
Close ==
  /\ pc' = "closed"
  /\ response' = Unmapped(response)
  /\ unsent' = <<>> /\ net' = <<>> /\ gone' = FALSE
  /\ answer' = <<>> /\ sent' = <<>>

(* The main thread closes an idle connection: the client has left, or the  *)
(* time is over.                                                           *)
CloseIdle ==
  /\ pc \in {"in", "out"}
  /\ Close
  /\ UNCHANGED <<ET, moved, conns, dropped, owed, asked, parser, write_buff,
                 iov, iov_cnt>>
HangUp == gone /\ CloseIdle

(* An event starts on_read_ or on_write_. *)
Event ==
  /\ ~gone
  /\ \/ pc = "in" /\ net # <<>> /\ pc' = "read"
     \/ pc = "out" /\ pc' = "write"
  /\ UNCHANGED <<ET, moved, conns, dropped, owed, client, parser, write_buff,
                 response, sending>>
-----------------------------------------------------------------------------
(* on_read_ *)

Received == SubSeq(net, 1, Min({Len(net), MostRead(read_buff)}))

(* A turn of the loop of http_conn::read. *)
Read ==
  /\ pc = "read" /\ net # <<>>
  /\ net' = SubSeq(net, Len(Received) + 1, Len(net))
  /\ \/ ~Wraps(read_buff, Received) /\ read_buff' = ReadFd(read_buff, Received)
     \/ CanShrink(read_buff, Received) /\ read_buff' = Shrunk(read_buff, Received)
  /\ dropped' = (dropped \/ ~Keeps(read_buff, Received))
  /\ moved' = TRUE
  /\ IF ET THEN UNCHANGED <<pc, parse>> ELSE pc' = "process" /\ parse' = "begin"
  /\ UNCHANGED <<ET, conns, owed, asked, unsent, gone, request, cls_probs,
                 write_buff, response, sending>>

ReadCrash ==
  /\ pc = "read" /\ net # <<>> /\ Wraps(read_buff, Received)
  /\ pc' = "crashed"
  /\ UNCHANGED <<ET, moved, conns, dropped, owed, client, parser,
                 write_buff, response, sending>>

(* EAGAIN, or the end of the input: with nothing read the connection is    *)
(* closed.                                                                 *)
ReadEnds ==
  /\ pc = "read" /\ net = <<>>
  /\ IF gone /\ ~moved
       THEN Close /\ UNCHANGED parse
       ELSE /\ pc' = "process" /\ parse' = "begin"
            /\ UNCHANGED <<response, unsent, net, gone, answer, sent>>
  /\ UNCHANGED <<ET, moved, conns, dropped, owed, asked, read_buff, request,
                 cls_probs, write_buff, iov, iov_cnt>>

Parse ==
  /\ pc = "process"
  /\ \/ parse = "begin" /\ parse' = ParseBegin
        /\ UNCHANGED <<read_buff, request, cls_probs>>
     \/ ParseTurn
  /\ pc' = IF parse' = "throw" THEN "crashed" ELSE pc
  /\ UNCHANGED <<ET, moved, conns, dropped, owed, client, write_buff,
                 response, sending>>

(* process after parse, and the rearming at the end of on_read_. *)
NeedMore ==
  /\ pc = "process" /\ parse = "more"
  /\ pc' = "in" /\ parse' = "idle" /\ moved' = FALSE
  /\ UNCHANGED <<ET, conns, dropped, owed, client, read_buff,
                 request, cls_probs, write_buff, response, sending>>

(* The iovecs of an answer: the second one keeps its value when the answer *)
(* has no file.                                                            *)
SetIov ==
  LET head == write_buff'.data
      file == response'.mapped /\ response'.st_size > 0
  IN /\ iov' = <<Bytes(0, Len(head)),
                 IF file THEN Bytes(Len(head), response'.st_size) ELSE iov[2]>>
     /\ iov_cnt' = IF file THEN 2 ELSE 1
     /\ answer' = head \o (IF file THEN FilePieces(response'.path) ELSE <<>>)
     /\ sent' = <<>>

Respond ==
  /\ pc = "process" /\ parse \in {"ok", "err"}
  /\ ~Throws(request.path, cls_probs)
  /\ MakeResponse(request.path, cls_probs, IF parse = "ok" THEN 200 ELSE -1)
  /\ SetIov
  /\ pc' = "out" /\ parse' = "idle" /\ moved' = FALSE
  /\ UNCHANGED <<ET, conns, dropped, owed, client, read_buff,
                 request, cls_probs>>

RespondCrash ==
  /\ pc = "process" /\ parse \in {"ok", "err"}
  /\ Throws(request.path, cls_probs)
  /\ pc' = "crashed"
  /\ UNCHANGED <<ET, moved, conns, dropped, owed, client, parser,
                 write_buff, response, sending>>
-----------------------------------------------------------------------------
(* on_write_ *)

(* Faulty variant: the file is forgotten. *)
BytesOfHead == iov[1].len
BytesToWrite == iov[1].len + iov[2].len
Offered == iov[1].len + (IF iov_cnt = 2 THEN iov[2].len ELSE 0)

Pieces(v, n) == SubSeq(answer, v.off + 1, v.off + n)

(* Faulty variant: the base stays. *)
Shortened(v, n) == Bytes(v.off, v.len - n)
Advanced(v, n) == Bytes(v.off + n, v.len - n)

(* The iovecs and the write buffer after writev has taken n bytes. *)
IovAfter(n) ==
  IF n > iov[1].len
    THEN <<[iov[1] EXCEPT !.len = 0], Advanced(iov[2], n - iov[1].len)>>
    ELSE <<Advanced(iov[1], n), iov[2]>>

(* Faulty variant: the end of the header goes out with the file. *)
WriteBuffKept(n) ==
  IF n > iov[1].len THEN write_buff ELSE Retrieve(write_buff, n)
WriteBuffAfter(n) ==
  IF n <= iov[1].len THEN Retrieve(write_buff, n)
  ELSE IF iov[1].len > 0 THEN RetrieveAll(write_buff) ELSE write_buff

(* A turn of the loop of http_conn::write in which bytes are sent. *)
Write(n) ==
  /\ pc = "write" /\ n \in 1 .. Offered
  /\ iov' = IovAfter(n)
  /\ write_buff' = WriteBuffAfter(n)
  /\ sent' = LET k == Min({n, iov[1].len})
             IN sent \o Pieces(iov[1], k) \o Pieces(iov[2], n - k)
  /\ moved' = TRUE
  /\ owed' = (owed /\ Len(sent') < Len(answer))
  /\ pc' = IF ET \/ BytesToWrite' > LowWater THEN "write" ELSE "written"
  /\ UNCHANGED <<ET, conns, dropped, client, parser, response, iov_cnt, answer>>

(* How http_conn::write ends: level-triggered after a turn with little     *)
(* left, otherwise in a turn of writev without bytes, because there are    *)
(* none, the socket is full (at the start it was reported as writable), or *)
(* the client has left.                                                    *)
WriteReturns(ret) ==
  CASE ret = "sent"   -> pc = "written"
    [] ret = "none"   -> pc = "write" /\ Offered = 0
    [] ret = "EAGAIN" -> pc = "write" /\ Offered > 0 /\ moved
    [] ret = "error"  -> pc = "write" /\ Offered > 0 /\ gone

Kept == BytesToWrite = 0 /\ IsKeepAlive(request)

(* The end of on_write_: keep the connection, go on later, or close. *)
OnWriteEnds(ret) ==
  /\ WriteReturns(ret)
  /\ \/ Kept /\ pc' = "in" /\ Reset
        /\ answer' = <<>> /\ sent' = <<>>
        /\ UNCHANGED <<response, unsent, net, gone>>
     \/ /\ BytesToWrite > 0 /\ ret = "EAGAIN"
        /\ pc' = "out"
        /\ UNCHANGED <<response, read_buff, write_buff, request, dropped,
                       unsent, net, gone, answer, sent>>
     \/ /\ ~Kept /\ (BytesToWrite = 0 \/ ret # "EAGAIN")
        /\ Close
        /\ UNCHANGED <<read_buff, write_buff, request, dropped>>
  /\ moved' = FALSE
  /\ UNCHANGED <<ET, conns, owed, asked, cls_probs, parse, iov, iov_cnt>>

(* The process does not ignore SIGPIPE. *)
WriteCrash ==
  /\ pc = "write" /\ Offered > 0 /\ gone
  /\ pc' = "crashed"
  /\ UNCHANGED <<ET, moved, conns, dropped, owed, client, parser,
                 write_buff, response, sending>>
-----------------------------------------------------------------------------
Task ==
  \/ Read \/ ReadCrash \/ ReadEnds
  \/ Parse \/ NeedMore \/ Respond \/ RespondCrash
  \/ \E n \in 1 .. Offered : Write(n)
  \/ \E ret \in {"sent", "none", "EAGAIN", "error"} : OnWriteEnds(ret)
  \/ WriteCrash

Next ==
  \/ \E q \in Requests : Ask(q)
  \/ \E n \in 1 .. Len(unsent) : Arrive(n)
  \/ Leave \/ Open \/ CloseIdle \/ Event \/ Task

(* Input and the end of a client are reported, tasks run, and an answer    *)
(* goes on when the socket has room or its timer ends the connection.      *)
(* Nothing forces a client to send, to read or to leave.  No two of these  *)
(* are enabled together but for what happens at "out", so that one         *)
(* condition says it of each.                                              *)
Serve == Event \/ HangUp \/ (pc = "out" /\ CloseIdle) \/ Task
Fairness == WF_vars(Serve)

Spec == Init /\ [][Next]_vars /\ Fairness
-----------------------------------------------------------------------------
Code == {-1, 200, 400, 403, 404}
TypeOK ==
  /\ {ET, moved, gone, dropped, owed} \subseteq BOOLEAN
  /\ pc \in {"closed", "in", "read", "process", "out", "write", "written", "crashed"}
  /\ conns \in 0 .. MaxConn /\ asked \in 0 .. MaxAsked
  /\ \A b \in {read_buff, write_buff} : b.read \in Nat /\ Writable(b) \in Nat
  /\ request.state \in {"REQUEST_LINE", "HEADERS", "BODY", "FINISH"}
  /\ parse \in {"idle", "begin", "loop", "ok", "more", "err", "throw"}
  /\ response.code \in Code /\ response.st_size \in Nat
  /\ iov \in Seq([off : Nat, len : Nat]) /\ Len(iov) = 2 /\ iov_cnt \in 0 .. 2

(* What the client gets is the beginning of the answer, header first and   *)
(* then the file: through every partial writev and every full socket       *)
(* http_conn::write moves both iovecs to the next byte.                    *)
SentInOrder == IsPrefix(sent, answer)

(* While an answer is sent the write buffer holds what iov_[0] points to,  *)
(* so that the assertion of buffer::retrieve holds; when the next request  *)
(* is read and parsed it is empty, and no answer is appended to another.   *)
WriteBuffAgrees ==
  /\ pc \in {"out", "write", "written"} =>
       write_buff.data = Pieces(iov[1], iov[1].len)
  /\ pc \in {"in", "read", "process"} => write_buff.data = <<>>

(* Edge-triggered, on_write_ gives an answer up only for a client that has *)
(* left: before it closes or takes the next request all has been sent.     *)
SentWhole ==
  [][ET /\ pc = "write" /\ pc' \in {"in", "closed"} => gone \/ sent = answer]_vars

(* A body that comes in several reads is put together in order, from one   *)
(* request, up to the announced length, unless bytes were dropped.         *)
BodyInOrder ==
  ~dropped => \A k \in 1 .. Min({Len(request.body), request.length}) :
                /\ request.body[k].kind = "byte"
                /\ request.body[k].id = request.body[1].id
                /\ request.body[k].at = k

(* The classification in an answer to a request with an announced and      *)
(* complete body is that of this body, not of an earlier one that          *)
(* http_request::init has left in cls_probs_.  A body announced as empty   *)
(* is excluded: parse can end with the header, before parse_post_, and     *)
(* then the answer has the earlier classification.                         *)
ResultOfImage ==
  /\ pc \in {"out", "write", "written"}
  /\ response.path = "/result.html"
  /\ request.method = "POST" /\ request.form
  /\ request.length > 0 /\ Len(request.body) >= request.length
  => response.cls = request.body

(* A client that has sent its request whole gets an answer, or the         *)
(* connection is closed, unless the server dropped bytes of it or the      *)
(* client goes on with another request.                                    *)
Answered ==
  owed /\ unsent = <<>> ~>
    ~owed \/ dropped \/ unsent # <<>> \/ pc \in {"closed", "crashed"}

(* What the comment at parse says of its result: "0 for ok, 1 to read".    *)
(* An answer is made of a whole request only.                              *)
ParseComplete ==
  pc = "process" /\ parse = "ok" =>
    /\ request.state = "FINISH"
    /\ request.length # NoLength => Len(request.body) >= request.length

(* What the comment in read_fd says, that the scattered read takes all:    *)
(* no byte is lost on the way from the socket to the buffer.               *)
ReadTakesAll ==
  [][Read => read_buff'.data \o net' = read_buff.data \o net]_vars
=============================================================================
