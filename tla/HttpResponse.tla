---------------------------- MODULE HttpResponse ----------------------------
(***************************************************************************)
(* http_response of code/http/http_response.cpp: which code and which file *)
(* answer a path, what goes into the write buffer, and whether the file is *)
(* mapped.  The header is two tokens: status line with Connection field,   *)
(* and Content-length with what follows it.                                *)
(***************************************************************************)
EXTENDS Buffer

CONSTANTS
  FileLen,      \* the length of each file under src_dir, by path
  Unreadable    \* those of them that lack S_IROTH

ASSUME ResponseAssumption ==
  /\ FileLen \in [DOMAIN FileLen -> Nat]
  /\ Unreadable \subseteq DOMAIN FileLen
  /\ "/404.html" \in DOMAIN FileLen

VARIABLES
  write_buff,   \* write_buff_ of the connection
  response      \* path_, code_, cls_probs_, mm_file_ # nullptr, st_size

Piece(part, at) == [part |-> part, at |-> at]
FilePieces(path) == [k \in 1 .. FileLen[path] |-> Piece(path, k)]

InitResponse ==
  [path |-> "", code |-> -1, cls |-> <<>>, mapped |-> FALSE, st_size |-> 0]

Unmapped(r) == [r EXCEPT !.mapped = FALSE]

(* The codes make_response chooses; -1 is that of a request with an error. *)
FileCode(path, code) ==
  IF path \notin DOMAIN FileLen THEN 404
  ELSE IF path \in Unreadable THEN 403
  ELSE IF code = -1 THEN 200 ELSE code

(* error_html_: a stat that fails leaves the length of the first one. *)
ErrorHtml(path, code) ==
  CASE code = 400 -> "/400.html"
    [] code = 403 -> "/403.html"
    [] code = 404 -> "/404.html"
    [] OTHER -> path
StatSize(path, page) ==
  IF page \in DOMAIN FileLen THEN FileLen[page]
  ELSE IF path \in DOMAIN FileLen THEN FileLen[path] ELSE 0

(* add_state_line_: an unknown code is a 400. *)
Status(code) == IF code \in {200, 400, 403, 404} THEN code ELSE 400

(* The answer to /result.html, which is a file nowhere. *)
MakeResult(cls, code) ==
  /\ response' = [path |-> "/result.html", code |-> Status(code),
                  cls |-> cls, mapped |-> FALSE, st_size |-> 0]
  /\ write_buff' = AppendTo(write_buff,
       <<Piece("status", Status(code)), Piece("json", Len(cls))>>)

(* add_content_: no such file gives a text, others are mapped. *)
MakeFile(path, code) ==
  LET c == FileCode(path, code)
      page == ErrorHtml(path, c)
      size == StatSize(path, page)
      found == page \in DOMAIN FileLen
  IN /\ response' = [path |-> page, code |-> Status(c), cls |-> <<>>,
                     mapped |-> found, st_size |-> size]
     /\ write_buff' = AppendTo(write_buff,
          <<Piece("status", Status(c)),
            IF found THEN Piece("length", size) ELSE Piece("text", 0)>>)

(* The answer ends the process: init asserts that there is a path, erase   *)
(* throws for a result without classes, and mmap fails for a file without  *)
(* content.                                                                *)
Throws(path, cls) ==
  LET page == ErrorHtml(path, FileCode(path, 200))
  IN \/ path = ""
     \/ path = "/result.html" /\ cls = <<>>
     \/ path # "/result.html" /\ page \in DOMAIN FileLen /\ FileLen[page] = 0

MakeResponse(path, cls, code) ==
  IF path = "/result.html" THEN MakeResult(cls, code) ELSE MakeFile(path, code)
=============================================================================
