----------------------------- MODULE MCHttpConn -----------------------------
(* HttpConn with a few files and the requests that take different ways.    *)
EXTENDS HttpConn

Request(method, path, keep, form, length, body) ==
  [method |-> method, path |-> path, version |-> "1.1", keep |-> keep,
   form |-> form, length |-> length, body |-> body]

Get == Request("GET", "/", TRUE, FALSE, NoLength, 0)
(* A request line with nothing between the spaces. *)
NoTarget == Request("GET", "", FALSE, FALSE, NoLength, 0)
Image == Request("POST", "/result", TRUE, TRUE, 2, 2)
Login == Request("POST", "/login", FALSE, TRUE, 1, 1)
(* An image that is announced as empty: parse can end with the header. *)
Empty == Request("POST", "/result", TRUE, TRUE, 0, 0)
(* As get_request_ of the client builds it: no Content-Length. *)
Client == Request("POST", "/result", FALSE, TRUE, NoLength, 1)
Secret == Request("POST", "/secret", FALSE, FALSE, 1, 1)

AllRequests == {Get, NoTarget, Image, Login, Client, Secret, Empty}
Files == ("/index.html" :> 2) @@ ("/404.html" :> 1) @@ ("/login.html" :> 1)
         @@ ("/welcome.html" :> 1) @@ ("/error.html" :> 1) @@ ("/secret" :> 1)
NotForOthers == {"/secret"}
=============================================================================
