--------------------------- MODULE MCHttpSession ---------------------------
(***************************************************************************)
(* Model values for HttpSession: a GET, a HEAD and an unknown method that  *)
(* keep the connection, a missing and an unreadable file that close it, an *)
(* upgrade and a malformed request.                                        *)
(***************************************************************************)
EXTENDS HttpSession

Req(method, target, upgrade, keepAlive) ==
  [method |-> method, target |-> target, upgrade |-> upgrade, keepAlive |-> keepAlive]

SomeRequests ==
  {Req("get", "file", FALSE, TRUE), Req("head", "file", FALSE, TRUE),
   Req("other", "file", FALSE, TRUE), Req("head", "missing", FALSE, FALSE),
   Req("get", "unreadable", FALSE, FALSE), Req("get", "file", TRUE, TRUE),
   Req("malformed", "illegal", FALSE, FALSE)}

=============================================================================
