-------------------------- MODULE MCHttpConnection --------------------------
(* Requests and responses for the instances of HttpConnection.             *)
EXTENDS HttpConnection

Plain(body) == [head |-> FALSE, v11 |-> TRUE, close |-> FALSE, upgrade |-> FALSE, body |-> body]

SomeRequests ==
  {Plain("none"), Plain("chunked"), Plain("bad"),
   [Plain("none") EXCEPT !.head = TRUE], [Plain("none") EXCEPT !.upgrade = TRUE],
   [Plain("sized") EXCEPT !.close = TRUE], [Plain("chunked") EXCEPT !.v11 = FALSE]}

Ok(frame) == [status |-> "2xx", v11 |-> TRUE, frame |-> frame, close |-> FALSE]

SomeResponses ==
  {Ok("sized"), Ok("chunked"), Ok("eof"), [Ok("sized") EXCEPT !.v11 = FALSE],
   [Ok("sized") EXCEPT !.close = TRUE]}
  \cup {[Ok("eof") EXCEPT !.status = s] : s \in {"100", "1xx", "101", "204"}}
=============================================================================
