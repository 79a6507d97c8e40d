--------------------------- MODULE HttpConnection ---------------------------
(***************************************************************************)
(* A client connection in the hands of a worker: do_http (http.c) with     *)
(* send_to_backend and backend_response.  The client sends requests        *)
(* whenever it likes, the backend answers at its own pace and closes when  *)
(* it wants to; the worker reads, forwards and decides after each response *)
(* whether the two connections can be used again.  Messages are cut into   *)
(* heads and bodies: what matters is whether the worker, reading the next  *)
(* part of a stream, takes it for what it is.                              *)
(***************************************************************************)
EXTENDS Naturals, Sequences, FiniteSets

CONSTANTS ReqKinds, RespKinds,   \* requests and responses considered
          Regular,               \* regular backends
          Internal,              \* backends that reply themselves (be_type)
          None,
          MaxReq,                \* bound on the requests of the client
          MaxInterim             \* bound on the interim responses

Request == [head : BOOLEAN,      \* METH_HEAD
            v11 : BOOLEAN,       \* HTTP/1.1
            close : BOOLEAN,     \* Connection: close, or force_http_10
            upgrade : BOOLEAN,   \* a GET that asks for a web socket
            body : {"none", "sized", "chunked",
                    "bad"}]      \* refused by one of the checks of do_http
Response == [status : {"100", "101", "1xx", "204", "2xx"}, v11 : BOOLEAN,
             frame : {"sized", "chunked", "eof"}, close : BOOLEAN]

ASSUME HttpAssumption ==
  /\ ReqKinds \subseteq Request /\ RespKinds \subseteq Response
  /\ \A k \in RespKinds : k.frame = "chunked" => k.v11 /\ k.status \notin {"100", "1xx"}
  /\ Internal \subseteq {"redirect", "error", "acme", "control", "metrics"}
  /\ Regular \cap Internal = {} /\ None \notin Regular \cup Internal
  /\ MaxReq \in Nat /\ MaxInterim \in Nat

VARIABLES sent,          \* the client's requests so far
          cin, ceof,     \* stream from the client; has it closed?
          pc, cur,       \* where do_http is; the request it is about
          conn_closed, no_cont,      \* of phttp
          skip, resp,    \* of backend_response: its skip, the response
          backend, chan, \* phttp->backend, and the connection phttp->be
          interims,      \* interim responses so far (bound)
          out,           \* what the client has been sent
          response_code, \* of phttp
          log,           \* the access log: what was sent, what was logged
          hist           \* events of note (history)

cvars == <<sent, cin, ceof>>
pvars == <<pc, cur, conn_closed, no_cont, skip, resp>>
ovars == <<out, response_code, log>>
vars == <<cvars, pvars, backend, chan, interims, ovars, hist>>

NoResp == [status |-> "none", v11 |-> FALSE, frame |-> "eof", close |-> FALSE]
Req == sent[cur]
HasBody(k) == k.body \in {"sized", "chunked"}

(* The connection to a backend: requests under way to it, its output not   *)
(* read yet, the body it has still to send, whether it has closed.         *)
NoChan == [open |-> FALSE, in |-> <<>>, out |-> <<>>, body |-> NoResp, of |-> 0,
           eof |-> FALSE]
Fresh == [NoChan EXCEPT !.open = TRUE]
Part(p, id, k) == [part |-> p, id |-> id, kind |-> k]

Init ==
  /\ sent = <<>> /\ cin = <<>> /\ ceof = FALSE
  /\ pc = "read" /\ cur = 0 /\ conn_closed = FALSE /\ no_cont = FALSE
  /\ skip = FALSE /\ resp = NoResp /\ backend = None /\ chan = NoChan
  /\ interims = 0 /\ out = <<>> /\ response_code = "0" /\ log = <<>> /\ hist = {}

-----------------------------------------------------------------------------
(* The client: it does not wait for responses, and may close at any time,  *)
(* in the middle of a request too.                                         *)
ClientSends(k) ==
  LET id == Len(sent) + 1
      head == Append(cin, Part("head", id, NoResp))
  IN  /\ ~ceof /\ Len(sent) < MaxReq /\ pc # "closed"
      /\ sent' = Append(sent, k)
      /\ \/ ~HasBody(k) /\ cin' = head /\ UNCHANGED ceof
         \/ HasBody(k) /\ cin' = Append(head, Part("body", id, NoResp)) /\ UNCHANGED ceof
         \/ HasBody(k) /\ cin' = head /\ ceof' = TRUE
      /\ UNCHANGED <<pvars, backend, chan, interims, ovars, hist>>

ClientCloses ==
  /\ ~ceof /\ pc # "closed" /\ ceof' = TRUE
  /\ UNCHANGED <<sent, cin, pvars, backend, chan, interims, ovars, hist>>

(* A backend that follows the protocol: it answers the requests in order,  *)
(* perhaps with an interim response first, sends no body after a HEAD and  *)
(* switches protocols only if asked to; it may close at any time.          *)
Ready == pc # "closed" /\ chan.open /\ ~chan.eof /\ chan.in # <<>> /\ chan.body = NoResp

BackendInterim(k) ==
  /\ Ready /\ k.status \in {"100", "1xx"} /\ interims < MaxInterim
  /\ interims' = interims + 1
  /\ chan' = [chan EXCEPT !.out = Append(@, Part("head", Head(chan.in), k))]
  /\ UNCHANGED <<cvars, pvars, backend, ovars, hist>>

BackendResponds(k) ==
  LET id == Head(chan.in)
  IN  /\ Ready /\ k.status \notin {"100", "1xx"}
      /\ k.status = "101" => sent[id].upgrade
      /\ chan' = [chan EXCEPT !.out = Append(@, Part("head", id, k)), !.in = Tail(@), !.of = id,
                    !.body = IF k.status = "2xx" /\ ~sent[id].head THEN k ELSE NoResp]
      /\ UNCHANGED <<cvars, pvars, backend, interims, ovars, hist>>

BackendBody ==
  /\ pc # "closed" /\ chan.body # NoResp /\ ~chan.eof
  /\ chan' = [chan EXCEPT !.out = Append(@, Part("body", chan.of, chan.body)),
                          !.body = NoResp, !.eof = chan.body.frame = "eof"]
  /\ UNCHANGED <<cvars, pvars, backend, interims, ovars, hist>>

BackendCloses ==
  /\ pc # "closed" /\ chan.open /\ ~chan.eof
  /\ chan' = [chan EXCEPT !.eof = TRUE, !.body = NoResp]
  /\ UNCHANGED <<cvars, pvars, backend, interims, ovars, hist>>

-----------------------------------------------------------------------------
(* What the client is sent, as the answer to its request id.               *)
Answer(what, id) == Append(out, [to |-> id, what |-> what])

(* http_err_reply where do_http then returns, nothing being logged.        *)
Refuse(id) ==
  /\ out' = Answer("error", id) /\ pc' = "closed"
  /\ UNCHANGED <<response_code, log>>

(* The end of the loop of do_http: the request is logged with the status   *)
(* that the handler has left in response_code, or that of its result.      *)
LogRaw(rc, status) ==                                             \* mutant
  /\ response_code' = rc
  /\ log' = Append(log, [id |-> cur, sent |-> status, logged |-> rc])

LogAs(rc, status) ==
  LET code == IF rc = "0" THEN status ELSE rc
  IN  /\ response_code' = code
      /\ log' = Append(log, [id |-> cur, sent |-> status, logged |-> code])
Again(closed) == IF ~Req.v11 \/ closed THEN "closed" ELSE "read"

(* A handler fails: http_err_reply, which ends the connection.             *)
HandlerFails(rc) ==
  /\ out' = Answer("error", cur) /\ LogAs(rc, "err") /\ pc' = "closed"

(* close_backend: nothing of the connection is left.                       *)
close_backend == NoChan

(* Whether the response to a request has no content, before it is known.   *)
NoContSticks(k) == no_cont \/ k.head                              \* mutant
NoContOf(k) == k.head

(* do_http: http_request_read, parse_http_request and the checks of the    *)
(* headers.                                                                *)
ReadRequest ==
  /\ pc = "read" /\ cin # <<>> /\ Head(cin).part = "head"
  /\ cin' = Tail(cin) /\ cur' = Head(cin).id
  /\ LET k == sent[cur']
     IN  \/ k.body = "bad" /\ Refuse(cur') /\ UNCHANGED <<conn_closed, no_cont>>
         \/ /\ k.body # "bad" /\ pc' = "check"
            /\ no_cont' = NoContOf(k) /\ conn_closed' = k.close
            /\ UNCHANGED ovars
  /\ UNCHANGED <<sent, ceof, skip, resp, backend, chan, interims, hist>>

(* Content that is read as if it were a request: recorded, and refused     *)
(* (what becomes of it depends on what it looks like).                     *)
ReadGarbage ==
  /\ pc = "read" /\ cin # <<>> /\ Head(cin).part = "body"
  /\ cin' = Tail(cin) /\ UNCHANGED cur /\ Refuse(0)
  /\ hist' = hist \cup {"misread"}
  /\ UNCHANGED <<sent, ceof, conn_closed, no_cont, skip, resp, backend, chan, interims>>

(* The client has closed, or sent nothing for too long.                    *)
ReadFails ==
  /\ pc = "read" /\ cin = <<>> /\ pc' = "closed"
  /\ UNCHANGED <<cvars, cur, conn_closed, no_cont, skip, resp, backend, chan,
                 interims, ovars, hist>>

(* A connection to the backend that is readable is closed.                 *)
is_readable == chan.open /\ (chan.out # <<>> \/ chan.eof)

CheckBackend ==
  /\ pc = "check" /\ pc' = "select"
  /\ chan' = IF is_readable THEN close_backend ELSE chan
  /\ hist' = IF is_readable /\ chan.out # <<>> THEN hist \cup {"pending"} ELSE hist
  /\ UNCHANGED <<cvars, cur, conn_closed, no_cont, skip, resp, backend, interims, ovars>>

(* get_service and select_backend.                                         *)
SelectFails ==
  /\ pc = "select" /\ UNCHANGED cur /\ Refuse(cur)
  /\ UNCHANGED <<cvars, conn_closed, no_cont, skip, resp, backend, chan, interims, hist>>

select_backend(b) ==
  /\ pc = "select"
  /\ chan' = IF b \notin Regular THEN close_backend
              ELSE IF chan.open /\ backend = b THEN chan ELSE Fresh
  /\ backend' = b /\ pc' = IF b \in Regular THEN "send" ELSE "internal"
  /\ UNCHANGED <<cvars, cur, conn_closed, no_cont, skip, resp, interims, ovars, hist>>

(* The internal backends.  Some set response_code, control_response resets *)
(* it, metrics_response leaves it.  None reads the body of the request.    *)
CodeLeft(b) ==
  IF b = "control" THEN "0" ELSE IF b = "metrics" THEN response_code ELSE "set"

InternalReply ==
  /\ pc = "internal" /\ UNCHANGED cur
  /\ out' = Answer("final", cur)
  /\ LogAs(CodeLeft(backend), "set")
  /\ pc' = Again(conn_closed)
  /\ hist' = IF HasBody(Req) THEN hist \cup {"left"} ELSE hist
  /\ UNCHANGED <<cvars, conn_closed, no_cont, skip, resp, backend, chan, interims>>

(* They fail before anything is sent, control_response having reset        *)
(* response_code or not; metrics_response may return -1, and acme_response *)
(* may break off after the header.                                         *)
InternalFails ==
  /\ pc = "internal" /\ UNCHANGED cur
  /\ \/ HandlerFails(response_code) /\ UNCHANGED hist
     \/ backend = "control" /\ HandlerFails("0") /\ UNCHANGED hist
     \/ backend = "metrics" /\ pc' = "closed" /\ UNCHANGED <<ovars, hist>>
     \/ /\ backend = "acme"
        /\ out' = Answer("final", cur) \o <<[to |-> cur, what |-> "error"]>>
        /\ LogAs("set", "err") /\ pc' = "closed" /\ hist' = hist \cup {"broken"}
  /\ UNCHANGED <<cvars, conn_closed, no_cont, skip, resp, backend, chan, interims>>

-----------------------------------------------------------------------------
(* send_to_backend: the head, then the body, which the client may have     *)
(* failed to send.                                                         *)
CopiesSized(k) == k.body = "sized"                                \* mutant
Copies(k) == k.body = "sized" \/ (k.body = "chunked" /\ k.v11)

send_to_backend ==
  /\ pc = "send" /\ pc' = "response" /\ skip' = FALSE
  /\ \/ Copies(Req) /\ cin # <<>> /\ cin' = Tail(cin)
     \/ ~Copies(Req) /\ UNCHANGED cin
  /\ chan' = [chan EXCEPT !.in = Append(@, cur)]
  /\ UNCHANGED <<sent, ceof, cur, conn_closed, no_cont, resp, backend, interims, ovars, hist>>

SendFails ==
  /\ pc = "send" /\ UNCHANGED cur /\ HandlerFails(response_code)
  /\ UNCHANGED <<cvars, conn_closed, no_cont, skip, resp, backend, chan, interims, hist>>

(* backend_response reads the head of a response and passes it on.         *)
NoContent(k) == (no_cont \/ k.status \in {"101", "204", "1xx"}) /\ k.frame # "chunked"

ResponseHead ==
  LET t == Head(chan.out)
      k == t.kind
      final == k.status # "1xx"
  IN  /\ pc = "response" /\ chan.out # <<>> /\ t.part = "head" /\ k.status # "100"
      /\ UNCHANGED cur
      /\ out' = IF skip THEN out ELSE Answer(IF final THEN "final" ELSE "interim", cur)
      /\ chan' = [chan EXCEPT !.out = Tail(@)]
      /\ no_cont' = NoContent(k) /\ conn_closed' = (conn_closed \/ k.close)
      /\ response_code' = k.status /\ resp' = k /\ pc' = "body"
      /\ hist' = hist \cup (IF skip /\ final THEN {"swallowed"} ELSE {})
                      \cup (IF t.id # cur THEN {"mispaired"} ELSE {})
      /\ UNCHANGED <<cvars, skip, backend, interims, log>>

(* A response with status 100 is not passed on, and the next one is read.  *)
ResponseContinue ==
  /\ pc = "response" /\ chan.out # <<>>
  /\ Head(chan.out).part = "head" /\ Head(chan.out).kind.status = "100"
  /\ chan' = [chan EXCEPT !.out = Tail(@)]
  /\ skip' = TRUE /\ response_code' = "100"
  /\ UNCHANGED <<cvars, pc, cur, conn_closed, no_cont, resp, backend, interims, out, log, hist>>

(* No response: the backend has closed, or has been silent for too long,   *)
(* or what comes is not a response, or rewrite_apply fails on its head (of *)
(* a response with status 100 too), before the status of it is noted.      *)
ClosedOnly == chan.out = <<>> /\ chan.eof                         \* mutant
ResponseOver == chan.out = <<>>

ResponseFails ==
  /\ pc = "response" /\ UNCHANGED cur
  /\ \/ ResponseOver /\ UNCHANGED hist
     \/ /\ chan.out # <<>> /\ Head(chan.out).part = "body"
        /\ hist' = hist \cup {"mispaired"}
     \/ chan.out # <<>> /\ Head(chan.out).part = "head" /\ UNCHANGED hist
  /\ HandlerFails(response_code)
  /\ UNCHANGED <<cvars, conn_closed, no_cont, skip, resp, backend, chan, interims>>

(* The client is gone when something is written to it, or the body of the  *)
(* response ends early: backend_response returns -1, do_http returns.      *)
GiveUp ==
  /\ \/ pc = "response" /\ ceof /\ chan.out # <<>>
     \/ pc = "body" /\ ceof
     \/ /\ pc = "body" /\ ~no_cont /\ resp.frame # "eof"
        /\ chan.out # <<>> => Head(chan.out).part = "head"
  /\ pc' = "closed"
  /\ UNCHANGED <<cvars, cur, conn_closed, no_cont, skip, resp, backend, chan,
                 interims, ovars, hist>>

(* The end of backend_response, the rest of the input from the backend     *)
(* being rest.  After a 100 it reads another response.                     *)
ResponseEndsOnce(be_11, closed, rest) ==                          \* mutant
  /\ pc' = Again(closed) /\ LogAs(response_code, response_code)
  /\ chan' = IF be_11 THEN [chan EXCEPT !.out = rest] ELSE close_backend

ResponseEnds(be_11, closed, rest) ==
  \/ /\ skip /\ pc' = "response" /\ chan' = [chan EXCEPT !.out = rest]
     /\ UNCHANGED <<response_code, log>>
  \/ /\ ~skip /\ pc' = Again(closed) /\ LogAs(response_code, response_code)
     /\ chan' = IF be_11 THEN [chan EXCEPT !.out = rest] ELSE close_backend

(* No body: after a HEAD, a 204 or similar, or an interim response.        *)
NoBody ==
  /\ pc = "body" /\ no_cont /\ ~(resp.status = "101" /\ Req.upgrade)
  /\ ResponseEnds(resp.v11, conn_closed, chan.out)
  /\ hist' = IF resp.status = "1xx" THEN hist \cup {"loose"} ELSE hist
  /\ UNCHANGED <<cvars, cur, conn_closed, no_cont, skip, resp, backend, interims, out>>

(* copy_chunks, copy_bin, which take whatever comes for the content.       *)
CopyBody ==
  /\ pc = "body" /\ ~no_cont /\ resp.frame # "eof"
  /\ chan.out # <<>>
  /\ hist' = hist \cup (IF Head(chan.out).part = "head" THEN {"mispaired"} ELSE {})
  /\ ResponseEnds(resp.v11, conn_closed, Tail(chan.out))
  /\ UNCHANGED <<cvars, cur, conn_closed, no_cont, skip, resp, backend, interims, out>>

(* Content until EOF (or until the backend is silent for too long), and    *)
(* web sockets: neither connection is used again.                          *)
CopyToEof ==
  /\ pc = "body"
  /\ \/ ~no_cont /\ resp.frame = "eof" /\ is_readable /\ ~skip
     \/ no_cont /\ resp.status = "101" /\ Req.upgrade
  /\ conn_closed' = TRUE
  /\ ResponseEnds(FALSE, TRUE, <<>>)
  /\ UNCHANGED <<cvars, cur, no_cont, skip, resp, backend, interims, out, hist>>

(* The same if nothing of the content comes in time, or it is skipped.     *)
NotReadable ==
  /\ pc = "body" /\ ~no_cont /\ resp.frame = "eof" /\ (skip \/ ~is_readable)
  /\ ResponseEnds(resp.v11, conn_closed, chan.out)
  /\ hist' = hist \cup {"loose"}
  /\ UNCHANGED <<cvars, cur, conn_closed, no_cont, skip, resp, backend, interims, out>>

Worker ==
  \/ ReadRequest \/ ReadGarbage \/ CheckBackend
  \/ SelectFails \/ \E b \in Regular \cup Internal : select_backend(b)
  \/ InternalReply \/ InternalFails \/ send_to_backend \/ SendFails
  \/ ResponseHead \/ ResponseContinue \/ ResponseFails \/ GiveUp
  \/ NoBody \/ CopyBody \/ CopyToEof \/ NotReadable

Next ==
  \/ \E k \in ReqKinds : ClientSends(k)
  \/ \E k \in RespKinds : BackendInterim(k) \/ BackendResponds(k)
  \/ ClientCloses \/ BackendBody \/ BackendCloses \/ ReadFails \/ Worker

Spec == Init /\ [][Next]_vars

(* A worker goes on when it can; silence of its peers ends in a timeout.   *)
FairSpec == Spec /\ WF_vars(Worker)

-----------------------------------------------------------------------------
(* Types of the variables.                                                 *)
Parts(K) == [part : {"head", "body"}, id : 0 .. MaxReq, kind : K]
Channel == [open : BOOLEAN, in : Seq(1 .. MaxReq), out : Seq(Parts(RespKinds)),
            body : RespKinds \cup {NoResp}, of : 0 .. MaxReq, eof : BOOLEAN]
Outputs == [to : 0 .. MaxReq, what : {"interim", "final", "error"}]
Codes == {"0", "set", "err", "100", "101", "1xx", "204", "2xx"}
Lines == [id : 0 .. MaxReq, sent : Codes, logged : Codes]

TypeOK ==
  /\ sent \in Seq(ReqKinds) /\ Len(sent) =< MaxReq /\ cin \in Seq(Parts({NoResp}))
  /\ pc \in {"read", "check", "select", "internal", "send", "response", "body", "closed"}
  /\ cur \in 0 .. Len(sent) /\ (pc \notin {"read", "closed"} => cur > 0)
  /\ {ceof, conn_closed, no_cont, skip} \subseteq BOOLEAN
  /\ resp \in RespKinds \cup {NoResp} /\ (pc = "body" => resp # NoResp)
  /\ backend \in Regular \cup Internal \cup {None} /\ chan \in Channel
  /\ chan = NoChan \/ chan.open
  /\ pc \in {"send", "response", "body"} => chan.open
  /\ interims \in 0 .. MaxInterim
  /\ out \in Seq(Outputs) /\ response_code \in Codes /\ log \in Seq(Lines)
  /\ hist \subseteq {"misread", "left", "mispaired", "loose", "broken", "swallowed", "pending"}

Answers(i) == Cardinality({n \in DOMAIN out : out[n].to = i /\ out[n].what # "interim"})
Passed(i) == \E n \in DOMAIN out : out[n] = [to |-> i, what |-> "interim"]

(* A response is taken for the answer to the request that it answers, and  *)
(* no content for a response, although connections to backends are used    *)
(* again and again: backend_response leaves nothing behind (and do_http is *)
(* right that one that is readable is at EOF).  Exempt are connections on  *)
(* which an interim response other than 100 was taken for the final one,   *)
(* or (after a 100) has left no_cont set for it, or on which content until *)
(* EOF was not waited for ("loose").                                       *)
ResponsesMatch == {"mispaired", "pending"} \cap hist # {} => "loose" \in hist

(* The body of a request is never taken for a request, unless the request  *)
(* was answered by an internal backend, which does not read it ("left").   *)
RequestsAligned == "misread" \in hist => "left" \in hist

(* A request gets one answer.  Never two, unless acme_response breaks off  *)
(* after its header: do_http sends an error after it, and closes.  And one *)
(* at least before the next request is read, although a 100 is not passed  *)
(* on; unless an interim response other than 100 was, which                *)
(* backend_response then takes for the answer: it is all that is sent.     *)
OneAnswer ==
  /\ \A i \in 1 .. cur : Answers(i) =< 1 \/ (i = cur /\ "broken" \in hist)
  /\ pc = "read" => \A i \in 1 .. cur : Answers(i) = 1 \/ Passed(i)

(* Every request is logged, once, before the next one is read, and with    *)
(* the status that was sent: but for that of an earlier response on the    *)
(* same connection (response_code is not reset) or an interim one, and     *)
(* unless acme_response breaks off.                                        *)
LogComplete ==
  /\ pc = "read" => Len(log) = cur
  /\ \A n \in DOMAIN log :
       /\ log[n].id = n
       /\ \/ log[n].logged = log[n].sent
          \/ \E m \in 1 .. n - 1 : log[m].logged = log[n].logged
          \/ interims > 0 \/ "broken" \in hist

(* Every request that was read is dealt with: the worker gets back to the  *)
(* next one or ends the connection, whatever its peers do or fail to do.   *)
EveryRequestEnds == pc = "check" ~> pc \in {"read", "closed"}

(* pound.texi: "wait for it to reply and forward the response back to the  *)
(* querying party".  No final response that was read is kept back.         *)
ForwardsResponse == "swallowed" \notin hist
=============================================================================
