----------------------- MODULE HttpConnectionProofs -----------------------
(***************************************************************************)
(* Proofs about HttpConnection, for any requests and responses and any     *)
(* number of them: requests and responses stay aligned with what do_http   *)
(* and backend_response take them for, every request gets one answer and   *)
(* one line of the access log.  The last part is about the request itself, *)
(* whose cached parts follow what rewriting rules set.                     *)
(***************************************************************************)
EXTENDS HttpConnection, FiniteSetTheorems, WellFoundedInduction, TLAPS

-----------------------------------------------------------------------------
(* The stream from the client: requests follow each other in order, each   *)
(* with its body, unless the client has closed in the middle of one.       *)
Carries(i) == cin[i].part = "head" /\ HasBody(sent[cin[i].id])
IdAfter(n, part) == IF part = "head" THEN n + 1 ELSE n

Numbered ==
  pc # "closed" =>
    /\ cin = <<>> => cur = Len(sent)
    /\ cin # <<>> => /\ cin[1].id = IdAfter(cur, cin[1].part)
                     /\ cin[Len(cin)].id = Len(sent)
    /\ \A i \in 1 .. Len(cin) - 1 : cin[i + 1].id = IdAfter(cin[i].id, cin[i + 1].part)

Streamed ==
  /\ \A i \in DOMAIN cin : cin[i].id \in 1 .. Len(sent)
  /\ \A i \in DOMAIN cin :
       Carries(i) => IF i < Len(cin) THEN cin[i + 1].part = "body" ELSE ceof
  /\ \A i \in DOMAIN cin : i > 1 /\ cin[i].part = "body" => Carries(i - 1)

(* What comes next of it, where do_http reads it: a request, or the body   *)
(* of the one in hand, if that has one.  An internal backend does not read *)
(* the body, which is then what comes next, at once or never.              *)
HeadNext == cin # <<>> => cin[1].part # "body"
BodyNext ==
  /\ cin # <<>> => (cin[1].part = "body" <=> HasBody(Req))
  /\ cin = <<>> /\ HasBody(Req) => ceof
BodyLeft == IF cin = <<>> THEN ceof ELSE cin[1].part = "body"

Placed ==
  pc # "closed" =>
    /\ pc = "read" => HeadNext \/ "left" \in hist
    /\ pc \in {"check", "select", "internal", "send"} => BodyNext
    /\ pc \in {"response", "body"} /\ Req.v11 => HeadNext
    /\ "left" \in hist => pc = "read" /\ BodyLeft

-----------------------------------------------------------------------------
(* The access log: requests in order, up to the one in hand.  The status   *)
(* in response_code is one of an earlier request, except while a response  *)
(* is copied or after an interim one.                                      *)
IsInterim(p) == p.part = "head" /\ p.kind.status \in {"100", "1xx"}
NoInterim(q) == \A i \in DOMAIN q : ~IsInterim(q[i])
Interims == interims > 0 \/ (~skip /\ NoInterim(chan.out))

Known(c) == \E m \in DOMAIN log : log[m].logged = c
Logged ==
  /\ pc \notin {"read", "closed"} => Len(log) = cur - 1
  /\ pc \notin {"body", "closed"} => response_code = "0" \/ Known(response_code) \/ interims > 0

-----------------------------------------------------------------------------
(* What the client was sent: no answer to the request in hand before its   *)
(* response, or that of a handler, is sent.                                *)
IsAnswer(n, i) == out[n].to = i /\ out[n].what # "interim"
Unanswered(i) == \A n \in DOMAIN out : ~IsAnswer(n, i)
AtMostOnce(i) == \A m, n \in DOMAIN out : IsAnswer(m, i) /\ IsAnswer(n, i) => m = n

UpTo(c) == \A n \in DOMAIN out : out[n].to =< c
Met(i) == ~Unanswered(i) \/ Passed(i)

Answered ==
  /\ UpTo(cur)
  /\ \A i \in 1 .. cur : AtMostOnce(i) \/ (i = cur /\ "broken" \in hist)
  /\ \A i \in 1 .. cur : Met(i) \/ (i = cur /\ pc # "read")
  /\ "broken" \in hist => pc = "closed"
  /\ pc \in {"check", "select", "internal", "send", "response"} => Unanswered(cur)
  /\ pc = "body" => IF skip \/ resp.status = "1xx" THEN Unanswered(cur) ELSE ~Unanswered(cur)
  /\ pc = "body" /\ resp.status = "1xx" => no_cont /\ (skip \/ Passed(cur))

-----------------------------------------------------------------------------
(* The connection to the backend.  Between two requests nothing is under   *)
(* way on it; while a response is read there is what belongs to it, at     *)
(* most: interim responses, then the final one, then its body.             *)
IsFinal(p) == p.part = "head" /\ p.kind.status \notin {"100", "1xx"}
SendsBody(hd, k) == k.status = "2xx" /\ ~hd

(* For request c, a HEAD or not, with q to be read, in still to be         *)
(* answered, the body b of request f to be sent, and h read before:        *)
Pairs(c, hd, q, in, b, f, h) ==
  LET n == Len(q)
  IN  /\ in \in {<<>>, <<c>>}
      /\ \A i \in 1 .. n : q[i].id = c
      /\ in # <<>> => b = NoResp /\ \A i \in 1 .. n : IsInterim(q[i])
      /\ \A i \in 1 .. n : IsFinal(q[i]) => i = n \/ (i = n - 1 /\ q[n].part = "body")
      /\ \A i \in 1 .. n : q[i].part = "body" =>
           /\ i = n /\ b = NoResp /\ SendsBody(hd, q[n].kind)
           /\ IF n > 1 THEN IsFinal(q[n - 1]) /\ q[n - 1].kind = q[n].kind ELSE h = q[n].kind
      /\ b # NoResp => /\ SendsBody(hd, b) /\ f = c
                       /\ IF n > 0 THEN IsFinal(q[n]) /\ q[n].kind = b ELSE h = b
OnlyBody(q) == \A i \in 1 .. Len(q) : q[i].part = "body"

Idle == chan.in = <<>> /\ chan.out = <<>> /\ chan.body = NoResp
Paired(h) == Pairs(cur, Req.head, chan.out, chan.in, chan.body, chan.of, h)

Matched ==
  "loose" \in hist \/ pc = "closed" \/
    /\ pc \in {"read", "check", "select", "internal", "send"} => Idle
    /\ pc \in {"check", "select", "internal", "send"} => (no_cont <=> Req.head)
    /\ pc = "response" => Paired(NoResp) /\ (Idle \/ (no_cont <=> Req.head))
    /\ pc = "body" => Paired(resp) /\ resp.status # "100"
    /\ pc = "body" /\ resp.status = "1xx" => no_cont
    /\ pc = "body" /\ resp.status # "1xx" =>
         /\ chan.in = <<>> /\ OnlyBody(chan.out)
         /\ no_cont <=> (Req.head \/ resp.status \in {"101", "204"}) /\ resp.frame # "chunked"

HttpInv ==
  /\ TypeOK /\ Numbered /\ Streamed /\ Placed /\ RequestsAligned
  /\ Interims /\ Logged /\ LogComplete /\ Answered /\ Matched /\ ResponsesMatch

-----------------------------------------------------------------------------
(* The steps of Next, one by one, as the proofs below consider them.       *)
LEMMA NextCases ==
  ASSUME Next
  PROVE  \/ \E k \in ReqKinds : ClientSends(k)
         \/ \E k \in RespKinds : BackendInterim(k)
         \/ \E k \in RespKinds : BackendResponds(k)
         \/ ClientCloses \/ BackendBody \/ BackendCloses \/ ReadFails
         \/ ReadRequest \/ ReadGarbage \/ CheckBackend
         \/ SelectFails \/ \E b \in Regular \cup Internal : select_backend(b)
         \/ InternalReply \/ InternalFails \/ send_to_backend \/ SendFails
         \/ ResponseHead \/ ResponseContinue \/ ResponseFails \/ GiveUp
         \/ NoBody \/ CopyBody \/ CopyToEof \/ NotReadable
  BY DEF Next, Worker

(* A sequence, taken apart.                                                *)
LEMMA HeadAndTail ==
  ASSUME NEW S, NEW q \in Seq(S), q # <<>>
  PROVE  /\ Head(q) \in S /\ Head(q) = q[1] /\ Tail(q) \in Seq(S)
         /\ Len(Tail(q)) = Len(q) - 1 /\ (\A i \in 1 .. Len(q) - 1 : Tail(q)[i] = q[i + 1])
         /\ Len(q) \in Nat /\ Len(q) > 0 /\ DOMAIN q = 1 .. Len(q) /\ (Tail(q) = <<>> <=> Len(q) = 1)
<1>1. /\ Head(q) \in S /\ Head(q) = q[1] /\ Tail(q) \in Seq(S) /\ Len(q) \in Nat /\ Len(q) > 0
      /\ Len(Tail(q)) = Len(q) - 1 /\ DOMAIN q = 1 .. Len(q)
  OBVIOUS
<1>2. \A i \in 1 .. Len(q) - 1 : Tail(q)[i] = q[i + 1]
  OBVIOUS
<1>3. \A t \in Seq(S) : t = <<>> <=> Len(t) = 0
  OBVIOUS
<1>4. Tail(q) = <<>> <=> Len(q) = 1
  BY <1>1, <1>3
<1> QED
  BY <1>1, <1>2, <1>4

(* A sequence with one more element: the old ones stay, the new one is     *)
(* last.                                                                   *)
LEMMA Appended ==
  ASSUME NEW S, NEW q \in Seq(S), NEW p \in S, NEW r, r = Append(q, p)
  PROVE  /\ r \in Seq(S) /\ Len(q) \in Nat /\ Len(r) = Len(q) + 1 /\ DOMAIN q = 1 .. Len(q)
         /\ DOMAIN r = 1 .. Len(q) + 1 /\ r[Len(q) + 1] = p
         /\ \A i \in 1 .. Len(q) : r[i] = q[i]
  OBVIOUS

(* do_http reads the next request that the client has sent.                *)
LEMMA NextRequest ==
  ASSUME TypeOK, Streamed, ReadRequest
  PROVE  cur' \in 1 .. Len(sent) /\ cur' \in 1 .. MaxReq /\ sent' = sent /\ cin' = Tail(cin)
<1>1. /\ cin \in Seq(Parts({NoResp})) /\ cin # <<>> /\ cin' = Tail(cin) /\ sent' = sent
      /\ cur' = Head(cin).id
  BY DEF TypeOK, ReadRequest
<1>2. cin[1] \in Parts({NoResp}) /\ Head(cin) = cin[1] /\ 1 \in DOMAIN cin
  BY <1>1
<1>3. cin[1].id \in 1 .. Len(sent) /\ Len(sent) \in Nat /\ Len(sent) =< MaxReq
  BY <1>2 DEF Streamed, TypeOK
<1> QED
  BY <1>1, <1>2, <1>3, HttpAssumption

(* The flags of phttp and backend_response stay Boolean.                   *)
FlagsOK == ceof \in BOOLEAN /\ conn_closed \in BOOLEAN /\ no_cont \in BOOLEAN /\ skip \in BOOLEAN

(* The flags keep their type.                                              *)
LEMMA FlagsStep ==
  ASSUME TypeOK, Streamed, Next
  PROVE  FlagsOK'
<1>a. FlagsOK
  BY Zenon DEF TypeOK, FlagsOK
<1>b. \A i \in 1 .. Len(sent) : sent[i].head \in BOOLEAN /\ sent[i].close \in BOOLEAN
  BY HttpAssumption DEF TypeOK, Request
<1>1. CASE \E k \in ReqKinds : ClientSends(k)
  <2>1. PICK k \in ReqKinds : ClientSends(k)
    BY <1>1
  <2> QED
    BY <2>1, <1>a, Zenon
    DEF ClientSends, pvars, ovars, FlagsOK
<1>2. CASE \E k \in RespKinds : BackendInterim(k)
  <2>1. PICK k \in RespKinds : BackendInterim(k)
    BY <1>2
  <2> QED
    BY <2>1, <1>a, Zenon
    DEF BackendInterim, Ready, cvars, pvars, ovars, FlagsOK
<1>3. CASE \E k \in RespKinds : BackendResponds(k)
  <2>1. PICK k \in RespKinds : BackendResponds(k)
    BY <1>3
  <2> QED
    BY <2>1, <1>a, Zenon
    DEF BackendResponds, Ready, cvars, pvars, ovars, FlagsOK
<1>4. CASE ClientCloses
  BY <1>4, <1>a, Zenon DEF ClientCloses, pvars, ovars, FlagsOK
<1>5. CASE BackendBody
  BY <1>5, <1>a, Zenon DEF BackendBody, cvars, pvars, ovars, FlagsOK
<1>6. CASE BackendCloses
  BY <1>6, <1>a, Zenon DEF BackendCloses, cvars, pvars, ovars, FlagsOK
<1>7. CASE ReadFails
  BY <1>7, <1>a, Zenon DEF ReadFails, cvars, ovars, FlagsOK
<1>8. CASE ReadRequest
  BY <1>8, <1>a, <1>b, NextRequest, Zenon
  DEF ReadRequest, Refuse, ovars, FlagsOK, NoContOf
<1>9. CASE ReadGarbage
  BY <1>9, <1>a, Zenon DEF ReadGarbage, Refuse, FlagsOK
<1>10. CASE CheckBackend
  BY <1>10, <1>a, Zenon DEF CheckBackend, cvars, ovars, FlagsOK
<1>11. CASE SelectFails
  BY <1>11, <1>a, Zenon DEF SelectFails, Refuse, cvars, FlagsOK
<1>12. CASE \E b \in Regular \cup Internal : select_backend(b)
  <2>1. PICK b \in Regular \cup Internal : select_backend(b)
    BY <1>12
  <2> QED
    BY <2>1, <1>a, Zenon
    DEF select_backend, cvars, ovars, FlagsOK
<1>13. CASE InternalReply
  BY <1>13, <1>a, Zenon DEF InternalReply, LogAs, Again, cvars, FlagsOK
<1>14. CASE InternalFails
  BY <1>14, <1>a, Zenon DEF InternalFails, HandlerFails, LogAs, cvars, ovars, FlagsOK
<1>15. CASE send_to_backend
  BY <1>15, <1>a, Zenon DEF send_to_backend, ovars, FlagsOK
<1>16. CASE SendFails
  BY <1>16, <1>a, Zenon DEF SendFails, HandlerFails, LogAs, cvars, FlagsOK
<1>17. CASE ResponseHead
  BY <1>17, <1>a, Zenon DEF ResponseHead, cvars, FlagsOK, NoContent
<1>18. CASE ResponseContinue
  BY <1>18, <1>a, Zenon DEF ResponseContinue, cvars, FlagsOK
<1>19. CASE ResponseFails
  BY <1>19, <1>a, Zenon DEF ResponseFails, HandlerFails, LogAs, cvars, FlagsOK
<1>20. CASE GiveUp
  BY <1>20, <1>a, Zenon DEF GiveUp, cvars, ovars, FlagsOK
<1>21. CASE NoBody
  BY <1>21, <1>a, Zenon DEF NoBody, ResponseEnds, LogAs, Again, cvars, FlagsOK
<1>22. CASE CopyBody
  BY <1>22, <1>a, Zenon DEF CopyBody, ResponseEnds, LogAs, Again, cvars, FlagsOK
<1>23. CASE CopyToEof
  BY <1>23, <1>a, Zenon DEF CopyToEof, ResponseEnds, LogAs, Again, cvars, FlagsOK
<1>24. CASE NotReadable
  BY <1>24, <1>a, Zenon DEF NotReadable, ResponseEnds, LogAs, Again, cvars, FlagsOK
<1> QED
  BY <1>1, <1>2, <1>3, <1>4, <1>5, <1>6, <1>7, <1>8, <1>9, <1>10, <1>11, <1>12, <1>13, <1>14,
     <1>15, <1>16, <1>17, <1>18, <1>19, <1>20, <1>21, <1>22, <1>23, <1>24, NextCases

(* What the backend has sent is responses, and content.                    *)
LEMMA ResponseRead ==
  ASSUME TypeOK, chan.out # <<>>
  PROVE  Head(chan.out) \in Parts(RespKinds) /\ Head(chan.out) = chan.out[1]
         /\ Head(chan.out).kind \in RespKinds /\ Tail(chan.out) \in Seq(Parts(RespKinds))
<1>1. chan.out \in Seq(Parts(RespKinds))
  BY DEF TypeOK, Channel
<1>2. /\ Head(chan.out) \in Parts(RespKinds) /\ Head(chan.out) = chan.out[1]
      /\ Tail(chan.out) \in Seq(Parts(RespKinds))
  BY <1>1
<1> QED
  BY <1>2 DEF Parts

(* do_http: where it is, what it reads and whom it talks to.               *)
WhereOK ==
  /\ sent \in Seq(ReqKinds) /\ Len(sent) =< MaxReq /\ cin \in Seq(Parts({NoResp}))
  /\ pc \in {"read", "check", "select", "internal", "send", "response", "body", "closed"}
  /\ cur \in 0 .. Len(sent) /\ (pc \notin {"read", "closed"} => cur > 0)
  /\ resp \in RespKinds \cup {NoResp} /\ (pc = "body" => resp # NoResp)
  /\ backend \in Regular \cup Internal \cup {None} /\ interims \in 0 .. MaxInterim

(* What the worker keeps of the request and response at hand keeps its     *)
(* type.                                                                   *)
LEMMA WhereStep ==
  ASSUME TypeOK, Streamed, Next
  PROVE  WhereOK'
<1>a. WhereOK
  BY Zenon DEF TypeOK, WhereOK
<1>1. CASE \E k \in ReqKinds : ClientSends(k)

  <2>1. PICK k \in ReqKinds : ClientSends(k)
    BY <1>1
  <2>2. Len(sent) + 1 \in 0 .. MaxReq
    BY <1>a, <2>1, HttpAssumption DEF WhereOK, ClientSends
  <2>3. /\ Part("head", Len(sent) + 1, NoResp) \in Parts({NoResp})
        /\ Part("body", Len(sent) + 1, NoResp) \in Parts({NoResp})
    BY <2>2 DEF Part, Parts
  <2>4. cin' \in Seq(Parts({NoResp}))
    <3> DEFINE head == Append(cin, Part("head", Len(sent) + 1, NoResp))
    <3>1. head \in Seq(Parts({NoResp}))
      BY <1>a, <2>3 DEF WhereOK
    <3>2. Append(head, Part("body", Len(sent) + 1, NoResp)) \in Seq(Parts({NoResp}))
      BY <3>1, <2>3
    <3> QED
      BY <2>1, <3>1, <3>2, Zenon DEF ClientSends
  <2> QED
    BY <2>1, <2>2, <2>4, <1>a, HttpAssumption DEF ClientSends, pvars, ovars, WhereOK
<1>2. CASE \E k \in RespKinds : BackendInterim(k)
  <2>1. PICK k \in RespKinds : BackendInterim(k)
    BY <1>2
  <2> QED
    BY <2>1, <1>a, HttpAssumption
    DEF BackendInterim, Ready, cvars, pvars, ovars, WhereOK
<1>3. CASE \E k \in RespKinds : BackendResponds(k)
  <2>1. PICK k \in RespKinds : BackendResponds(k)
    BY <1>3
  <2> QED
    BY <2>1, <1>a, HttpAssumption
    DEF BackendResponds, Ready, cvars, pvars, ovars, WhereOK
<1>4. CASE ClientCloses
  BY <1>4, <1>a, HttpAssumption DEF ClientCloses, pvars, ovars, WhereOK
<1>5. CASE BackendBody
  BY <1>5, <1>a, HttpAssumption DEF BackendBody, cvars, pvars, ovars, WhereOK
<1>6. CASE BackendCloses
  BY <1>6, <1>a, HttpAssumption DEF BackendCloses, cvars, pvars, ovars, WhereOK
<1>7. CASE ReadFails
  BY <1>7, <1>a, HttpAssumption DEF ReadFails, cvars, ovars, WhereOK
<1>8. CASE ReadRequest
  BY <1>8, <1>a, NextRequest DEF ReadRequest, Refuse, ovars, WhereOK
<1>9. CASE ReadGarbage
  BY <1>9, <1>a, HttpAssumption DEF ReadGarbage, Refuse, WhereOK
<1>10. CASE CheckBackend
  BY <1>10, <1>a, HttpAssumption DEF CheckBackend, cvars, ovars, WhereOK
<1>11. CASE SelectFails
  BY <1>11, <1>a, HttpAssumption DEF SelectFails, Refuse, cvars, WhereOK
<1>12. CASE \E b \in Regular \cup Internal : select_backend(b)
  <2>1. PICK b \in Regular \cup Internal : select_backend(b)
    BY <1>12
  <2> QED
    BY <2>1, <1>a, HttpAssumption
    DEF select_backend, cvars, ovars, WhereOK
<1>13. CASE InternalReply
  BY <1>13, <1>a, HttpAssumption DEF InternalReply, LogAs, Again, cvars, WhereOK
<1>14. CASE InternalFails
  BY <1>14, <1>a, HttpAssumption
  DEF InternalFails, HandlerFails, LogAs, cvars, ovars, WhereOK
<1>15. CASE send_to_backend

  <2>1. cin' \in Seq(Parts({NoResp}))
    BY <1>15, <1>a DEF send_to_backend, WhereOK
  <2> QED
    BY <1>15, <2>1, <1>a, HttpAssumption DEF send_to_backend, WhereOK
<1>16. CASE SendFails
  BY <1>16, <1>a, HttpAssumption DEF SendFails, HandlerFails, LogAs, cvars, WhereOK
<1>17. CASE ResponseHead

  <2>1. resp' \in RespKinds
    BY <1>17, ResponseRead DEF ResponseHead
  <2>2. NoResp \notin RespKinds
    BY HttpAssumption DEF Response, NoResp
  <2> QED
    BY <1>17, <2>1, <2>2, <1>a DEF ResponseHead, cvars, WhereOK
<1>18. CASE ResponseContinue
  BY <1>18, <1>a, HttpAssumption DEF ResponseContinue, cvars, WhereOK
<1>19. CASE ResponseFails
  BY <1>19, <1>a, HttpAssumption DEF ResponseFails, HandlerFails, LogAs, cvars, WhereOK
<1>20. CASE GiveUp
  BY <1>20, <1>a, HttpAssumption DEF GiveUp, cvars, ovars, WhereOK
<1>21. CASE NoBody
  BY <1>21, <1>a, HttpAssumption DEF NoBody, ResponseEnds, LogAs, Again, cvars, WhereOK
<1>22. CASE CopyBody
  BY <1>22, <1>a, HttpAssumption
  DEF CopyBody, ResponseEnds, LogAs, Again, cvars, WhereOK
<1>23. CASE CopyToEof
  BY <1>23, <1>a, HttpAssumption
  DEF CopyToEof, ResponseEnds, LogAs, Again, cvars, WhereOK
<1>24. CASE NotReadable
  BY <1>24, <1>a, HttpAssumption
  DEF NotReadable, ResponseEnds, LogAs, Again, cvars, WhereOK
<1> QED
  BY <1>1, <1>2, <1>3, <1>4, <1>5, <1>6, <1>7, <1>8, <1>9, <1>10, <1>11, <1>12, <1>13, <1>14,
     <1>15, <1>16, <1>17, <1>18, <1>19, <1>20, <1>21, <1>22, <1>23, <1>24, NextCases

(* The connection to the backend, and how steps change it.                 *)
ChanOK ==
  /\ chan \in Channel /\ (chan = NoChan \/ chan.open)
  /\ pc \in {"send", "response", "body"} => chan.open

WithIn(c, i) == [c EXCEPT !.in = i]
WithOut(c, r) == [c EXCEPT !.out = r]
Responding(c, r, i, f, b) == [c EXCEPT !.out = r, !.in = i, !.of = f, !.body = b]
BodySent(c, r, e) == [c EXCEPT !.out = r, !.body = NoResp, !.eof = e]
EofSent(c) == [c EXCEPT !.eof = TRUE, !.body = NoResp]

(* A channel with other requests in it.                                    *)
LEMMA WithInChan ==
  ASSUME NEW c \in Channel, NEW i \in Seq(1 .. MaxReq)
  PROVE  /\ WithIn(c, i) \in Channel /\ WithIn(c, i).open = c.open /\ WithIn(c, i).in = i
         /\ WithIn(c, i).out = c.out /\ WithIn(c, i).body = c.body /\ WithIn(c, i).of = c.of
         /\ WithIn(c, i).eof = c.eof
  BY Zenon DEF Channel, WithIn

(* A channel with other responses in it.                                   *)
LEMMA WithOutChan ==
  ASSUME NEW c \in Channel, NEW r \in Seq(Parts(RespKinds))
  PROVE  /\ WithOut(c, r) \in Channel /\ WithOut(c, r).open = c.open /\ WithOut(c, r).out = r
         /\ WithOut(c, r).in = c.in /\ WithOut(c, r).body = c.body /\ WithOut(c, r).of = c.of
         /\ WithOut(c, r).eof = c.eof
  BY Zenon DEF Channel, WithOut

(* A channel on which the backend begins a response.                       *)
LEMMA RespondingChan ==
  ASSUME NEW c \in Channel, NEW r \in Seq(Parts(RespKinds)), NEW i \in Seq(1 .. MaxReq),
         NEW f \in 0 .. MaxReq, NEW b \in RespKinds \cup {NoResp}
  PROVE  /\ Responding(c, r, i, f, b) \in Channel /\ Responding(c, r, i, f, b).open = c.open
         /\ Responding(c, r, i, f, b).out = r /\ Responding(c, r, i, f, b).in = i
         /\ Responding(c, r, i, f, b).body = b /\ Responding(c, r, i, f, b).of = f
  BY Zenon DEF Channel, Responding

(* A channel on which the backend has sent a body.                         *)
LEMMA BodySentChan ==
  ASSUME NEW c \in Channel, NEW r \in Seq(Parts(RespKinds)), NEW e \in BOOLEAN
  PROVE  /\ BodySent(c, r, e) \in Channel /\ BodySent(c, r, e).open = c.open
         /\ BodySent(c, r, e).out = r /\ BodySent(c, r, e).in = c.in
         /\ BodySent(c, r, e).body = NoResp /\ BodySent(c, r, e).of = c.of
  <1>1. NoResp \in RespKinds \cup {NoResp}
    OBVIOUS
  <1> QED
    BY <1>1, Zenon DEF Channel, BodySent

(* A channel that the backend has closed.                                  *)
LEMMA EofSentChan ==
  ASSUME NEW c \in Channel
  PROVE  /\ EofSent(c) \in Channel /\ EofSent(c).open = c.open /\ EofSent(c).out = c.out
         /\ EofSent(c).in = c.in /\ EofSent(c).body = NoResp
  <1>1. NoResp \in RespKinds \cup {NoResp} /\ TRUE \in BOOLEAN
    OBVIOUS
  <1> QED
    BY <1>1, Zenon DEF Channel, EofSent

(* The parts of the connection, for the provers.                           *)
LEMMA ChanFields ==
  ASSUME TypeOK
  PROVE  /\ chan.in \in Seq(1 .. MaxReq) /\ chan.out \in Seq(Parts(RespKinds))
         /\ chan.body \in RespKinds \cup {NoResp} /\ chan.of \in 0 .. MaxReq
<1>1. chan \in Channel
  BY DEF TypeOK
<1> QED
  BY <1>1, Zenon DEF Channel

(* What each step does to the connection.                                  *)
LEMMA InterimEffect ==
  ASSUME TypeOK, NEW k \in RespKinds, BackendInterim(k)
  PROVE  /\ chan' \in Channel /\ chan'.open
         /\ chan'.out = Append(chan.out, Part("head", Head(chan.in), k))
         /\ chan'.in = chan.in /\ chan'.body = chan.body /\ chan'.of = chan.of
<1>1. chan \in Channel /\ chan.open
  BY DEF TypeOK, BackendInterim, Ready
<1>2. Head(chan.in) \in 0 .. MaxReq
  BY ChanFields, HttpAssumption DEF BackendInterim, Ready
<1>3. Part("head", Head(chan.in), k) \in Parts(RespKinds)
  BY <1>2 DEF Part, Parts
<1>4. Append(chan.out, Part("head", Head(chan.in), k)) \in Seq(Parts(RespKinds))
  BY <1>3, ChanFields
<1>5. chan' = WithOut(chan, Append(chan.out, Part("head", Head(chan.in), k)))
  BY Zenon DEF BackendInterim, WithOut
<1> QED
  BY <1>1, <1>4, <1>5, WithOutChan, Zenon

(* The backend sends the head of the response to its oldest request.       *)
LEMMA RespondsEffect ==
  ASSUME TypeOK, NEW k \in RespKinds, BackendResponds(k)
  PROVE  /\ chan' \in Channel /\ chan'.open
         /\ chan'.out = Append(chan.out, Part("head", Head(chan.in), k))
         /\ chan'.in = Tail(chan.in) /\ chan'.of = Head(chan.in)
         /\ chan'.body = IF k.status = "2xx" /\ ~sent[Head(chan.in)].head THEN k ELSE NoResp
<1> DEFINE body == IF k.status = "2xx" /\ ~sent[Head(chan.in)].head THEN k ELSE NoResp
           rest == Append(chan.out, Part("head", Head(chan.in), k))
<1>1. chan \in Channel /\ chan.open
  BY DEF TypeOK, BackendResponds, Ready
<1>0. chan.in # <<>>
  BY Zenon DEF BackendResponds, Ready
<1>2. Head(chan.in) \in 0 .. MaxReq /\ Tail(chan.in) \in Seq(1 .. MaxReq)
  <2>1. Head(chan.in) \in 1 .. MaxReq /\ Tail(chan.in) \in Seq(1 .. MaxReq)
    BY <1>0, ChanFields, HeadAndTail, Zenon
  <2> QED
    BY <2>1, HttpAssumption
<1>3. Part("head", Head(chan.in), k) \in Parts(RespKinds)
  BY <1>2 DEF Part, Parts
<1>4. rest \in Seq(Parts(RespKinds))
  BY <1>3, ChanFields
<1>5. body \in RespKinds \cup {NoResp}
  OBVIOUS
<1>6. chan' = Responding(chan, rest, Tail(chan.in), Head(chan.in), body)
  BY Zenon DEF BackendResponds, Responding
<1> HIDE DEF body, rest
<1>7. \A i \in Seq(1 .. MaxReq), f \in 0 .. MaxReq :
        /\ Responding(chan, rest, i, f, body) \in Channel /\ Responding(chan, rest, i, f, body).open
        /\ Responding(chan, rest, i, f, body).out = rest
        /\ Responding(chan, rest, i, f, body).in = i /\ Responding(chan, rest, i, f, body).of = f
        /\ Responding(chan, rest, i, f, body).body = body
  BY <1>1, <1>4, <1>5, RespondingChan, SMT
<1>8. /\ chan' \in Channel /\ chan'.open /\ chan'.out = rest
      /\ chan'.in = Tail(chan.in) /\ chan'.of = Head(chan.in) /\ chan'.body = body
  BY <1>2, <1>6, <1>7, Zenon
<1> QED
  BY <1>8 DEF body, rest

(* The backend sends the body of the response that it has begun.           *)
LEMMA BodyEffect ==
  ASSUME TypeOK, BackendBody
  PROVE  /\ chan' \in Channel /\ chan'.open
         /\ chan'.out = Append(chan.out, Part("body", chan.of, chan.body))
         /\ chan'.in = chan.in /\ chan'.body = NoResp /\ chan'.of = chan.of
         /\ chan.body \in RespKinds
<1>1. chan.body # NoResp
  BY DEF BackendBody
<1>2. chan \in Channel /\ chan.open /\ chan.body \in RespKinds
  BY <1>1, ChanFields DEF TypeOK, NoChan
<1>3. Part("body", chan.of, chan.body) \in Parts(RespKinds)
  BY <1>2, ChanFields DEF Part, Parts
<1>4. Append(chan.out, Part("body", chan.of, chan.body)) \in Seq(Parts(RespKinds))
  BY <1>3, ChanFields
<1>5. (chan.body.frame = "eof") \in BOOLEAN
  OBVIOUS
<1>6. chan' = BodySent(chan, Append(chan.out, Part("body", chan.of, chan.body)),
                       chan.body.frame = "eof")
  BY Zenon DEF BackendBody, BodySent
<1> QED
  BY <1>2, <1>4, <1>5, <1>6, BodySentChan, Zenon

(* The backend closes the connection: what it has sent is still there.     *)
LEMMA CloseEffect ==
  ASSUME TypeOK, BackendCloses
  PROVE  /\ chan' \in Channel /\ chan'.open /\ chan'.out = chan.out
         /\ chan'.in = chan.in /\ chan'.body = NoResp
<1>1. chan \in Channel /\ chan.open
  BY DEF TypeOK, BackendCloses
<1>2. chan' = EofSent(chan)
  BY Zenon DEF BackendCloses, EofSent
<1> QED
  BY <1>1, <1>2, EofSentChan, Zenon

(* The worker passes its request on to the backend.                        *)
LEMMA SendEffect ==
  ASSUME TypeOK, send_to_backend
  PROVE  /\ chan' \in Channel /\ chan'.open /\ chan'.out = chan.out
         /\ chan'.in = Append(chan.in, cur) /\ chan'.body = chan.body
<1>1. chan \in Channel /\ chan.open /\ cur \in 1 .. MaxReq
  BY HttpAssumption DEF TypeOK, send_to_backend
<1>2. Append(chan.in, cur) \in Seq(1 .. MaxReq)
  BY <1>1, ChanFields
<1>3. chan' = WithIn(chan, Append(chan.in, cur))
  BY Zenon DEF send_to_backend, WithIn
<1> QED
  BY <1>1, <1>2, <1>3, WithInChan, Zenon

(* The worker takes a head off what the backend has sent.                  *)
LEMMA TakeEffect ==
  ASSUME TypeOK, ResponseHead \/ ResponseContinue
  PROVE  /\ chan' \in Channel /\ chan'.open /\ chan'.out = Tail(chan.out)
         /\ chan'.in = chan.in /\ chan'.body = chan.body /\ chan'.of = chan.of
<1>1. chan \in Channel /\ chan.open /\ chan.out # <<>>
  BY DEF TypeOK, ResponseHead, ResponseContinue
<1>2. Tail(chan.out) \in Seq(Parts(RespKinds))
  BY <1>1, ResponseRead
<1>3. chan' = WithOut(chan, Tail(chan.out))
  BY Zenon DEF ResponseHead, ResponseContinue, WithOut
<1> QED
  BY <1>1, <1>2, <1>3, WithOutChan, Zenon

(* The end of a response: the channel stays, less what was read, or is     *)
(* closed.                                                                 *)
LEMMA EndEffect ==
  ASSUME TypeOK, pc = "body", NEW v, NEW cl, NEW r \in Seq(Parts(RespKinds)), ResponseEnds(v, cl, r)
  PROVE  /\ chan' \in Channel
         /\ \/ /\ chan'.open /\ chan'.out = r /\ chan'.in = chan.in /\ chan'.body = chan.body
               /\ chan'.of = chan.of
            \/ chan' = NoChan /\ pc' \in {"read", "closed"}
<1>1. chan \in Channel /\ chan.open
  BY DEF TypeOK
<1>2. chan' = WithOut(chan, r) \/ (chan' = NoChan /\ pc' \in {"read", "closed"})
  BY Zenon DEF ResponseEnds, Again, close_backend, WithOut
<1>3. NoChan \in Channel
  BY HttpAssumption DEF NoChan, Channel
<1>4. CASE chan' = WithOut(chan, r)
  BY <1>1, <1>4, WithOutChan, Zenon
<1> QED
  BY <1>2, <1>3, <1>4, Zenon

(* The connection to the backend keeps its type.                           *)
LEMMA ChanStep ==
  ASSUME TypeOK, Streamed, Next
  PROVE  ChanOK'
<1>a. ChanOK
  BY Zenon DEF TypeOK, ChanOK
<1>b. NoChan \in Channel /\ Fresh \in Channel /\ Fresh.open
  <2>1. NoChan \in Channel
    BY HttpAssumption DEF NoChan, Channel
  <2> QED
    BY <2>1, Zenon DEF Fresh, Channel
<1>1. CASE \E k \in ReqKinds : ClientSends(k)
  <2>1. PICK k \in ReqKinds : ClientSends(k)
    BY <1>1
  <2> QED
    BY <2>1, <1>a, Zenon
    DEF ClientSends, pvars, ovars, ChanOK
<1>2. CASE \E k \in RespKinds : BackendInterim(k)

  <2>1. PICK k \in RespKinds : BackendInterim(k)
    BY <1>2
  <2> QED
    BY <2>1, InterimEffect, Zenon DEF ChanOK
<1>3. CASE \E k \in RespKinds : BackendResponds(k)

  <2>1. PICK k \in RespKinds : BackendResponds(k)
    BY <1>3
  <2> QED
    BY <2>1, RespondsEffect, Zenon DEF ChanOK
<1>4. CASE ClientCloses
  BY <1>4, <1>a, Zenon DEF ClientCloses, pvars, ovars, ChanOK
<1>5. CASE BackendBody
  BY <1>5, BodyEffect, Zenon DEF ChanOK
<1>6. CASE BackendCloses
  BY <1>6, CloseEffect, Zenon DEF ChanOK
<1>7. CASE ReadFails
  BY <1>7, <1>a, Zenon DEF ReadFails, cvars, ovars, ChanOK
<1>8. CASE ReadRequest
  BY <1>8, <1>a, Zenon DEF ReadRequest, Refuse, ovars, ChanOK
<1>9. CASE ReadGarbage
  BY <1>9, <1>a, Zenon DEF ReadGarbage, Refuse, ChanOK
<1>10. CASE CheckBackend
  BY <1>10, <1>a, <1>b, Zenon DEF CheckBackend, cvars, ovars, ChanOK, close_backend
<1>11. CASE SelectFails
  BY <1>11, <1>a, Zenon DEF SelectFails, Refuse, cvars, ChanOK
<1>12. CASE \E b \in Regular \cup Internal : select_backend(b)
  <2>1. PICK b \in Regular \cup Internal : select_backend(b)
    BY <1>12
  <2> QED
    BY <2>1, <1>a, <1>b, Zenon
    DEF select_backend, cvars, ovars, ChanOK, close_backend
<1>13. CASE InternalReply
  BY <1>13, <1>a, Zenon DEF InternalReply, LogAs, Again, cvars, ChanOK
<1>14. CASE InternalFails
  BY <1>14, <1>a, Zenon DEF InternalFails, HandlerFails, LogAs, cvars, ovars, ChanOK
<1>15. CASE send_to_backend
  BY <1>15, SendEffect, Zenon DEF ChanOK
<1>16. CASE SendFails
  BY <1>16, <1>a, Zenon DEF SendFails, HandlerFails, LogAs, cvars, ChanOK
<1>17. CASE ResponseHead
  BY <1>17, TakeEffect, Zenon DEF ChanOK
<1>18. CASE ResponseContinue
  BY <1>18, TakeEffect, Zenon DEF ChanOK
<1>19. CASE ResponseFails
  BY <1>19, <1>a, Zenon DEF ResponseFails, HandlerFails, LogAs, cvars, ChanOK
<1>20. CASE GiveUp
  BY <1>20, <1>a, Zenon DEF GiveUp, cvars, ovars, ChanOK
<1>21. CASE NoBody

  <2>1. chan.out \in Seq(Parts(RespKinds))
    BY <1>21, ChanFields
  <2>2. pc = "body" /\ \E v, cl : ResponseEnds(v, cl, chan.out)
    BY <1>21, Zenon DEF NoBody
  <2> QED
    BY <2>1, <2>2, EndEffect, Zenon DEF ChanOK
<1>22. CASE CopyBody

  <2>1. Tail(chan.out) \in Seq(Parts(RespKinds))
    BY <1>22, ChanFields, ResponseRead DEF CopyBody
  <2>2. pc = "body" /\ \E v, cl : ResponseEnds(v, cl, Tail(chan.out))
    BY <1>22, Zenon DEF CopyBody
  <2> QED
    BY <2>1, <2>2, EndEffect, Zenon DEF ChanOK
<1>23. CASE CopyToEof

  <2>1. <<>> \in Seq(Parts(RespKinds))
    BY <1>23, ChanFields
  <2>2. pc = "body" /\ \E v, cl : ResponseEnds(v, cl, <<>>)
    BY <1>23, Zenon DEF CopyToEof
  <2> QED
    BY <2>1, <2>2, EndEffect, Zenon DEF ChanOK
<1>24. CASE NotReadable

  <2>1. chan.out \in Seq(Parts(RespKinds))
    BY <1>24, ChanFields
  <2>2. pc = "body" /\ \E v, cl : ResponseEnds(v, cl, chan.out)
    BY <1>24, Zenon DEF NotReadable
  <2> QED
    BY <2>1, <2>2, EndEffect, Zenon DEF ChanOK
<1> QED
  BY <1>1, <1>2, <1>3, <1>4, <1>5, <1>6, <1>7, <1>8, <1>9, <1>10, <1>11, <1>12, <1>13, <1>14,
     <1>15, <1>16, <1>17, <1>18, <1>19, <1>20, <1>21, <1>22, <1>23, <1>24, NextCases

(* What the client is sent, and what is logged.                            *)
OutOK ==
  /\ out \in Seq(Outputs) /\ response_code \in Codes /\ log \in Seq(Lines)
  /\ hist \subseteq {"misread", "left", "mispaired", "loose", "broken", "swallowed", "pending"}

(* What the worker writes to the client is an output.                      *)
LEMMA AnswerType ==
  ASSUME TypeOK, NEW i \in 0 .. MaxReq, NEW w \in {"interim", "final", "error"}
  PROVE  Answer(w, i) \in Seq(Outputs)
<1>1. [to |-> i, what |-> w] \in Outputs
  BY DEF Outputs
<1>2. out \in Seq(Outputs)
  BY DEF TypeOK
<1> QED
  BY <1>1, <1>2 DEF Answer

(* A line of the log has its type.                                         *)
LEMMA LogType ==
  ASSUME TypeOK, NEW rc \in Codes, NEW status \in Codes, LogAs(rc, status)
  PROVE  response_code' \in Codes /\ log' \in Seq(Lines)
<1> DEFINE code == IF rc = "0" THEN status ELSE rc
<1>1. code \in Codes
  OBVIOUS
<1>2. response_code' = code /\ log' = Append(log, [id |-> cur, sent |-> status, logged |-> code])
  BY DEF LogAs
<1> HIDE DEF code
<1>3. cur \in 0 .. MaxReq
  BY HttpAssumption DEF TypeOK
<1>4. [id |-> cur, sent |-> status, logged |-> code] \in Lines
  BY <1>1, <1>3 DEF Lines
<1> QED
  BY <1>1, <1>2, <1>4 DEF TypeOK

(* A handler fails: the types of what it leaves.                           *)
LEMMA FailsType ==
  ASSUME TypeOK, NEW rc \in Codes, HandlerFails(rc)
  PROVE  out' \in Seq(Outputs) /\ response_code' \in Codes /\ log' \in Seq(Lines)
<1>1. cur \in 0 .. MaxReq /\ "err" \in Codes
  BY HttpAssumption DEF TypeOK, Codes
<1>2. out' \in Seq(Outputs)
  BY <1>1, AnswerType, Zenon DEF HandlerFails
<1>3. LogAs(rc, "err")
  BY Zenon DEF HandlerFails
<1> QED
  BY <1>1, <1>2, <1>3, LogType, Zenon

(* The output, the log and the history keep their types.                   *)
LEMMA OutStep ==
  ASSUME TypeOK, Streamed, Next
  PROVE  OutOK'
<1>a. OutOK
  BY Zenon DEF TypeOK, OutOK
<1>b. cur \in 0 .. MaxReq
  BY HttpAssumption DEF TypeOK
<1>1. CASE \E k \in ReqKinds : ClientSends(k)
  <2>1. PICK k \in ReqKinds : ClientSends(k)
    BY <1>1
  <2> QED
    BY <2>1, <1>a, <1>b, AnswerType, LogType
    DEF ClientSends, pvars, ovars, OutOK
<1>2. CASE \E k \in RespKinds : BackendInterim(k)
  <2>1. PICK k \in RespKinds : BackendInterim(k)
    BY <1>2
  <2> QED
    BY <2>1, <1>a, <1>b, AnswerType, LogType
    DEF BackendInterim, Ready, pvars, ovars, OutOK
<1>3. CASE \E k \in RespKinds : BackendResponds(k)
  <2>1. PICK k \in RespKinds : BackendResponds(k)
    BY <1>3
  <2> QED
    BY <2>1, <1>a, <1>b, AnswerType, LogType
    DEF BackendResponds, Ready, pvars, ovars, OutOK
<1>4. CASE ClientCloses
  BY <1>4, <1>a, <1>b, AnswerType, LogType DEF ClientCloses, pvars, ovars, OutOK
<1>5. CASE BackendBody
  BY <1>5, <1>a, <1>b, AnswerType, LogType DEF BackendBody, pvars, ovars, OutOK
<1>6. CASE BackendCloses
  BY <1>6, <1>a, <1>b, AnswerType, LogType DEF BackendCloses, pvars, ovars, OutOK
<1>7. CASE ReadFails
  BY <1>7, <1>a, <1>b, AnswerType, LogType DEF ReadFails, ovars, OutOK
<1>8. CASE ReadRequest
  BY <1>8, <1>a, <1>b, AnswerType, NextRequest DEF ReadRequest, Refuse, ovars, OutOK
<1>9. CASE ReadGarbage
  BY <1>9, <1>a, AnswerType, HttpAssumption DEF ReadGarbage, Refuse, OutOK
<1>10. CASE CheckBackend
  BY <1>10, <1>a, <1>b, AnswerType, LogType DEF CheckBackend, ovars, OutOK
<1>11. CASE SelectFails
  BY <1>11, <1>a, <1>b, AnswerType, LogType DEF SelectFails, Refuse, OutOK
<1>12. CASE \E b \in Regular \cup Internal : select_backend(b)
  <2>1. PICK b \in Regular \cup Internal : select_backend(b)
    BY <1>12
  <2> QED
    BY <2>1, <1>a, <1>b, AnswerType, LogType
    DEF select_backend, ovars, OutOK
<1>13. CASE InternalReply

  <2>1. CodeLeft(backend) \in Codes /\ "set" \in Codes
    BY <1>a DEF CodeLeft, OutOK, Codes
  <2>2. LogAs(CodeLeft(backend), "set")
    BY <1>13, Zenon DEF InternalReply
  <2>3. response_code' \in Codes /\ log' \in Seq(Lines)
    BY <2>1, <2>2, LogType, Zenon
  <2>4. out' \in Seq(Outputs)
    BY <1>13, <1>b, AnswerType, Zenon DEF InternalReply
  <2> QED
    BY <1>13, <1>a, <2>3, <2>4 DEF InternalReply, OutOK
<1>14. CASE InternalFails

  <2>1. /\ response_code \in Codes /\ "0" \in Codes /\ "set" \in Codes /\ "err" \in Codes
        /\ hist' \subseteq hist \cup {"broken"}
    BY <1>14, <1>a DEF OutOK, InternalFails, Codes
  <2>2. CASE HandlerFails(response_code) \/ HandlerFails("0")
    BY <1>a, <2>1, <2>2, FailsType DEF OutOK
  <2>3. CASE UNCHANGED ovars
    BY <1>a, <2>1, <2>3 DEF OutOK, ovars
  <2>4. CASE LogAs("set", "err") /\ out' = Answer("final", cur) \o <<[to |-> cur, what |-> "error"]>>
    <3>1. response_code' \in Codes /\ log' \in Seq(Lines)
      BY <2>1, <2>4, LogType, Zenon
    <3>2. [to |-> cur, what |-> "error"] \in Outputs /\ Answer("final", cur) \in Seq(Outputs)
      BY <1>b, AnswerType DEF Outputs
    <3>3. out' \in Seq(Outputs)
      BY <2>4, <3>2
    <3> QED
      BY <1>a, <2>1, <3>1, <3>3 DEF OutOK
  <2> QED
    BY <1>14, <2>2, <2>3, <2>4, Zenon DEF InternalFails
<1>15. CASE send_to_backend
  BY <1>15, <1>a, <1>b, AnswerType, LogType DEF send_to_backend, ovars, OutOK
<1>16. CASE SendFails

  <2>1. HandlerFails(response_code) /\ hist' = hist
    BY <1>16, Zenon DEF SendFails
  <2> QED
    BY <1>a, <2>1, FailsType, Zenon DEF OutOK
<1>17. CASE ResponseHead

  <2>1. response_code' \in Codes
    BY <1>17, ResponseRead, HttpAssumption DEF ResponseHead, Response, Codes
  <2>2. out' \in Seq(Outputs)
    BY <1>17, <1>a, <1>b, AnswerType, Zenon DEF ResponseHead, OutOK
  <2> QED
    BY <1>17, <1>a, <2>1, <2>2 DEF ResponseHead, OutOK
<1>18. CASE ResponseContinue
  BY <1>18, <1>a DEF ResponseContinue, OutOK, Codes
<1>19. CASE ResponseFails

  <2>1. HandlerFails(response_code)
    BY <1>19, Zenon DEF ResponseFails
  <2>2. hist' \subseteq hist \cup {"mispaired"}
    BY <1>19 DEF ResponseFails
  <2>3. out' \in Seq(Outputs) /\ response_code' \in Codes /\ log' \in Seq(Lines)
    BY <1>a, <2>1, FailsType, Zenon DEF OutOK
  <2> QED
    BY <1>a, <2>2, <2>3 DEF OutOK
<1>20. CASE GiveUp
  BY <1>20, <1>a, <1>b, AnswerType, LogType DEF GiveUp, ovars, OutOK
<1>21. CASE NoBody
  BY <1>21, <1>a, <1>b, AnswerType, LogType DEF NoBody, ResponseEnds, Again, OutOK
<1>22. CASE CopyBody
  BY <1>22, <1>a, <1>b, AnswerType, LogType DEF CopyBody, ResponseEnds, Again, OutOK
<1>23. CASE CopyToEof
  BY <1>23, <1>a, <1>b, AnswerType, LogType DEF CopyToEof, ResponseEnds, Again, OutOK
<1>24. CASE NotReadable
  BY <1>24, <1>a, <1>b, AnswerType, LogType DEF NotReadable, ResponseEnds, Again, OutOK
<1> QED
  BY <1>1, <1>2, <1>3, <1>4, <1>5, <1>6, <1>7, <1>8, <1>9, <1>10, <1>11, <1>12, <1>13, <1>14,
     <1>15, <1>16, <1>17, <1>18, <1>19, <1>20, <1>21, <1>22, <1>23, <1>24, NextCases

(* Every step keeps the types.                                             *)
LEMMA TypeStep ==
  ASSUME TypeOK, Streamed, [Next]_vars
  PROVE  TypeOK'
<1>1. CASE UNCHANGED vars
  BY <1>1, Zenon DEF vars, cvars, pvars, ovars, TypeOK
<1>2. CASE Next
  BY <1>2, FlagsStep, WhereStep, ChanStep, OutStep, Zenon
     DEF FlagsOK, WhereOK, ChanOK, OutOK, TypeOK
<1> QED
  BY <1>1, <1>2

-----------------------------------------------------------------------------
(* Which steps move the stream from the client.                            *)
Still ==
  /\ UNCHANGED <<sent, cin, cur>>
  /\ ceof' = ceof \/ ceof' = TRUE

(* Only a client that sends, and a worker that reads, change the stream of *)
(* requests; nothing happens once the connection is closed.                *)
LEMMA StreamCases ==
  ASSUME Next
  PROVE  /\ pc # "closed"
         /\ \/ \E k \in ReqKinds : ClientSends(k)
            \/ ReadRequest \/ ReadGarbage \/ send_to_backend \/ Still
<1>1. CASE \E k \in ReqKinds : ClientSends(k)

  BY <1>1, Zenon DEF ClientSends
<1>2. CASE \E k \in RespKinds : BackendInterim(k)
  <2>1. PICK k \in RespKinds : BackendInterim(k)
    BY <1>2
  <2> QED
    BY <2>1, Zenon
    DEF BackendInterim, Ready, cvars, pvars, ovars, Still
<1>3. CASE \E k \in RespKinds : BackendResponds(k)
  <2>1. PICK k \in RespKinds : BackendResponds(k)
    BY <1>3
  <2> QED
    BY <2>1, Zenon
    DEF BackendResponds, Ready, cvars, pvars, ovars, Still
<1>4. CASE ClientCloses
  BY <1>4, Zenon DEF ClientCloses, pvars, ovars, Still
<1>5. CASE BackendBody
  BY <1>5, Zenon DEF BackendBody, cvars, pvars, ovars, Still
<1>6. CASE BackendCloses
  BY <1>6, Zenon DEF BackendCloses, cvars, pvars, ovars, Still
<1>7. CASE ReadFails
  BY <1>7, Zenon DEF ReadFails, cvars, ovars, Still
<1>8. CASE ReadRequest
  BY <1>8, Zenon DEF ReadRequest, Refuse, ovars, Still
<1>9. CASE ReadGarbage
  BY <1>9, Zenon DEF ReadGarbage, Refuse, Still
<1>10. CASE CheckBackend
  BY <1>10, Zenon DEF CheckBackend, cvars, ovars, Still
<1>11. CASE SelectFails
  BY <1>11, Zenon DEF SelectFails, Refuse, cvars, Still
<1>12. CASE \E b \in Regular \cup Internal : select_backend(b)
  <2>1. PICK b \in Regular \cup Internal : select_backend(b)
    BY <1>12
  <2> QED
    BY <2>1, Zenon
    DEF select_backend, cvars, ovars, Still
<1>13. CASE InternalReply
  BY <1>13, Zenon DEF InternalReply, Again, cvars, Still
<1>14. CASE InternalFails
  BY <1>14, Zenon DEF InternalFails, HandlerFails, cvars, ovars, Still
<1>15. CASE send_to_backend
  BY <1>15, Zenon DEF send_to_backend, ovars, Still
<1>16. CASE SendFails
  BY <1>16, Zenon DEF SendFails, HandlerFails, cvars, Still
<1>17. CASE ResponseHead
  BY <1>17, Zenon DEF ResponseHead, cvars, Still
<1>18. CASE ResponseContinue
  BY <1>18, Zenon DEF ResponseContinue, cvars, Still
<1>19. CASE ResponseFails
  BY <1>19, Zenon DEF ResponseFails, HandlerFails, cvars, Still
<1>20. CASE GiveUp
  BY <1>20, Zenon DEF GiveUp, cvars, ovars, Still
<1>21. CASE NoBody
  BY <1>21, Zenon DEF NoBody, ResponseEnds, Again, cvars, Still
<1>22. CASE CopyBody
  BY <1>22, Zenon DEF CopyBody, ResponseEnds, Again, cvars, Still
<1>23. CASE CopyToEof
  BY <1>23, Zenon DEF CopyToEof, ResponseEnds, Again, cvars, Still
<1>24. CASE NotReadable
  BY <1>24, Zenon DEF NotReadable, ResponseEnds, Again, cvars, Still
<1> QED
  BY <1>1, <1>2, <1>3, <1>4, <1>5, <1>6, <1>7, <1>8, <1>9, <1>10, <1>11, <1>12, <1>13, <1>14,
     <1>15, <1>16, <1>17, <1>18, <1>19, <1>20, <1>21, <1>22, <1>23, <1>24, NextCases

(* Taking the first part off the stream leaves the rest as it was.         *)
LEMMA StreamTaken ==
  ASSUME TypeOK, Streamed, cin # <<>>, cin' = Tail(cin), sent' = sent, ceof' = ceof
  PROVE  Streamed'
<1> DEFINE n == Len(cin)
<1>1. /\ n \in Nat /\ n > 0 /\ Len(cin') = n - 1 /\ DOMAIN cin = 1 .. n /\ DOMAIN cin' = 1 .. n - 1
      /\ \A i \in 1 .. n - 1 : cin'[i] = cin[i + 1]
  BY HeadAndTail DEF TypeOK
<1>2. \A i \in 1 .. n - 1 : cin'[i].id \in 1 .. Len(sent')
  BY <1>1 DEF Streamed
<1>3. \A i \in 1 .. n - 1 : Carries(i)' <=> Carries(i + 1)
  BY <1>1 DEF Carries, HasBody
<1> HIDE DEF n
<1>4. \A i \in 1 .. n - 1 : Carries(i)' =>
         IF i < Len(cin') THEN cin'[i + 1].part = "body" ELSE ceof'
  BY <1>1, <1>3 DEF Streamed, n
<1>5. \A i \in 1 .. n - 1 : i > 1 /\ cin'[i].part = "body" => Carries(i - 1)'
  BY <1>1, <1>3 DEF Streamed, n
<1> QED
  BY <1>1, <1>2, <1>4, <1>5 DEF Streamed

(* A request that the client sends comes after what it has sent before.    *)
Extended(k) ==
  LET n == Len(cin)
      id == Len(sent) + 1
  IN  /\ ~ceof /\ sent' = Append(sent, k)
      /\ \A i \in 1 .. n : cin'[i] = cin[i]
      /\ cin'[n + 1].part = "head" /\ cin'[n + 1].id = id
      /\ IF HasBody(k)
         THEN \/ /\ DOMAIN cin' = 1 .. n + 2 /\ Len(cin') = n + 2
                 /\ cin'[n + 2].part = "body" /\ cin'[n + 2].id = id
              \/ DOMAIN cin' = 1 .. n + 1 /\ Len(cin') = n + 1 /\ ceof'
         ELSE DOMAIN cin' = 1 .. n + 1 /\ Len(cin') = n + 1

(* A client that sends extends the stream by a head, and by a body if the  *)
(* request has one, unless it closes in the middle.                        *)
LEMMA SendsExtended ==
  ASSUME TypeOK, NEW k \in ReqKinds, ClientSends(k)
  PROVE  Extended(k)
<1> DEFINE head == Part("head", Len(sent) + 1, NoResp)
           body == Part("body", Len(sent) + 1, NoResp)
<1>1. cin \in Seq(Parts({NoResp})) /\ sent \in Seq(ReqKinds)
  BY DEF TypeOK
<1>2. /\ head.part = "head" /\ head.id = Len(sent) + 1
      /\ body.part = "body" /\ body.id = Len(sent) + 1
  BY DEF Part
<1>3. /\ ~ceof /\ sent' = Append(sent, k)
      /\ \/ ~HasBody(k) /\ cin' = Append(cin, head)
         \/ HasBody(k) /\ cin' = Append(Append(cin, head), body)
         \/ HasBody(k) /\ cin' = Append(cin, head) /\ ceof'
  BY Zenon DEF ClientSends
<1> HIDE DEF head, body
<1>4. CASE cin' = Append(cin, head)
  BY <1>1, <1>2, <1>3, <1>4 DEF Extended
<1>5. CASE HasBody(k) /\ cin' = Append(Append(cin, head), body)
  BY <1>1, <1>2, <1>3, <1>5 DEF Extended
<1> QED
  BY <1>3, <1>4, <1>5

(* The stream stays well formed.                                           *)
LEMMA StreamedStep ==
  ASSUME TypeOK, Streamed, [Next]_vars
  PROVE  Streamed'
<1>1. CASE Still \/ UNCHANGED vars
  <2>1. UNCHANGED <<sent, cin>> /\ (ceof => ceof')
    BY <1>1 DEF Still, vars, cvars
  <2> QED
    BY <2>1 DEF Streamed, Carries, HasBody
<1>2. CASE \E k \in ReqKinds : ClientSends(k)
  <2>1. PICK k \in ReqKinds : Extended(k)
    BY <1>2, SendsExtended
  <2> DEFINE n == Len(cin)
             m == Len(sent)
  <2>2. n \in Nat /\ m \in Nat /\ DOMAIN cin = 1 .. n /\ DOMAIN sent = 1 .. m
    BY DEF TypeOK
  <2>3. Len(sent') = m + 1 /\ sent'[m + 1] = k /\ \A i \in 1 .. m : sent'[i] = sent[i]
    BY <2>1, <2>2 DEF Extended, TypeOK
  <2>4. \A i \in 1 .. n : cin'[i] = cin[i] /\ cin[i].id \in 1 .. m
    BY <2>1, <2>2 DEF Extended, Streamed
  <2>5. \A i \in 1 .. n : Carries(i)' <=> Carries(i)
    BY <2>3, <2>4 DEF Carries, HasBody
  <2>6. \A i : i = n + 1 => (Carries(i)' <=> HasBody(k))
    BY <2>1, <2>2, <2>3 DEF Carries, HasBody, Extended
  <2>7. \A i \in 1 .. n : Carries(i) => i < n /\ cin[i + 1].part = "body"
    BY <2>1, <2>2 DEF Extended, Streamed
  <2>8. \A i \in 1 .. n : i > 1 /\ cin[i].part = "body" => Carries(i - 1)
    BY <2>2 DEF Streamed
  <2> HIDE DEF n, m
  <2>9. \A i \in DOMAIN cin' : cin'[i].id \in 1 .. Len(sent')
    <3> SUFFICES ASSUME NEW i \in DOMAIN cin'
                 PROVE  cin'[i].id \in 1 .. Len(sent')
      OBVIOUS
    <3>1. CASE i \in 1 .. n
      BY <3>1, <2>2, <2>3, <2>4
    <3>2. CASE i = n + 1
      BY <3>2, <2>1, <2>2, <2>3 DEF Extended, n, m
    <3>3. CASE i = n + 2
      BY <3>3, <2>1, <2>2, <2>3 DEF Extended, n, m
    <3> QED
      BY <3>1, <3>2, <3>3, <2>1, <2>2 DEF Extended, n
  <2>10. \A i \in DOMAIN cin' :
           Carries(i)' => IF i < Len(cin') THEN cin'[i + 1].part = "body" ELSE ceof'
    <3> SUFFICES ASSUME NEW i \in DOMAIN cin', Carries(i)'
                 PROVE  IF i < Len(cin') THEN cin'[i + 1].part = "body" ELSE ceof'
      OBVIOUS
    <3>1. CASE i \in 1 .. n
      BY <3>1, <2>1, <2>2, <2>4, <2>5, <2>7 DEF Extended, n
    <3>2. CASE i = n + 1
      BY <3>2, <2>1, <2>2, <2>6 DEF Extended, n
    <3>3. CASE i = n + 2
      BY <3>3, <2>1, <2>2 DEF Extended, n, Carries
    <3> QED
      BY <3>1, <3>2, <3>3, <2>1, <2>2 DEF Extended, n
  <2>11. \A i \in DOMAIN cin' : i > 1 /\ cin'[i].part = "body" => Carries(i - 1)'
    <3> SUFFICES ASSUME NEW i \in DOMAIN cin', i > 1, cin'[i].part = "body"
                 PROVE  Carries(i - 1)'
      OBVIOUS
    <3>1. CASE i \in 1 .. n
      <4>1. Carries(i - 1) /\ i - 1 \in 1 .. n
        BY <3>1, <2>2, <2>4, <2>8
      <4> QED
        BY <4>1, <2>5
    <3>2. CASE i = n + 2 /\ HasBody(k)
      <4>1. i - 1 = n + 1
        BY <3>2, <2>2
      <4> QED
        BY <3>2, <4>1, <2>6
    <3> QED
      BY <3>1, <3>2, <2>1, <2>2 DEF Extended, n
  <2> QED
    BY <2>9, <2>10, <2>11 DEF Streamed
<1>3. CASE ReadRequest \/ ReadGarbage
  BY <1>3, StreamTaken DEF ReadRequest, ReadGarbage
<1>4. CASE send_to_backend
  <2>1. CASE cin' = cin
    BY <1>4, <2>1 DEF Streamed, Carries, HasBody, send_to_backend
  <2>2. CASE cin # <<>> /\ cin' = Tail(cin)
    BY <1>4, <2>2, StreamTaken DEF send_to_backend
  <2> QED
    BY <1>4, <2>1, <2>2 DEF send_to_backend
<1> QED
  BY <1>1, <1>2, <1>3, <1>4, StreamCases

(* Requests are numbered in the order in which the client sent them, and   *)
(* do_http takes them in that order.                                       *)
LEMMA NumberedStep ==
  ASSUME TypeOK, Streamed, Placed, Numbered, [Next]_vars
  PROVE  Numbered'
<1> DEFINE n == Len(cin)
           m == Len(sent)
<1>a. /\ n \in Nat /\ m \in Nat /\ DOMAIN cin = 1 .. n /\ (cin = <<>> <=> n = 0) /\ cur \in Nat
  BY DEF TypeOK
<1>b. \A i \in 1 .. n : cin[i].id \in Nat
  BY <1>a DEF Streamed, TypeOK
<1>1. CASE UNCHANGED vars
  BY <1>1 DEF vars, cvars, pvars, Numbered, IdAfter
<1>2. CASE Still /\ pc # "closed"
  BY <1>2 DEF Still, Numbered, IdAfter
<1>3. CASE \E k \in ReqKinds : ClientSends(k)
  <2>1. PICK k \in ReqKinds : ClientSends(k)
    BY <1>3
  <2>2. Extended(k) /\ pc # "closed" /\ pc' = pc /\ cur' = cur
    BY <2>1, SendsExtended DEF ClientSends, pvars
  <2>3. Len(sent') = m + 1 /\ (cin' # <<>>)
    BY <1>a, <2>2 DEF Extended, TypeOK
  <2>4. IF n = 0 THEN cur = m ELSE cin[1].id = IdAfter(cur, cin[1].part) /\ cin[n].id = m
    BY <1>a, <2>2 DEF Numbered
  <2>5. \A i \in 1 .. n - 1 : cin[i + 1].id = IdAfter(cin[i].id, cin[i + 1].part)
    BY <2>2 DEF Numbered
  <2> HIDE DEF n, m
  <2>6. cin'[1].id = IdAfter(cur', cin'[1].part)
    BY <1>a, <2>2, <2>4 DEF Extended, IdAfter, n, m
  <2>7. cin'[Len(cin')].id = Len(sent')
    BY <1>a, <2>2, <2>3 DEF Extended, n, m
  <2>8. \A i \in 1 .. Len(cin') - 1 : cin'[i + 1].id = IdAfter(cin'[i].id, cin'[i + 1].part)
    <3> SUFFICES ASSUME NEW i \in 1 .. Len(cin') - 1
                 PROVE  cin'[i + 1].id = IdAfter(cin'[i].id, cin'[i + 1].part)
      OBVIOUS
    <3>1. CASE i \in 1 .. n - 1
      BY <3>1, <1>a, <2>2, <2>5 DEF Extended, n
    <3>2. CASE i = n
      BY <3>2, <1>a, <2>2, <2>4 DEF Extended, IdAfter, n, m
    <3>3. CASE i = n + 1
      BY <3>3, <1>a, <2>2 DEF Extended, IdAfter, n, m
    <3>4. Len(cin') = n + 1 \/ Len(cin') = n + 2
      BY <2>2 DEF Extended, n
    <3> QED
      BY <3>1, <3>2, <3>3, <3>4, <1>a
  <2> QED
    BY <2>3, <2>6, <2>7, <2>8 DEF Numbered
<1>4. CASE ReadRequest \/ (send_to_backend /\ Copies(Req))
  <2>1. /\ pc # "closed" /\ cin # <<>> /\ cin' = Tail(cin) /\ sent' = sent /\ cur' = cin[1].id
    <3>1. CASE ReadRequest
      BY <3>1, HeadAndTail DEF ReadRequest, TypeOK
    <3>2. CASE send_to_backend /\ Copies(Req)
      <4>1. /\ pc = "send" /\ cin # <<>> /\ cin' = Tail(cin) /\ sent' = sent /\ cur' = cur
        BY <3>2, Zenon DEF send_to_backend
      <4>2. cin[1].part = "body"
        BY <3>2, <4>1 DEF Placed, BodyNext, Copies, HasBody
      <4> QED
        BY <4>1, <4>2 DEF Numbered, IdAfter
    <3> QED
      BY <1>4, <3>1, <3>2
  <2>2. n > 0 /\ Len(cin') = n - 1 /\ \A i \in 1 .. n - 1 : cin'[i] = cin[i + 1]
    BY <1>a, <2>1, HeadAndTail DEF TypeOK
  <2>3. cin[n].id = m /\ \A i \in 1 .. n - 1 : cin[i + 1].id = IdAfter(cin[i].id, cin[i + 1].part)
    BY <2>1 DEF Numbered
  <2>4. cin' = <<>> <=> n = 1
    BY <2>1, HeadAndTail DEF TypeOK
  <2> HIDE DEF n, m
  <2>5. cin' = <<>> => cur' = Len(sent')
    BY <2>1, <2>3, <2>4 DEF m
  <2>6. cin' # <<>> => cin'[1].id = IdAfter(cur', cin'[1].part) /\ cin'[Len(cin')].id = Len(sent')
    <3> HAVE cin' # <<>>
    <3>1. 1 \in 1 .. n - 1 /\ n - 1 \in 1 .. n - 1
      BY <1>a, <2>2, <2>4
    <3>2. cin'[1] = cin[2] /\ cin'[n - 1] = cin[n]
      BY <1>a, <2>2, <3>1
    <3>3. cin[2].id = IdAfter(cin[1].id, cin[2].part)
      BY <2>3, <3>1
    <3> QED
      BY <2>1, <2>2, <2>3, <3>2, <3>3 DEF m
  <2>7. \A i \in 1 .. Len(cin') - 1 : cin'[i + 1].id = IdAfter(cin'[i].id, cin'[i + 1].part)
    BY <1>a, <2>2, <2>3
  <2> QED
    BY <2>5, <2>6, <2>7 DEF Numbered
<1>5. CASE ReadGarbage
  BY <1>5 DEF ReadGarbage, Refuse, Numbered
<1>6. CASE send_to_backend /\ ~Copies(Req)
  BY <1>6 DEF send_to_backend, Numbered, IdAfter
<1> QED
  BY <1>1, <1>2, <1>3, <1>4, <1>5, <1>6, StreamCases

(* What comes next, in all steps that leave the stream alone.              *)
LEMMA StillNext ==
  ASSUME Still
  PROVE  /\ (HeadNext => HeadNext') /\ (BodyNext => BodyNext') /\ (BodyLeft => BodyLeft')
         /\ Req' = Req /\ (BodyNext => IF HasBody(Req) THEN BodyLeft ELSE HeadNext)
<1>1. sent' = sent /\ cin' = cin /\ cur' = cur /\ (ceof => ceof')
  BY DEF Still
<1>2. Req' = Req
  BY <1>1 DEF Req
<1> QED
  BY <1>1, <1>2 DEF HeadNext, BodyNext, BodyLeft, HasBody

(* do_http reads a request where a request comes next, and a body where    *)
(* the body of the request in hand does.                                   *)
LEMMA PlacedStep ==
  ASSUME TypeOK, Streamed, Placed, [Next]_vars
  PROVE  Placed'
<1>a. Placed
  OBVIOUS
<1>0. CASE UNCHANGED vars
  BY <1>0, <1>a DEF vars, cvars, pvars, ovars, Placed, HeadNext, BodyNext, BodyLeft, Req, HasBody
<1>1. CASE \E k \in ReqKinds : ClientSends(k)

  <2>1. PICK k \in ReqKinds : ClientSends(k)
    BY <1>1
  <2>2. Extended(k) /\ pc' = pc /\ cur' = cur /\ hist' = hist /\ pc # "closed"
    BY <2>1, SendsExtended DEF ClientSends, pvars
  <2>3. pc \notin {"read", "closed"} => Req' = Req
    BY <2>2 DEF Extended, Req, TypeOK
  <2>4. /\ cin' # <<>> /\ ~ceof
        /\ IF cin = <<>> THEN cin'[1].part = "head" ELSE cin'[1] = cin[1]
    BY <2>2 DEF Extended, TypeOK
  <2>5. (HeadNext => HeadNext') /\ (BodyLeft => BodyLeft')
    BY <2>4 DEF HeadNext, BodyLeft
  <2>6. pc \notin {"read", "closed"} /\ BodyNext => BodyNext'
    BY <2>3, <2>4 DEF BodyNext, HasBody
  <2> QED
    BY <2>2, <2>3, <2>5, <2>6 DEF Placed
<1>2. CASE \E k \in RespKinds : BackendInterim(k)

  <2>1. PICK k \in RespKinds : BackendInterim(k)
    BY <1>2
  <2>2. Still
    BY <2>1 DEF BackendInterim, cvars, pvars, ovars, Still
  <2> QED
    BY <2>1, <2>2, <1>a, StillNext
    DEF BackendInterim, Ready, cvars, pvars, ovars, Placed
<1>3. CASE \E k \in RespKinds : BackendResponds(k)

  <2>1. PICK k \in RespKinds : BackendResponds(k)
    BY <1>3
  <2>2. Still
    BY <2>1 DEF BackendResponds, cvars, pvars, ovars, Still
  <2> QED
    BY <2>1, <2>2, <1>a, StillNext
    DEF BackendResponds, Ready, cvars, pvars, ovars, Placed
<1>4. CASE ClientCloses

  <2>1. Still
    BY <1>4 DEF ClientCloses, pvars, ovars, Still
  <2> QED
    BY <1>4, <2>1, <1>a, StillNext
    DEF ClientCloses, pvars, ovars, Placed
<1>5. CASE BackendBody

  <2>1. Still
    BY <1>5 DEF BackendBody, cvars, pvars, ovars, Still
  <2> QED
    BY <1>5, <2>1, <1>a, StillNext
    DEF BackendBody, cvars, pvars, ovars, Placed
<1>6. CASE BackendCloses

  <2>1. Still
    BY <1>6 DEF BackendCloses, cvars, pvars, ovars, Still
  <2> QED
    BY <1>6, <2>1, <1>a, StillNext
    DEF BackendCloses, cvars, pvars, ovars, Placed
<1>7. CASE ReadFails

  <2>1. Still
    BY <1>7 DEF ReadFails, cvars, ovars, Still
  <2> QED
    BY <1>7, <2>1, <1>a, StillNext
    DEF ReadFails, cvars, ovars, Placed
<1>8. CASE ReadRequest

  <2>1. /\ pc' \in {"closed", "check"} /\ hist' = hist /\ ceof' = ceof /\ cin # <<>>
        /\ Head(cin).part = "head" /\ pc = "read"
    BY <1>8 DEF ReadRequest, Refuse
  <2>2. cin' = Tail(cin) /\ sent' = sent /\ cur' = Head(cin).id
    BY <1>8 DEF ReadRequest
  <2>3. cin[1] = Head(cin) /\ (cin' # <<>> => cin'[1] = cin[2] /\ Len(cin) > 1) /\ Len(cin) \in Nat
        /\ (cin' = <<>> => Len(cin) = 1)  /\ DOMAIN cin = 1 .. Len(cin) /\ Len(cin) > 0
    BY <2>1, <2>2, HeadAndTail DEF TypeOK
  <2>4. "left" \notin hist
    BY <2>1, <2>3, <1>a DEF Placed, BodyLeft
  <2>5. HasBody(Req') <=> Carries(1)
    BY <2>1, <2>2, <2>3 DEF Req, Carries, HasBody
  <2>6. cin' # <<>> => (cin[2].part = "body" <=> Carries(1))
    BY <2>3 DEF Streamed
  <2>7. cin' = <<>> /\ Carries(1) => ceof
    BY <2>3 DEF Streamed
  <2>8. BodyNext'
    BY <2>1, <2>3, <2>5, <2>6, <2>7 DEF BodyNext, HasBody
  <2> QED
    BY <2>1, <2>4, <2>8 DEF Placed
<1>9. CASE ReadGarbage
  BY <1>9 DEF ReadGarbage, Refuse, Placed
<1>10. CASE CheckBackend

  <2>1. Still
    BY <1>10 DEF CheckBackend, cvars, ovars, Still
  <2> QED
    BY <1>10, <2>1, <1>a, StillNext
    DEF CheckBackend, cvars, ovars, Placed
<1>11. CASE SelectFails

  <2>1. Still
    BY <1>11 DEF SelectFails, cvars, Still
  <2> QED
    BY <1>11, <2>1, <1>a, StillNext
    DEF SelectFails, Refuse, cvars, Placed
<1>12. CASE \E b \in Regular \cup Internal : select_backend(b)

  <2>1. PICK b \in Regular \cup Internal : select_backend(b)
    BY <1>12
  <2>2. Still
    BY <2>1 DEF select_backend, cvars, ovars, Still
  <2> QED
    BY <2>1, <2>2, <1>a, StillNext
    DEF select_backend, cvars, ovars, Placed
<1>13. CASE InternalReply

  <2>1. Still
    BY <1>13 DEF InternalReply, cvars, Still
  <2> QED
    BY <1>13, <2>1, <1>a, StillNext
    DEF InternalReply, Again, cvars, Placed
<1>14. CASE InternalFails

  <2>1. Still
    BY <1>14 DEF InternalFails, cvars, ovars, Still
  <2> QED
    BY <1>14, <2>1, <1>a, StillNext
    DEF InternalFails, HandlerFails, cvars, ovars, Placed
<1>15. CASE send_to_backend

  <2>1. /\ pc = "send" /\ pc' = "response" /\ hist' = hist /\ sent' = sent /\ cur' = cur
        /\ BodyNext /\ "left" \notin hist
    BY <1>15, <1>a DEF send_to_backend, Placed
  <2>2. Req' = Req /\ Req \in Request
    BY <2>1, HttpAssumption DEF Req, TypeOK
  <2>3. CASE cin # <<>> /\ cin' = Tail(cin) /\ Copies(Req)
    <3>1. cin[1].part = "body"
      BY <2>1, <2>3 DEF BodyNext, Copies, HasBody
    <3>2. cin' # <<>> => cin'[1] = cin[2] /\ 2 \in DOMAIN cin
      BY <2>3 DEF TypeOK
    <3>3. cin' # <<>> => cin[2].part # "body"
      <4> HAVE cin' # <<>>
      <4>1. cin[2].part = "body" => Carries(2 - 1)
        BY <3>2 DEF Streamed
      <4> QED
        BY <3>1, <4>1 DEF Carries
    <3> QED
      BY <2>1, <3>2, <3>3 DEF Placed, HeadNext
  <2>4. CASE cin' = cin /\ ~Copies(Req)
    <3>1. Req.v11 => ~HasBody(Req)
      BY <2>2, <2>4 DEF Copies, HasBody
    <3> QED
      BY <2>1, <2>2, <2>4, <3>1 DEF Placed, HeadNext, BodyNext
  <2> QED
    BY <1>15, <2>3, <2>4 DEF send_to_backend
<1>16. CASE SendFails

  <2>1. Still
    BY <1>16 DEF SendFails, cvars, Still
  <2> QED
    BY <1>16, <2>1, <1>a, StillNext
    DEF SendFails, HandlerFails, cvars, Placed
<1>17. CASE ResponseHead

  <2>1. Still
    BY <1>17 DEF ResponseHead, cvars, Still
  <2> QED
    BY <1>17, <2>1, <1>a, StillNext
    DEF ResponseHead, cvars, Placed
<1>18. CASE ResponseContinue

  <2>1. Still
    BY <1>18 DEF ResponseContinue, cvars, Still
  <2> QED
    BY <1>18, <2>1, <1>a, StillNext
    DEF ResponseContinue, cvars, Placed
<1>19. CASE ResponseFails

  <2>1. Still
    BY <1>19 DEF ResponseFails, cvars, Still
  <2> QED
    BY <1>19, <2>1, <1>a, StillNext
    DEF ResponseFails, HandlerFails, cvars, Placed
<1>20. CASE GiveUp

  <2>1. Still
    BY <1>20 DEF GiveUp, cvars, ovars, Still
  <2> QED
    BY <1>20, <2>1, <1>a, StillNext
    DEF GiveUp, cvars, ovars, Placed
<1>21. CASE NoBody

  <2>1. Still
    BY <1>21 DEF NoBody, cvars, Still
  <2> QED
    BY <1>21, <2>1, <1>a, StillNext
    DEF NoBody, ResponseEnds, Again, cvars, Placed
<1>22. CASE CopyBody

  <2>1. Still
    BY <1>22 DEF CopyBody, cvars, Still
  <2> QED
    BY <1>22, <2>1, <1>a, StillNext
    DEF CopyBody, ResponseEnds, Again, cvars, Placed
<1>23. CASE CopyToEof

  <2>1. Still
    BY <1>23 DEF CopyToEof, cvars, Still
  <2> QED
    BY <1>23, <2>1, <1>a, StillNext
    DEF CopyToEof, ResponseEnds, Again, cvars, Placed
<1>24. CASE NotReadable

  <2>1. Still
    BY <1>24 DEF NotReadable, cvars, Still
  <2> QED
    BY <1>24, <2>1, <1>a, StillNext
    DEF NotReadable, ResponseEnds, Again, cvars, Placed
<1> QED
  BY <1>0, <1>1, <1>2, <1>3, <1>4, <1>5, <1>6, <1>7, <1>8, <1>9, <1>10, <1>11, <1>12, <1>13,
     <1>14, <1>15, <1>16, <1>17, <1>18, <1>19, <1>20, <1>21, <1>22, <1>23, <1>24, NextCases

(* Which steps record what in the history.                                 *)
Recorded ==
  /\ hist \subseteq hist'
  /\ "misread" \in hist' => "misread" \in hist \/ ReadGarbage
  /\ "broken" \in hist' => "broken" \in hist \/ InternalFails
  /\ "pending" \in hist' => "pending" \in hist \/ CheckBackend
  /\ "mispaired" \in hist' => "mispaired" \in hist \/ ResponseHead \/ ResponseFails \/ CopyBody

(* Where each mark of the history comes from.                              *)
LEMMA HistCases ==
  ASSUME Next
  PROVE  Recorded
<1>1. CASE \E k \in ReqKinds : ClientSends(k)
  <2>1. PICK k \in ReqKinds : ClientSends(k)
    BY <1>1
  <2> QED
    BY <2>1
    DEF ClientSends, Recorded
<1>2. CASE \E k \in RespKinds : BackendInterim(k)
  <2>1. PICK k \in RespKinds : BackendInterim(k)
    BY <1>2
  <2> QED
    BY <2>1
    DEF BackendInterim, Recorded
<1>3. CASE \E k \in RespKinds : BackendResponds(k)
  <2>1. PICK k \in RespKinds : BackendResponds(k)
    BY <1>3
  <2> QED
    BY <2>1
    DEF BackendResponds, Recorded
<1>4. CASE ClientCloses
  BY <1>4 DEF ClientCloses, Recorded
<1>5. CASE BackendBody
  BY <1>5 DEF BackendBody, Recorded
<1>6. CASE BackendCloses
  BY <1>6 DEF BackendCloses, Recorded
<1>7. CASE ReadFails
  BY <1>7 DEF ReadFails, Recorded
<1>8. CASE ReadRequest
  BY <1>8 DEF ReadRequest, Recorded
<1>9. CASE ReadGarbage
  BY <1>9 DEF ReadGarbage, Recorded
<1>10. CASE CheckBackend
  BY <1>10 DEF CheckBackend, Recorded
<1>11. CASE SelectFails
  BY <1>11 DEF SelectFails, Recorded
<1>12. CASE \E b \in Regular \cup Internal : select_backend(b)
  <2>1. PICK b \in Regular \cup Internal : select_backend(b)
    BY <1>12
  <2> QED
    BY <2>1
    DEF select_backend, Recorded
<1>13. CASE InternalReply
  BY <1>13 DEF InternalReply, Recorded
<1>14. CASE InternalFails
  BY <1>14 DEF InternalFails, Recorded, ovars
<1>15. CASE send_to_backend
  BY <1>15 DEF send_to_backend, Recorded
<1>16. CASE SendFails
  BY <1>16 DEF SendFails, HandlerFails, Recorded
<1>17. CASE ResponseHead
  BY <1>17 DEF ResponseHead, Recorded
<1>18. CASE ResponseContinue
  BY <1>18 DEF ResponseContinue, Recorded
<1>19. CASE ResponseFails
  BY <1>19 DEF ResponseFails, HandlerFails, Recorded
<1>20. CASE GiveUp
  BY <1>20 DEF GiveUp, Recorded
<1>21. CASE NoBody
  BY <1>21 DEF NoBody, Recorded
<1>22. CASE CopyBody
  BY <1>22 DEF CopyBody, Recorded
<1>23. CASE CopyToEof
  BY <1>23 DEF CopyToEof, Recorded
<1>24. CASE NotReadable
  BY <1>24 DEF NotReadable, Recorded
<1> QED
  BY <1>1, <1>2, <1>3, <1>4, <1>5, <1>6, <1>7, <1>8, <1>9, <1>10, <1>11, <1>12, <1>13, <1>14,
     <1>15, <1>16, <1>17, <1>18, <1>19, <1>20, <1>21, <1>22, <1>23, <1>24, NextCases

(* A body is read as a request only after an internal backend has left it. *)
LEMMA AlignedStep ==
  ASSUME TypeOK, Placed, RequestsAligned, [Next]_vars
  PROVE  RequestsAligned'
<1>1. CASE UNCHANGED vars
  BY <1>1 DEF vars, RequestsAligned
<1>2. CASE Next /\ ~ReadGarbage
  BY <1>2, HistCases DEF Recorded, RequestsAligned
<1>3. CASE ReadGarbage
  <2>1. pc = "read" /\ cin # <<>> /\ Head(cin).part = "body" /\ hist \subseteq hist'
    BY <1>3 DEF ReadGarbage
  <2>2. cin[1].part = "body"
    BY <2>1, HeadAndTail DEF TypeOK
  <2> QED
    BY <2>1, <2>2 DEF Placed, HeadNext, RequestsAligned
<1> QED
  BY <1>1, <1>2, <1>3

-----------------------------------------------------------------------------
(* Interim responses on their way: taking and adding other parts.          *)
LEMMA NoInterimTail ==
  ASSUME NEW q \in Seq(Parts(RespKinds)), q # <<>>, NoInterim(q)
  PROVE  NoInterim(Tail(q))
<1>1. DOMAIN Tail(q) = 1 .. Len(q) - 1 /\ \A i \in 1 .. Len(q) - 1 : i + 1 \in DOMAIN q /\ Tail(q)[i] = q[i + 1]
  BY HeadAndTail
<1> QED
  BY <1>1 DEF NoInterim

(* A part that is not an interim response adds none.                       *)
LEMMA NoInterimAppend ==
  ASSUME NEW q \in Seq(Parts(RespKinds)), NEW p \in Parts(RespKinds), ~IsInterim(p), NoInterim(q),
         NEW r, r = Append(q, p)
  PROVE  NoInterim(r)
<1>1. /\ DOMAIN r = 1 .. Len(q) + 1 /\ r[Len(q) + 1] = p /\ Len(q) \in Nat /\ DOMAIN q = 1 .. Len(q)
      /\ \A i \in 1 .. Len(q) : r[i] = q[i]
  BY Appended
<1>2. \A i \in 1 .. Len(q) : ~IsInterim(q[i])
  BY <1>1 DEF NoInterim
<1>3. \A i \in 1 .. Len(q) + 1 : ~IsInterim(r[i])
  BY <1>1, <1>2
<1> QED
  BY <1>1, <1>3 DEF NoInterim

(* An interim response that is read, or was, was sent.                     *)
LEMMA InterimsStep ==
  ASSUME TypeOK, Interims, [Next]_vars
  PROVE  Interims'
<1>b. interims \in Nat /\ chan.out \in Seq(Parts(RespKinds))
  BY ChanFields, HttpAssumption DEF TypeOK
<1>c. NoInterim(<<>>)
  BY DEF NoInterim
<1>d. NoChan.out = <<>>
  BY DEF NoChan
<1>0. CASE UNCHANGED vars
  BY <1>0 DEF vars, cvars, pvars, ovars, Interims
<1>1. CASE \E k \in ReqKinds : ClientSends(k)
  <2>1. PICK k \in ReqKinds : ClientSends(k)
    BY <1>1
  <2> QED
    BY <2>1
    DEF ClientSends, pvars, ovars, Interims
<1>2. CASE \E k \in RespKinds : BackendInterim(k)

  <2>1. interims' = interims + 1
    BY <1>2 DEF BackendInterim
  <2> QED
    BY <2>1, <1>b DEF Interims
<1>3. CASE \E k \in RespKinds : BackendResponds(k)

  <2>1. PICK k \in RespKinds : BackendResponds(k)
    BY <1>3
  <2> DEFINE p == Part("head", Head(chan.in), k)
  <2>2. chan'.out = Append(chan.out, p) /\ interims' = interims /\ skip' = skip
    BY <2>1, RespondsEffect DEF BackendResponds, pvars
  <2>3. chan.in # <<>> /\ k.status \notin {"100", "1xx"}
    BY <2>1, Zenon DEF BackendResponds, Ready
  <2>4. p \in Parts(RespKinds) /\ ~IsInterim(p)
    <3>1. Head(chan.in) \in 1 .. MaxReq
      BY <2>3, ChanFields, HeadAndTail, Zenon
    <3> QED
      BY <2>3, <3>1, HttpAssumption DEF Part, Parts, IsInterim
  <2> HIDE DEF p
  <2> QED
    BY <2>2, <2>4, <1>b, NoInterimAppend DEF Interims
<1>4. CASE ClientCloses
  BY <1>4 DEF ClientCloses, pvars, ovars, Interims
<1>5. CASE BackendBody

  <2> DEFINE p == Part("body", chan.of, chan.body)
  <2>1. chan'.out = Append(chan.out, p) /\ interims' = interims /\ skip' = skip
    BY <1>5, BodyEffect DEF BackendBody, pvars
  <2>2. p \in Parts(RespKinds) /\ ~IsInterim(p)
    BY <1>5, BodyEffect, ChanFields DEF Part, Parts, IsInterim
  <2> HIDE DEF p
  <2> QED
    BY <2>1, <2>2, <1>b, NoInterimAppend DEF Interims
<1>6. CASE BackendCloses

  <2>1. chan'.out = chan.out /\ interims' = interims /\ skip' = skip
    BY <1>6, CloseEffect DEF BackendCloses, pvars
  <2> QED
    BY <2>1 DEF Interims
<1>7. CASE ReadFails
  BY <1>7 DEF ReadFails, cvars, ovars, Interims
<1>8. CASE ReadRequest
  BY <1>8 DEF ReadRequest, ovars, Interims
<1>9. CASE ReadGarbage
  BY <1>9 DEF ReadGarbage, Interims
<1>10. CASE CheckBackend
  BY <1>10, <1>c DEF CheckBackend, cvars, ovars, Interims, close_backend, NoChan
<1>11. CASE SelectFails
  BY <1>11 DEF SelectFails, cvars, Interims
<1>12. CASE \E b \in Regular \cup Internal : select_backend(b)
  <2>1. PICK b \in Regular \cup Internal : select_backend(b)
    BY <1>12
  <2> QED
    BY <2>1, <1>c
    DEF select_backend, cvars, ovars, Interims, close_backend, NoChan, Fresh
<1>13. CASE InternalReply
  BY <1>13 DEF InternalReply, cvars, Interims
<1>14. CASE InternalFails
  BY <1>14 DEF InternalFails, cvars, ovars, Interims
<1>15. CASE send_to_backend

  <2>1. chan'.out = chan.out /\ interims' = interims /\ skip' = FALSE
    BY <1>15, SendEffect DEF send_to_backend
  <2> QED
    BY <2>1 DEF Interims
<1>16. CASE SendFails
  BY <1>16 DEF SendFails, cvars, Interims
<1>17. CASE ResponseHead

  <2>1. chan'.out = Tail(chan.out) /\ interims' = interims /\ skip' = skip /\ chan.out # <<>>
    BY <1>17, TakeEffect DEF ResponseHead
  <2> QED
    BY <2>1, <1>b, NoInterimTail DEF Interims
<1>18. CASE ResponseContinue

  <2>1. interims' = interims /\ chan.out # <<>> /\ IsInterim(Head(chan.out))
    BY <1>18 DEF ResponseContinue, IsInterim
  <2>2. Head(chan.out) = chan.out[1] /\ 1 \in DOMAIN chan.out
    BY <2>1, <1>b, HeadAndTail
  <2> QED
    BY <2>1, <2>2 DEF Interims, NoInterim
<1>19. CASE ResponseFails
  BY <1>19 DEF ResponseFails, cvars, Interims
<1>20. CASE GiveUp
  BY <1>20 DEF GiveUp, cvars, ovars, Interims
<1>21. CASE NoBody

  <2>1. /\ pc = "body" /\ skip' = skip /\ interims' = interims
        /\ \E v, cl : ResponseEnds(v, cl, chan.out)
    BY <1>21, Zenon DEF NoBody
  <2>2. chan.out \in Seq(Parts(RespKinds)) /\ (Interims => interims > 0 \/ NoInterim(chan.out))
    BY <1>21, <1>b, <1>c, ResponseRead, NoInterimTail DEF NoBody, Interims, NoInterim
  <2>3. chan'.out = chan.out \/ chan'.out = <<>>
    BY <2>1, <2>2, <1>d, EndEffect, Zenon
  <2> QED
    BY <2>1, <2>2, <2>3, <1>c DEF Interims
<1>22. CASE CopyBody

  <2>1. /\ pc = "body" /\ skip' = skip /\ interims' = interims
        /\ \E v, cl : ResponseEnds(v, cl, Tail(chan.out))
    BY <1>22, Zenon DEF CopyBody
  <2>2. Tail(chan.out) \in Seq(Parts(RespKinds)) /\ (Interims => interims > 0 \/ NoInterim(Tail(chan.out)))
    BY <1>22, <1>b, <1>c, ResponseRead, NoInterimTail DEF CopyBody, Interims, NoInterim
  <2>3. chan'.out = Tail(chan.out) \/ chan'.out = <<>>
    BY <2>1, <2>2, <1>d, EndEffect, Zenon
  <2> QED
    BY <2>1, <2>2, <2>3, <1>c DEF Interims
<1>23. CASE CopyToEof

  <2>1. /\ pc = "body" /\ skip' = skip /\ interims' = interims
        /\ \E v, cl : ResponseEnds(v, cl, <<>>)
    BY <1>23, Zenon DEF CopyToEof
  <2>2. <<>> \in Seq(Parts(RespKinds)) /\ (Interims => interims > 0 \/ NoInterim(<<>>))
    BY <1>23, <1>b, <1>c, ResponseRead, NoInterimTail DEF CopyToEof, Interims, NoInterim
  <2>3. chan'.out = <<>> \/ chan'.out = <<>>
    BY <2>1, <2>2, <1>d, EndEffect, Zenon
  <2> QED
    BY <2>1, <2>2, <2>3, <1>c DEF Interims
<1>24. CASE NotReadable

  <2>1. /\ pc = "body" /\ skip' = skip /\ interims' = interims
        /\ \E v, cl : ResponseEnds(v, cl, chan.out)
    BY <1>24, Zenon DEF NotReadable
  <2>2. chan.out \in Seq(Parts(RespKinds)) /\ (Interims => interims > 0 \/ NoInterim(chan.out))
    BY <1>24, <1>b, <1>c, ResponseRead, NoInterimTail DEF NotReadable, Interims, NoInterim
  <2>3. chan'.out = chan.out \/ chan'.out = <<>>
    BY <2>1, <2>2, <1>d, EndEffect, Zenon
  <2> QED
    BY <2>1, <2>2, <2>3, <1>c DEF Interims
<1> QED
  BY <1>0, <1>1, <1>2, <1>3, <1>4, <1>5, <1>6, <1>7, <1>8, <1>9, <1>10, <1>11, <1>12, <1>13,
     <1>14, <1>15, <1>16, <1>17, <1>18, <1>19, <1>20, <1>21, <1>22, <1>23, <1>24, NextCases

(* The lines of the log are kept, and a line is added for the request in   *)
(* hand, which is the next one.                                            *)
LineOK(n) ==
  /\ log[n].id = n
  /\ \/ log[n].logged = log[n].sent
     \/ \E m \in 1 .. n - 1 : log[m].logged = log[n].logged
     \/ interims > 0 \/ "broken" \in hist
LinesOK == \A n \in DOMAIN log : LineOK(n)

(* The lines of the log stay right while no line is added.                 *)
LEMMA LinesKept ==
  ASSUME LinesOK, log' = log, hist \subseteq hist', interims > 0 => interims' > 0
  PROVE  LinesOK'
  BY DEF LinesOK, LineOK

(* A line is added for the current request: its code is what was sent, or  *)
(* one already known.                                                      *)
LEMMA LineAdded ==
  ASSUME TypeOK, LinesOK, cur > 0, Len(log) = cur - 1, NEW rc, NEW status, LogAs(rc, status),
         interims' = interims, hist \subseteq hist',
         rc = "0" \/ rc = status \/ Known(rc) \/ interims > 0 \/ "broken" \in hist'
  PROVE  /\ LinesOK' /\ Len(log') = cur /\ Known(response_code)'
<1> DEFINE code == IF rc = "0" THEN status ELSE rc
           line == [id |-> cur, sent |-> status, logged |-> code]
<1>1. response_code' = code /\ log' = Append(log, line)
  BY DEF LogAs
<1>2. line.id = cur /\ line.sent = status /\ line.logged = code
  OBVIOUS
<1>3. code = status \/ (\E m \in DOMAIN log : log[m].logged = code) \/ interims > 0 \/ "broken" \in hist'
  BY DEF Known
<1>4. cur \in Nat /\ log \in Seq(Lines)
  BY DEF TypeOK
<1> HIDE DEF line, code
<1>5. /\ DOMAIN log = 1 .. cur - 1 /\ DOMAIN log' = 1 .. cur /\ Len(log') = cur /\ log'[cur] = line
      /\ \A i \in 1 .. cur - 1 : log'[i] = log[i]
  BY <1>1, <1>4
<1>6. \A n \in 1 .. cur - 1 : LineOK(n)'
  <2> SUFFICES ASSUME NEW n \in 1 .. cur - 1
               PROVE  LineOK(n)'
    OBVIOUS
  <2>1. LineOK(n) /\ log'[n] = log[n] /\ \A m \in 1 .. n - 1 : log'[m] = log[m]
    BY <1>4, <1>5 DEF LinesOK
  <2> QED
    BY <2>1 DEF LineOK
<1>7. \A n : n = cur => LineOK(n)'
  BY <1>2, <1>3, <1>4, <1>5 DEF LineOK
<1>8. LinesOK'
  BY <1>4, <1>5, <1>6, <1>7 DEF LinesOK
<1>9. \E m \in DOMAIN log' : log'[m].logged = response_code'
  BY <1>1, <1>2, <1>4, <1>5
<1> QED
  BY <1>5, <1>8, <1>9 DEF Known

(* The log as it is between two requests.                                  *)
Done == LinesOK /\ (pc = "read" => Len(log) = cur)

(* The end of a response logs it, unless (after a 100) there is another.   *)
LEMMA LogEnds ==
  ASSUME TypeOK, Logged, Done, Interims, pc = "body", cur' = cur, interims' = interims,
         hist \subseteq hist', NEW v, NEW cl, NEW r, ResponseEnds(v, cl, r)
  PROVE  Logged' /\ Done'
<1>1. LinesOK /\ Len(log) = cur - 1 /\ cur > 0 /\ cur \in Nat /\ interims \in Nat
  BY HttpAssumption DEF Logged, Done, TypeOK
<1>2. CASE skip /\ pc' = "response" /\ log' = log
  <2>1. LinesOK'
    BY <1>1, <1>2, LinesKept
  <2> QED
    BY <1>1, <1>2, <2>1 DEF Logged, Done, Interims
<1>3. CASE pc' \in {"read", "closed"} /\ LogAs(response_code, response_code)
  <2>1. LinesOK' /\ Len(log') = cur /\ Known(response_code)'
    BY <1>1, <1>3, LineAdded
  <2> QED
    BY <1>1, <1>3, <2>1 DEF Logged, Done
<1> QED
  BY <1>2, <1>3 DEF ResponseEnds, Again

(* Every request is logged once, in its turn.                              *)
LEMMA LogStep ==
  ASSUME TypeOK, Numbered, Interims, Logged, LogComplete, Next
  PROVE  Logged' /\ LogComplete'
<1> SUFFICES Logged' /\ Done'
  BY DEF LogComplete, Done, LinesOK, LineOK
<1>a. Logged /\ Done /\ LinesOK
  BY DEF LogComplete, Done, LinesOK, LineOK
<1>b. interims \in Nat
  BY HttpAssumption DEF TypeOK
<1>c. hist \subseteq hist'
  BY HistCases DEF Recorded
<1>1. CASE \E k \in ReqKinds : ClientSends(k)

  <2>0. PICK k \in ReqKinds : ClientSends(k)
    BY <1>1
  <2>1. /\ log' = log /\ response_code' = response_code /\ cur' = cur /\ (interims > 0 => interims' > 0)
        /\ (pc' = pc \/ (pc' \in {"send", "internal"} /\ pc = "select")) /\ pc # "closed"
    BY <2>0, <1>b DEF ClientSends, pvars, ovars
  <2> QED
    BY <2>1, <1>a, <1>b, <1>c, LinesKept DEF Logged, Done, Known
<1>2. CASE \E k \in RespKinds : BackendInterim(k)

  <2>0. PICK k \in RespKinds : BackendInterim(k)
    BY <1>2
  <2>1. /\ log' = log /\ response_code' = response_code /\ cur' = cur /\ (interims > 0 => interims' > 0)
        /\ (pc' = pc \/ (pc' \in {"send", "internal"} /\ pc = "select")) /\ pc # "closed"
    BY <2>0, <1>b DEF BackendInterim, Ready, pvars, ovars
  <2> QED
    BY <2>1, <1>a, <1>b, <1>c, LinesKept DEF Logged, Done, Known
<1>3. CASE \E k \in RespKinds : BackendResponds(k)

  <2>0. PICK k \in RespKinds : BackendResponds(k)
    BY <1>3
  <2>1. /\ log' = log /\ response_code' = response_code /\ cur' = cur /\ (interims > 0 => interims' > 0)
        /\ (pc' = pc \/ (pc' \in {"send", "internal"} /\ pc = "select")) /\ pc # "closed"
    BY <2>0, <1>b DEF BackendResponds, Ready, pvars, ovars
  <2> QED
    BY <2>1, <1>a, <1>b, <1>c, LinesKept DEF Logged, Done, Known
<1>4. CASE ClientCloses

  <2>1. /\ log' = log /\ response_code' = response_code /\ cur' = cur /\ interims' = interims
        /\ \/ pc' = "closed" \/ (pc' = pc /\ pc # "closed") \/ (pc' = "select" /\ pc = "check")
           \/ (pc' = "response" /\ pc = "send")
    BY <1>4 DEF ClientCloses, pvars, ovars
  <2> QED
    BY <2>1, <1>a, <1>b, <1>c, LinesKept DEF Logged, Done, Known
<1>5. CASE BackendBody

  <2>1. /\ log' = log /\ response_code' = response_code /\ cur' = cur /\ interims' = interims
        /\ \/ pc' = "closed" \/ (pc' = pc /\ pc # "closed") \/ (pc' = "select" /\ pc = "check")
           \/ (pc' = "response" /\ pc = "send")
    BY <1>5 DEF BackendBody, pvars, ovars
  <2> QED
    BY <2>1, <1>a, <1>b, <1>c, LinesKept DEF Logged, Done, Known
<1>6. CASE BackendCloses

  <2>1. /\ log' = log /\ response_code' = response_code /\ cur' = cur /\ interims' = interims
        /\ \/ pc' = "closed" \/ (pc' = pc /\ pc # "closed") \/ (pc' = "select" /\ pc = "check")
           \/ (pc' = "response" /\ pc = "send")
    BY <1>6 DEF BackendCloses, pvars, ovars
  <2> QED
    BY <2>1, <1>a, <1>b, <1>c, LinesKept DEF Logged, Done, Known
<1>7. CASE ReadFails

  <2>1. /\ log' = log /\ response_code' = response_code /\ cur' = cur /\ interims' = interims
        /\ \/ pc' = "closed" \/ (pc' = pc /\ pc # "closed") \/ (pc' = "select" /\ pc = "check")
           \/ (pc' = "response" /\ pc = "send")
    BY <1>7 DEF ReadFails, ovars
  <2> QED
    BY <2>1, <1>a, <1>b, <1>c, LinesKept DEF Logged, Done, Known
<1>8. CASE ReadRequest

  <2>1. /\ log' = log /\ response_code' = response_code /\ interims' = interims /\ pc = "read"
        /\ pc' \in {"check", "closed"} /\ cin # <<>> /\ Head(cin).part = "head" /\ cur' = Head(cin).id
    BY <1>8 DEF ReadRequest, Refuse, ovars
  <2>2. cin[1] = Head(cin)
    BY <2>1, HeadAndTail DEF TypeOK
  <2>3. cur' = cur + 1 /\ cur \in Nat
    BY <2>1, <2>2 DEF Numbered, IdAfter, TypeOK
  <2>4. Len(log) = cur
    BY <2>1, <1>a DEF Done
  <2> QED
    BY <2>1, <2>3, <2>4, <1>a, <1>b, <1>c, LinesKept DEF Logged, Done, Known
<1>9. CASE ReadGarbage

  <2>1. /\ log' = log /\ response_code' = response_code /\ cur' = cur /\ interims' = interims
        /\ \/ pc' = "closed" \/ (pc' = pc /\ pc # "closed") \/ (pc' = "select" /\ pc = "check")
           \/ (pc' = "response" /\ pc = "send")
    BY <1>9 DEF ReadGarbage, Refuse
  <2> QED
    BY <2>1, <1>a, <1>b, <1>c, LinesKept DEF Logged, Done, Known
<1>10. CASE CheckBackend

  <2>1. /\ log' = log /\ response_code' = response_code /\ cur' = cur /\ interims' = interims
        /\ \/ pc' = "closed" \/ (pc' = pc /\ pc # "closed") \/ (pc' = "select" /\ pc = "check")
           \/ (pc' = "response" /\ pc = "send")
    BY <1>10 DEF CheckBackend, ovars
  <2> QED
    BY <2>1, <1>a, <1>b, <1>c, LinesKept DEF Logged, Done, Known
<1>11. CASE SelectFails

  <2>1. /\ log' = log /\ response_code' = response_code /\ cur' = cur /\ interims' = interims
        /\ \/ pc' = "closed" \/ (pc' = pc /\ pc # "closed") \/ (pc' = "select" /\ pc = "check")
           \/ (pc' = "response" /\ pc = "send")
    BY <1>11 DEF SelectFails, Refuse
  <2> QED
    BY <2>1, <1>a, <1>b, <1>c, LinesKept DEF Logged, Done, Known
<1>12. CASE \E b \in Regular \cup Internal : select_backend(b)

  <2>0. PICK b \in Regular \cup Internal : select_backend(b)
    BY <1>12
  <2>1. /\ log' = log /\ response_code' = response_code /\ cur' = cur /\ (interims > 0 => interims' > 0)
        /\ (pc' = pc \/ (pc' \in {"send", "internal"} /\ pc = "select")) /\ pc # "closed"
    BY <2>0, <1>b DEF select_backend, ovars
  <2> QED
    BY <2>1, <1>a, <1>b, <1>c, LinesKept DEF Logged, Done, Known
<1>13. CASE InternalReply

  <2>1. /\ pc = "internal" /\ pc' \in {"read", "closed"} /\ interims' = interims /\ cur' = cur
        /\ LogAs(CodeLeft(backend), "set")
    BY <1>13 DEF InternalReply, Again
  <2>2. /\ Len(log) = cur - 1 /\ cur > 0
        /\ (response_code = "0" \/ Known(response_code) \/ interims > 0)
    BY <2>1, <1>a DEF Logged, TypeOK
  <2>3. \/ CodeLeft(backend) = "0" \/ CodeLeft(backend) = "set" \/ Known(CodeLeft(backend))
        \/ interims > 0
    BY <2>2 DEF CodeLeft
  <2>4. LinesOK' /\ Len(log') = cur /\ Known(response_code)'
    BY <2>1, <2>2, <2>3, <1>a, <1>c, LineAdded
  <2> QED
    BY <2>1, <2>4 DEF Logged, Done
<1>14. CASE InternalFails

  <2>1. pc = "internal" /\ pc' = "closed" /\ interims' = interims /\ cur' = cur
    BY <1>14 DEF InternalFails, HandlerFails
  <2>2. /\ Len(log) = cur - 1 /\ cur > 0
        /\ (response_code = "0" \/ Known(response_code) \/ interims > 0)
    BY <2>1, <1>a DEF Logged, TypeOK
  <2>3. CASE LogAs(response_code, "err")
    <3>1. LinesOK'
      BY <2>1, <2>2, <2>3, <1>a, <1>c, LineAdded
    <3> QED
      BY <2>1, <3>1 DEF Logged, Done
  <2>4. CASE LogAs("0", "err")
    <3>1. LinesOK'
      BY <2>1, <2>2, <2>4, <1>a, <1>c, LineAdded
    <3> QED
      BY <2>1, <3>1 DEF Logged, Done
  <2>5. CASE log' = log
    <3>1. LinesOK'
      BY <2>1, <2>5, <1>a, <1>c, LinesKept
    <3> QED
      BY <2>1, <3>1 DEF Logged, Done
  <2>6. CASE LogAs("set", "err") /\ "broken" \in hist'
    <3>1. LinesOK'
      BY <2>1, <2>2, <2>6, <1>a, <1>c, LineAdded
    <3> QED
      BY <2>1, <3>1 DEF Logged, Done
  <2> QED
    BY <1>14, <2>3, <2>4, <2>5, <2>6, Zenon DEF InternalFails, HandlerFails, ovars
<1>15. CASE send_to_backend

  <2>1. /\ log' = log /\ response_code' = response_code /\ cur' = cur /\ interims' = interims
        /\ \/ pc' = "closed" \/ (pc' = pc /\ pc # "closed") \/ (pc' = "select" /\ pc = "check")
           \/ (pc' = "response" /\ pc = "send")
    BY <1>15 DEF send_to_backend, ovars
  <2> QED
    BY <2>1, <1>a, <1>b, <1>c, LinesKept DEF Logged, Done, Known
<1>16. CASE SendFails

  <2>1. /\ pc \notin {"read", "body", "closed"} /\ pc' = "closed" /\ interims' = interims
        /\ LogAs(response_code, "err")
    BY <1>16 DEF SendFails, HandlerFails
  <2>2. Len(log) = cur - 1 /\ cur > 0 /\ (response_code = "0" \/ Known(response_code) \/ interims > 0)
    BY <2>1, <1>a DEF Logged, TypeOK
  <2>3. LinesOK'
    BY <2>1, <2>2, <1>a, <1>c, LineAdded
  <2> QED
    BY <2>1, <2>3 DEF Logged, Done
<1>17. CASE ResponseHead

  <2>1. log' = log /\ cur' = cur /\ interims' = interims /\ pc = "response" /\ pc' = "body"
    BY <1>17 DEF ResponseHead
  <2> QED
    BY <2>1, <1>a, <1>c, LinesKept DEF Logged, Done
<1>18. CASE ResponseContinue

  <2>1. log' = log /\ cur' = cur /\ interims' = interims /\ pc = "response" /\ pc' = pc
    BY <1>18 DEF ResponseContinue
  <2>2. chan.out # <<>> /\ IsInterim(Head(chan.out))
    BY <1>18 DEF ResponseContinue, IsInterim
  <2>3. Head(chan.out) = chan.out[1] /\ 1 \in DOMAIN chan.out
    BY <2>2, ChanFields, HeadAndTail
  <2>4. interims > 0
    BY <2>2, <2>3 DEF Interims, NoInterim
  <2> QED
    BY <2>1, <2>4, <1>a, <1>c, LinesKept DEF Logged, Done
<1>19. CASE ResponseFails

  <2>1. /\ pc \notin {"read", "body", "closed"} /\ pc' = "closed" /\ interims' = interims
        /\ LogAs(response_code, "err")
    BY <1>19 DEF ResponseFails, HandlerFails
  <2>2. Len(log) = cur - 1 /\ cur > 0 /\ (response_code = "0" \/ Known(response_code) \/ interims > 0)
    BY <2>1, <1>a DEF Logged, TypeOK
  <2>3. LinesOK'
    BY <2>1, <2>2, <1>a, <1>c, LineAdded
  <2> QED
    BY <2>1, <2>3 DEF Logged, Done
<1>20. CASE GiveUp

  <2>1. /\ log' = log /\ response_code' = response_code /\ cur' = cur /\ interims' = interims
        /\ \/ pc' = "closed" \/ (pc' = pc /\ pc # "closed") \/ (pc' = "select" /\ pc = "check")
           \/ (pc' = "response" /\ pc = "send")
    BY <1>20 DEF GiveUp, ovars
  <2> QED
    BY <2>1, <1>a, <1>b, <1>c, LinesKept DEF Logged, Done, Known
<1>21. CASE NoBody

  <2>1. /\ pc = "body" /\ interims' = interims /\ cur' = cur /\ \E v, cl, r : ResponseEnds(v, cl, r)
    BY <1>21, Zenon DEF NoBody
  <2> QED
    BY <2>1, <1>a, <1>c, LogEnds, Zenon
<1>22. CASE CopyBody

  <2>1. /\ pc = "body" /\ interims' = interims /\ cur' = cur /\ \E v, cl, r : ResponseEnds(v, cl, r)
    BY <1>22, Zenon DEF CopyBody
  <2> QED
    BY <2>1, <1>a, <1>c, LogEnds, Zenon
<1>23. CASE CopyToEof

  <2>1. /\ pc = "body" /\ interims' = interims /\ cur' = cur /\ \E v, cl, r : ResponseEnds(v, cl, r)
    BY <1>23, Zenon DEF CopyToEof
  <2> QED
    BY <2>1, <1>a, <1>c, LogEnds, Zenon
<1>24. CASE NotReadable

  <2>1. /\ pc = "body" /\ interims' = interims /\ cur' = cur /\ \E v, cl, r : ResponseEnds(v, cl, r)
    BY <1>24, Zenon DEF NotReadable
  <2> QED
    BY <2>1, <1>a, <1>c, LogEnds, Zenon
<1> QED
  BY <1>1, <1>2, <1>3, <1>4, <1>5, <1>6, <1>7, <1>8, <1>9, <1>10, <1>11, <1>12, <1>13, <1>14,
     <1>15, <1>16, <1>17, <1>18, <1>19, <1>20, <1>21, <1>22, <1>23, <1>24, NextCases

-----------------------------------------------------------------------------
(* What the answers to a request are after something was sent.             *)
LEMMA AnswerAdded ==
  ASSUME TypeOK, NEW i \in Nat, NEW w, out' = Append(out, [to |-> i, what |-> w])
  PROVE  /\ \A j : (j # i \/ w = "interim") => (Unanswered(j)' <=> Unanswered(j)) /\ (AtMostOnce(j) => AtMostOnce(j)')
         /\ w # "interim" => ~Unanswered(i)' /\ (Unanswered(i) => AtMostOnce(i)')
         /\ \A c \in Nat : UpTo(c) /\ i =< c => UpTo(c)'
         /\ \A j : Met(j) => Met(j)'
         /\ w = "interim" => Passed(i)'
<1> DEFINE n == Len(out)
           p == [to |-> i, what |-> w]
<1>1. /\ n \in Nat /\ DOMAIN out = 1 .. n /\ DOMAIN out' = 1 .. n + 1 /\ out'[n + 1] = p
      /\ \A x \in 1 .. n : out'[x] = out[x]
  BY DEF TypeOK
<1>2. p.to = i /\ p.what = w
  OBVIOUS
<1> HIDE DEF n, p
<1>3. \A j : \A x \in 1 .. n : IsAnswer(x, j)' <=> IsAnswer(x, j)
  BY <1>1 DEF IsAnswer
<1>4. \A j, x : x = n + 1 => (IsAnswer(x, j)' <=> (i = j /\ w # "interim"))
  BY <1>1, <1>2 DEF IsAnswer
<1>5. \A j : (j # i \/ w = "interim") => (Unanswered(j)' <=> Unanswered(j)) /\ (AtMostOnce(j) => AtMostOnce(j)')
  <2> SUFFICES ASSUME NEW j, j # i \/ w = "interim"
               PROVE  (Unanswered(j)' <=> Unanswered(j)) /\ (AtMostOnce(j) => AtMostOnce(j)')
    OBVIOUS
  <2>1. \A x \in 1 .. n + 1 : IsAnswer(x, j)' <=> (x \in 1 .. n /\ IsAnswer(x, j))
    BY <1>1, <1>3, <1>4
  <2> QED
    BY <1>1, <2>1 DEF Unanswered, AtMostOnce
<1>6. ASSUME w # "interim" PROVE ~Unanswered(i)' /\ (Unanswered(i) => AtMostOnce(i)')
  <2>1. \E x \in DOMAIN out' : IsAnswer(x, i)'
    BY <1>1, <1>4, <1>6
  <2>2. Unanswered(i) => \A x \in 1 .. n + 1 : IsAnswer(x, i)' => x = n + 1
    BY <1>1, <1>3 DEF Unanswered
  <2> QED
    BY <1>1, <2>1, <2>2 DEF Unanswered, AtMostOnce
<1>7. \A c \in Nat : UpTo(c) /\ i =< c => UpTo(c)'
  BY <1>1, <1>2 DEF UpTo
<1>8. \A j : Passed(j) => Passed(j)'
  BY <1>1 DEF Passed
<1>9. \A j : Met(j) => Met(j)'
  BY <1>5, <1>6, <1>8 DEF Met
<1>10. w = "interim" => Passed(i)'
  BY <1>1 DEF Passed, p
<1> QED
  BY <1>5, <1>6, <1>7, <1>9, <1>10

(* An answer to the request in hand, as the only one to it.                *)
LEMMA AnswerGiven ==
  ASSUME TypeOK, Answered, Unanswered(cur), cur' = cur, NEW w, w # "interim",
         out' = Answer(w, cur)
  PROVE  /\ UpTo(cur)' /\ ~Unanswered(cur)' /\ \A i \in 1 .. cur : Met(i)'
         /\ "broken" \notin hist => \A i \in 1 .. cur : AtMostOnce(i)'
<1>1. cur \in Nat /\ out' = Append(out, [to |-> cur, what |-> w])
  BY DEF Answer, TypeOK
<1>2. \A c : c = cur => ~Unanswered(c)' /\ AtMostOnce(c)' /\ UpTo(c)'
  BY <1>1, AnswerAdded DEF Answered
<1>3. "broken" \notin hist => \A i \in 1 .. cur : AtMostOnce(i)'
  <2> SUFFICES ASSUME "broken" \notin hist, NEW i \in 1 .. cur
               PROVE  AtMostOnce(i)'
    OBVIOUS
  <2>1. CASE i = cur
    BY <2>1, <1>2
  <2>2. CASE i # cur
    <3>1. AtMostOnce(i)
      BY DEF Answered
    <3> QED
      BY <3>1, <2>2, <1>1, AnswerAdded
  <2> QED
    BY <2>1, <2>2
<1>4. \A i \in 1 .. cur : Met(i)'
  <2>1. \A i \in 1 .. cur : i # cur => Met(i)
    BY DEF Answered
  <2>2. \A i \in 1 .. cur : i # cur => Met(i)'
    BY <2>1, <1>1, AnswerAdded
  <2>3. \A i : i = cur => Met(i)'
    BY <1>2 DEF Met
  <2> QED
    BY <2>2, <2>3
<1> QED
  BY <1>2, <1>3, <1>4

(* What was sent to the client stays sent.                                 *)
LEMMA OutKept ==
  ASSUME out' = out
  PROVE  \A j : /\ Unanswered(j)' <=> Unanswered(j)
                /\ AtMostOnce(j)' <=> AtMostOnce(j)
                /\ UpTo(j)' <=> UpTo(j)
                /\ Met(j)' <=> Met(j)
                /\ Passed(j)' <=> Passed(j)
  BY DEF Unanswered, AtMostOnce, UpTo, IsAnswer, Met, Passed

(* After a step that keeps it, from where do_http is before and after.     *)
LEMMA KeptAnswered ==
  ASSUME Answered, out' = out, cur' = cur, hist \subseteq hist', pc # "closed",
         "broken" \in hist' => pc' = "closed",
         \/ pc' = "closed"
         \/ pc' = pc /\ pc # "body"
         \/ pc' = pc /\ skip' = skip /\ resp' = resp /\ no_cont' = no_cont
         \/ /\ pc \in {"check", "select", "internal", "send", "response"}
            /\ pc' \in {"check", "select", "internal", "send", "response"}
         \/ pc = "body" /\ skip /\ pc' = "response"
         \/ pc = "body" /\ ~skip /\ pc' = "read"
  PROVE  Answered'
<1>1. /\ Unanswered(cur)' <=> Unanswered(cur)
      /\ UpTo(cur)' <=> UpTo(cur)
      /\ \A j : AtMostOnce(j) <=> AtMostOnce(j)'
      /\ \A j : Met(j) <=> Met(j)'
      /\ Passed(cur)' <=> Passed(cur)
  BY OutKept
<1>2. /\ UpTo(cur)'
      /\ \A i \in 1 .. cur' : AtMostOnce(i)' \/ (i = cur' /\ "broken" \in hist')
  BY <1>1 DEF Answered
<1>3. "broken" \in hist' => pc' = "closed"
  BY DEF Answered
<1>4. pc = "body" /\ ~skip => \A i : i = cur => Met(i)'
  BY <1>1 DEF Answered, Met
<1>5. \A i \in 1 .. cur' : Met(i)' \/ (i = cur' /\ pc' # "read")
  BY <1>1, <1>4 DEF Answered
<1> QED
  BY <1>1, <1>2, <1>3, <1>5 DEF Answered

(* An answer to the current request, after which the worker reads the next *)
(* one or closes.                                                          *)
LEMMA GivenAnswered ==
  ASSUME TypeOK, Answered, NEW w \in {"final", "error"}, out' = Answer(w, cur), cur' = cur,
         pc \in {"check", "select", "internal", "send", "response"}, pc' \in {"read", "closed"},
         hist \subseteq hist', "broken" \in hist' => pc' = "closed"
  PROVE  Answered'
<1>1. Unanswered(cur) /\ "broken" \notin hist
  BY DEF Answered
<1>2. /\ UpTo(cur)' /\ ~Unanswered(cur)'
      /\ \A i \in 1 .. cur : AtMostOnce(i)' /\ Met(i)'
  BY <1>1, AnswerGiven
<1> QED
  BY <1>1, <1>2 DEF Answered

(* do_http takes the requests in the order of their numbers.               *)
LEMMA TakesNext ==
  ASSUME TypeOK, Numbered, ReadRequest
  PROVE  cur' = cur + 1
<1>1. pc = "read" /\ cin # <<>> /\ Head(cin).part = "head" /\ cur' = Head(cin).id
  BY DEF ReadRequest
<1>2. cin[1] = Head(cin)
  BY <1>1, HeadAndTail DEF TypeOK
<1> QED
  BY <1>1, <1>2 DEF Numbered, IdAfter

(* Every step leaves every request with one answer.                        *)
LEMMA AnsweredStep ==
  ASSUME TypeOK, Numbered, Answered, Next
  PROVE  Answered'
<1>c. Recorded
  BY HistCases
<1>a. hist \subseteq hist' /\ ("broken" \in hist' => pc' = "closed") /\ "broken" \notin hist
  <2>1. pc # "closed"
    BY StreamCases
  <2>2. InternalFails => pc' = "closed"
    BY DEF InternalFails, HandlerFails
  <2> QED
    BY <1>c, <2>1, <2>2 DEF Recorded, Answered
<1>b. Answered
  OBVIOUS
<1>1. CASE \E k \in ReqKinds : ClientSends(k)

  <2>1. PICK k \in ReqKinds : ClientSends(k)
    BY <1>1
  <2>2. /\ out' = out /\ cur' = cur /\ pc # "closed" /\ pc' = pc /\ skip' = skip /\ resp' = resp
        /\ no_cont' = no_cont
    BY <2>1 DEF ClientSends, pvars, ovars
  <2> QED
    BY <2>2, <1>a, KeptAnswered
<1>2. CASE \E k \in RespKinds : BackendInterim(k)

  <2>1. PICK k \in RespKinds : BackendInterim(k)
    BY <1>2
  <2>2. /\ out' = out /\ cur' = cur /\ pc # "closed" /\ pc' = pc /\ skip' = skip /\ resp' = resp
        /\ no_cont' = no_cont
    BY <2>1 DEF BackendInterim, Ready, pvars, ovars
  <2> QED
    BY <2>2, <1>a, KeptAnswered
<1>3. CASE \E k \in RespKinds : BackendResponds(k)

  <2>1. PICK k \in RespKinds : BackendResponds(k)
    BY <1>3
  <2>2. /\ out' = out /\ cur' = cur /\ pc # "closed" /\ pc' = pc /\ skip' = skip /\ resp' = resp
        /\ no_cont' = no_cont
    BY <2>1 DEF BackendResponds, Ready, pvars, ovars
  <2> QED
    BY <2>2, <1>a, KeptAnswered
<1>4. CASE ClientCloses

  <2>1. /\ out' = out /\ cur' = cur /\ pc # "closed" /\ pc' = pc /\ skip' = skip /\ resp' = resp
        /\ no_cont' = no_cont
    BY <1>4 DEF ClientCloses, pvars, ovars
  <2> QED
    BY <2>1, <1>a, KeptAnswered
<1>5. CASE BackendBody

  <2>1. /\ out' = out /\ cur' = cur /\ pc # "closed" /\ pc' = pc /\ skip' = skip /\ resp' = resp
        /\ no_cont' = no_cont
    BY <1>5 DEF BackendBody, pvars, ovars
  <2> QED
    BY <2>1, <1>a, KeptAnswered
<1>6. CASE BackendCloses

  <2>1. /\ out' = out /\ cur' = cur /\ pc # "closed" /\ pc' = pc /\ skip' = skip /\ resp' = resp
        /\ no_cont' = no_cont
    BY <1>6 DEF BackendCloses, pvars, ovars
  <2> QED
    BY <2>1, <1>a, KeptAnswered
<1>7. CASE ReadFails

  <2>1. out' = out /\ cur' = cur /\ pc # "closed" /\ pc' = "closed"
    BY <1>7 DEF ReadFails, ovars
  <2> QED
    BY <2>1, <1>a, KeptAnswered
<1>8. CASE ReadRequest

  <2>1. /\ pc = "read" /\ hist' = hist
        /\ (pc' = "check" /\ out' = out) \/ (pc' = "closed" /\ out' = Answer("error", cur'))
    BY <1>8 DEF ReadRequest, Refuse, ovars
  <2>2. cur' = cur + 1 /\ cur \in Nat
    BY <1>8, TakesNext DEF TypeOK
  <2>3. "broken" \notin hist
    BY <2>1 DEF Answered
  <2>4. \A c : c = cur + 1 => Unanswered(c) /\ AtMostOnce(c) /\ UpTo(c)
    <3>1. \A n \in DOMAIN out : out[n].to \in Nat /\ out[n].to =< cur
      <4>1. \A n \in DOMAIN out : out[n] \in Outputs
        BY DEF TypeOK
      <4> QED
        BY <4>1, HttpAssumption DEF Outputs, Answered, UpTo
    <3> QED
      BY <2>2, <3>1 DEF UpTo, Unanswered, AtMostOnce, IsAnswer
  <2>5. \A i \in 1 .. cur + 1 : AtMostOnce(i)
    BY <2>2, <2>3, <2>4 DEF Answered
  <2>8. \A i \in 1 .. cur + 1 : i # cur + 1 => Met(i)
    BY <2>1, <2>2 DEF Answered
  <2>6. CASE pc' = "check" /\ out' = out
    <3>1. \A c : c = cur + 1 => Unanswered(c)' /\ AtMostOnce(c)' /\ UpTo(c)'
      BY <2>4, <2>6, OutKept
    <3>2. \A i \in 1 .. cur + 1 : AtMostOnce(i)'
      BY <2>5, <2>6, OutKept
    <3>3. \A i \in 1 .. cur + 1 : i # cur + 1 => Met(i)'
      BY <2>8, <2>6, OutKept
    <3> QED
      BY <2>1, <2>2, <2>3, <2>6, <3>1, <3>2, <3>3 DEF Answered
  <2>7. CASE pc' = "closed" /\ out' = Answer("error", cur')
    <3>1. out' = Append(out, [to |-> cur + 1, what |-> "error"])
      BY <2>2, <2>7 DEF Answer
    <3>2. \A i \in 1 .. cur + 1 : AtMostOnce(i)'
      BY <2>2, <2>4, <2>5, <3>1, AnswerAdded
    <3>3. \A c : c = cur + 1 => UpTo(c)'
      BY <2>2, <2>4, <3>1, AnswerAdded
    <3>4. \A i \in 1 .. cur + 1 : i # cur + 1 => Met(i)'
      BY <2>2, <2>8, <3>1, AnswerAdded
    <3> QED
      BY <2>1, <2>2, <2>3, <2>7, <3>2, <3>3, <3>4 DEF Answered
  <2> QED
    BY <2>1, <2>6, <2>7
<1>9. CASE ReadGarbage

  <2>1. /\ pc = "read" /\ pc' = "closed" /\ cur' = cur
        /\ out' = Append(out, [to |-> 0, what |-> "error"])
    BY <1>9 DEF ReadGarbage, Refuse, Answer
  <2>2. cur \in Nat /\ "broken" \notin hist
    BY <2>1 DEF Answered, TypeOK
  <2>3. \A i \in 1 .. cur : AtMostOnce(i)'
    BY <2>1, <2>2, AnswerAdded DEF Answered
  <2>4. \A c : c = cur => UpTo(c)'
    BY <2>1, <2>2, AnswerAdded DEF Answered
  <2>5. \A i \in 1 .. cur : Met(i)'
    BY <2>1, <2>2, AnswerAdded DEF Answered
  <2> QED
    BY <2>1, <2>2, <2>3, <2>4, <2>5, <1>a DEF Answered
<1>10. CASE CheckBackend

  <2>1. out' = out /\ cur' = cur /\ pc # "closed" /\ pc = "check" /\ pc' = "select"
    BY <1>10 DEF CheckBackend, ovars
  <2> QED
    BY <2>1, <1>a, KeptAnswered
<1>11. CASE SelectFails

  <2>1. /\ pc \in {"check", "select", "internal", "send", "response"} /\ pc' = "closed" /\ cur' = cur
        /\ out' = Answer("error", cur)
    BY <1>11 DEF SelectFails, Refuse
  <2> QED
    BY <2>1, <1>a, <1>b, GivenAnswered
<1>12. CASE \E b \in Regular \cup Internal : select_backend(b)

  <2>1. PICK b \in Regular \cup Internal : select_backend(b)
    BY <1>12
  <2>2. out' = out /\ cur' = cur /\ pc # "closed" /\ pc = "select" /\ pc' \in {"send", "internal"}
    BY <2>1 DEF select_backend, ovars
  <2> QED
    BY <2>2, <1>a, KeptAnswered
<1>13. CASE InternalReply

  <2>1. /\ pc = "internal" /\ pc' \in {"read", "closed"} /\ cur' = cur /\ out' = Answer("final", cur)
    BY <1>13 DEF InternalReply, Again
  <2> QED
    BY <2>1, <1>a, <1>b, GivenAnswered
<1>14. CASE InternalFails

  <2>1. pc = "internal" /\ pc' = "closed" /\ cur' = cur /\ hist \subseteq hist'
    BY <1>14, <1>c DEF InternalFails, HandlerFails, Recorded
  <2>2. CASE out' = Answer("error", cur) /\ hist' = hist
    BY <2>1, <2>2, GivenAnswered
  <2>3. CASE out' = out /\ hist' = hist
    BY <2>1, <2>3, KeptAnswered
  <2>4. CASE out' = Answer("final", cur) \o <<[to |-> cur, what |-> "error"]>> /\ "broken" \in hist'
    <3> DEFINE a == [to |-> cur, what |-> "final"]
               b == [to |-> cur, what |-> "error"]
    <3>1. a.to = cur /\ b.to = cur /\ cur \in Nat
      BY DEF TypeOK
    <3>2. out \in Seq(Outputs) /\ out' = Append(out, a) \o <<b>>
      BY <2>4 DEF Answer, TypeOK
    <3>3. a \in Outputs /\ b \in Outputs
      BY HttpAssumption DEF Outputs, TypeOK
    <3> HIDE DEF a, b
    <3>4. \A n \in DOMAIN out' : (n \in DOMAIN out /\ out'[n] = out[n]) \/ out'[n] = a \/ out'[n] = b
      BY <3>2, <3>3
    <3>5. \A n \in DOMAIN out : n \in DOMAIN out' /\ out'[n] = out[n]
      BY <3>2, <3>3
    <3>6. \A n \in DOMAIN out' : out'[n].to =< cur
      BY <3>1, <3>4 DEF Answered, UpTo
    <3>7. \A i \in 1 .. cur : i # cur => AtMostOnce(i) /\ Met(i)
      BY DEF Answered
    <3>8. \A i : i # cur => \A n \in DOMAIN out' : IsAnswer(n, i)' => n \in DOMAIN out /\ IsAnswer(n, i)
      BY <3>1, <3>4 DEF IsAnswer
    <3>9. \A i \in 1 .. cur : i # cur => AtMostOnce(i)'
      BY <3>7, <3>8 DEF AtMostOnce
    <3>10. \A i \in 1 .. cur : i # cur => Met(i)'
      BY <3>5, <3>7 DEF Met, Passed, Unanswered, IsAnswer
    <3> QED
      BY <2>1, <2>4, <3>6, <3>9, <3>10 DEF Answered, UpTo
  <2> QED
    BY <1>14, <2>2, <2>3, <2>4, Zenon DEF InternalFails, HandlerFails, ovars
<1>15. CASE send_to_backend

  <2>1. out' = out /\ cur' = cur /\ pc # "closed" /\ pc = "send" /\ pc' = "response"
    BY <1>15 DEF send_to_backend, ovars
  <2> QED
    BY <2>1, <1>a, KeptAnswered
<1>16. CASE SendFails

  <2>1. /\ pc \in {"check", "select", "internal", "send", "response"} /\ pc' = "closed" /\ cur' = cur
        /\ out' = Answer("error", cur)
    BY <1>16 DEF SendFails, HandlerFails
  <2> QED
    BY <2>1, <1>a, <1>b, GivenAnswered
<1>17. CASE ResponseHead

  <2> DEFINE k == Head(chan.out).kind
  <2>1. /\ pc = "response" /\ pc' = "body" /\ cur' = cur /\ skip' = skip /\ resp' = k /\ chan.out # <<>>
        /\ out' = IF skip THEN out ELSE Answer(IF k.status # "1xx" THEN "final" ELSE "interim", cur)
        /\ no_cont' = NoContent(k)
    BY <1>17 DEF ResponseHead
  <2>2. k \in RespKinds
    BY <2>1, ResponseRead
  <2>3. k.status = "1xx" => no_cont'
    BY <2>1, <2>2, HttpAssumption DEF NoContent
  <2> HIDE DEF k
  <2>4. Unanswered(cur) /\ "broken" \notin hist /\ "broken" \notin hist'
    BY <2>1, <1>a DEF Answered
  <2>5. CASE skip
    <3>1. out' = out
      BY <2>1, <2>5
    <3>2. Unanswered(cur)' /\ UpTo(cur)' /\ \A i \in 1 .. cur : AtMostOnce(i)'
      BY <2>1, <2>4, <3>1, OutKept DEF Answered
    <3>3. \A i \in 1 .. cur : i # cur => Met(i)'
      BY <3>1, OutKept DEF Answered
    <3> QED
      BY <2>1, <2>3, <2>4, <2>5, <3>2, <3>3 DEF Answered
  <2>6. CASE ~skip /\ k.status # "1xx"
    <3>1. out' = Answer("final", cur)
      BY <2>1, <2>6
    <3>2. ~Unanswered(cur)' /\ UpTo(cur)' /\ \A i \in 1 .. cur : AtMostOnce(i)' /\ Met(i)'
      BY <2>1, <2>4, <3>1, AnswerGiven
    <3> QED
      BY <2>1, <2>4, <2>6, <3>2 DEF Answered
  <2>7. CASE ~skip /\ k.status = "1xx"
    <3>1. out' = Append(out, [to |-> cur, what |-> "interim"]) /\ cur \in Nat
      BY <2>1, <2>7 DEF Answer, TypeOK
    <3>2. \A c : c = cur => Unanswered(c)' /\ UpTo(c)' /\ Passed(c)'
      BY <2>4, <3>1, AnswerAdded DEF Answered
    <3>3. \A i \in 1 .. cur : AtMostOnce(i)'
      BY <2>4, <3>1, AnswerAdded DEF Answered
    <3>4. \A i \in 1 .. cur : i # cur => Met(i)'
      BY <3>1, AnswerAdded DEF Answered
    <3> QED
      BY <2>1, <2>3, <2>4, <2>7, <3>2, <3>3, <3>4 DEF Answered
  <2> QED
    BY <2>5, <2>6, <2>7
<1>18. CASE ResponseContinue

  <2>1. out' = out /\ cur' = cur /\ pc # "closed" /\ pc = "response" /\ pc' = "response"
    BY <1>18 DEF ResponseContinue
  <2> QED
    BY <2>1, <1>a, KeptAnswered
<1>19. CASE ResponseFails

  <2>1. /\ pc \in {"check", "select", "internal", "send", "response"} /\ pc' = "closed" /\ cur' = cur
        /\ out' = Answer("error", cur)
    BY <1>19 DEF ResponseFails, HandlerFails
  <2> QED
    BY <2>1, <1>a, <1>b, GivenAnswered
<1>20. CASE GiveUp

  <2>1. out' = out /\ cur' = cur /\ pc # "closed" /\ pc' = "closed"
    BY <1>20 DEF GiveUp, ovars
  <2> QED
    BY <2>1, <1>a, KeptAnswered
<1>21. CASE NoBody

  <2>1. out' = out /\ cur' = cur /\ pc = "body"
    BY <1>21 DEF NoBody
  <2>2. (skip /\ pc' = "response") \/ (~skip /\ pc' \in {"read", "closed"})
    BY <1>21, Zenon DEF NoBody, ResponseEnds, Again
  <2> QED
    BY <2>1, <2>2, <1>a, KeptAnswered
<1>22. CASE CopyBody

  <2>1. out' = out /\ cur' = cur /\ pc = "body"
    BY <1>22 DEF CopyBody
  <2>2. (skip /\ pc' = "response") \/ (~skip /\ pc' \in {"read", "closed"})
    BY <1>22, Zenon DEF CopyBody, ResponseEnds, Again
  <2> QED
    BY <2>1, <2>2, <1>a, KeptAnswered
<1>23. CASE CopyToEof

  <2>1. out' = out /\ cur' = cur /\ pc = "body"
    BY <1>23 DEF CopyToEof
  <2>2. (skip /\ pc' = "response") \/ (~skip /\ pc' \in {"read", "closed"})
    BY <1>23, Zenon DEF CopyToEof, ResponseEnds, Again
  <2> QED
    BY <2>1, <2>2, <1>a, KeptAnswered
<1>24. CASE NotReadable

  <2>1. out' = out /\ cur' = cur /\ pc = "body"
    BY <1>24 DEF NotReadable
  <2>2. (skip /\ pc' = "response") \/ (~skip /\ pc' \in {"read", "closed"})
    BY <1>24, Zenon DEF NotReadable, ResponseEnds, Again
  <2> QED
    BY <2>1, <2>2, <1>a, KeptAnswered
<1> QED
  BY <1>1, <1>2, <1>3, <1>4, <1>5, <1>6, <1>7, <1>8, <1>9, <1>10, <1>11, <1>12, <1>13, <1>14,
     <1>15, <1>16, <1>17, <1>18, <1>19, <1>20, <1>21, <1>22, <1>23, <1>24, NextCases

-----------------------------------------------------------------------------
(* The answers to a request, counted.                                      *)
LEMMA OneAnswerHolds ==
  ASSUME TypeOK, Answered
  PROVE  OneAnswer
<1> DEFINE S(i) == {n \in DOMAIN out : out[n].to = i /\ out[n].what # "interim"}
<1>1. \A i : Answers(i) = Cardinality(S(i))
  BY DEF Answers
<1>2. \A i : Unanswered(i) <=> S(i) = {}
  BY DEF Unanswered, IsAnswer
<1>3. \A i : AtMostOnce(i) => S(i) = {} \/ \E n : S(i) = {n}
  <2> SUFFICES ASSUME NEW i, AtMostOnce(i), S(i) # {}
               PROVE  \E n : S(i) = {n}
    OBVIOUS
  <2>1. PICK n : n \in S(i)
    OBVIOUS
  <2>2. \A m \in S(i) : m = n
    BY <2>1 DEF AtMostOnce, IsAnswer
  <2>3. S(i) = {n}
    BY <2>1, <2>2
  <2> QED
    BY <2>3
<1> HIDE DEF S
<1>4. \A i : AtMostOnce(i) => Answers(i) = IF Unanswered(i) THEN 0 ELSE 1
  <2> SUFFICES ASSUME NEW i, AtMostOnce(i)
               PROVE  Answers(i) = IF Unanswered(i) THEN 0 ELSE 1
    OBVIOUS
  <2>1. CASE S(i) = {}
    BY <1>1, <1>2, <2>1, FS_EmptySet
  <2>2. CASE S(i) # {} /\ \E n : S(i) = {n}
    BY <1>1, <1>2, <2>2, FS_Singleton
  <2> QED
    BY <1>3, <2>1, <2>2
<1>5. \A i \in 1 .. cur : Answers(i) =< 1 \/ (i = cur /\ "broken" \in hist)
  BY <1>4 DEF Answered
<1>6. pc = "read" => \A i \in 1 .. cur : Answers(i) = 1 \/ Passed(i)
  BY <1>4 DEF Answered, Met
<1> QED
  BY <1>5, <1>6 DEF OneAnswer

-----------------------------------------------------------------------------
(* What is on the connection to the backend, as parts come and go.         *)
LEMMA PairsIdle ==
  ASSUME NEW c, NEW hd, NEW in \in {<<>>, <<c>>}, NEW f, NEW h
  PROVE  Pairs(c, hd, <<>>, in, NoResp, f, h)
  BY DEF Pairs

(* The backend sends an interim response.                                  *)
LEMMA PairsInterim ==
  ASSUME NEW c, NEW hd, NEW q \in Seq(Parts(RespKinds)), NEW in, NEW b, NEW f, NEW h,
         Pairs(c, hd, q, in, b, f, h), in # <<>>,
         NEW p \in Parts(RespKinds), IsInterim(p), p.id = c
  PROVE  Pairs(c, hd, Append(q, p), in, b, f, h)
<1> DEFINE r == Append(q, p)
           n == Len(q)
<1>1. /\ n \in Nat /\ Len(r) = n + 1 /\ r[n + 1] = p /\ \A i \in 1 .. n : r[i] = q[i]
  OBVIOUS
<1> HIDE DEF r
<1>2. in = <<c>> /\ b = NoResp /\ \A i \in 1 .. n : q[i].id = c /\ IsInterim(q[i])
  BY DEF Pairs
<1>3. \A i \in 1 .. n + 1 : r[i].id = c /\ IsInterim(r[i])
  BY <1>1, <1>2
<1>4. \A i \in 1 .. n + 1 : ~IsFinal(r[i]) /\ r[i].part # "body"
  BY <1>3 DEF IsInterim, IsFinal
<1>5. Pairs(c, hd, r, in, b, f, h)
  BY <1>1, <1>2, <1>3, <1>4 DEF Pairs
<1> QED
  BY <1>5 DEF r

(* The backend sends the head of the final response.                       *)
LEMMA PairsFinal ==
  ASSUME NEW c, NEW hd, NEW q \in Seq(Parts(RespKinds)), NEW in, NEW b, NEW f, NEW h,
         Pairs(c, hd, q, in, b, f, h), in # <<>>,
         NEW p \in Parts(RespKinds), IsFinal(p), p.id = c,
         NEW b2, b2 = IF SendsBody(hd, p.kind) THEN p.kind ELSE NoResp
  PROVE  Pairs(c, hd, Append(q, p), <<>>, b2, c, h)
<1> DEFINE r == Append(q, p)
           n == Len(q)
<1>1. /\ n \in Nat /\ Len(r) = n + 1 /\ r[n + 1] = p /\ \A i \in 1 .. n : r[i] = q[i]
  OBVIOUS
<1> HIDE DEF r
<1>2. \A i \in 1 .. n : q[i].id = c /\ IsInterim(q[i])
  BY DEF Pairs
<1>3. \A i \in 1 .. n + 1 : r[i].id = c /\ r[i].part # "body" /\ (i # n + 1 => ~IsFinal(r[i]))
  BY <1>1, <1>2 DEF IsInterim, IsFinal
<1>4. b2 # NoResp => SendsBody(hd, b2) /\ b2 = r[n + 1].kind /\ IsFinal(r[n + 1])
  BY <1>1
<1>5. Pairs(c, hd, r, <<>>, b2, c, h)
  BY <1>1, <1>3, <1>4 DEF Pairs
<1> QED
  BY <1>5 DEF r

(* The backend sends the body that belongs to the head before it.          *)
LEMMA PairsBody ==
  ASSUME NEW c, NEW hd, NEW q \in Seq(Parts(RespKinds)), NEW in, NEW b, NEW f, NEW h,
         Pairs(c, hd, q, in, b, f, h), b # NoResp,
         NEW p \in Parts(RespKinds), p.part = "body", p.id = f, p.kind = b
  PROVE  Pairs(c, hd, Append(q, p), in, NoResp, f, h)
<1> DEFINE r == Append(q, p)
           n == Len(q)
<1>1. /\ n \in Nat /\ Len(r) = n + 1 /\ r[n + 1] = p /\ \A i \in 1 .. n : r[i] = q[i]
  OBVIOUS
<1> HIDE DEF r
<1>2. /\ in = <<>> /\ f = c /\ SendsBody(hd, b)
      /\ IF n > 0 THEN IsFinal(q[n]) /\ q[n].kind = b ELSE h = b
  BY DEF Pairs
<1>3. \A i \in 1 .. n : q[i].id = c /\ q[i].part # "body" /\ (IsFinal(q[i]) => i = n)
  BY <1>1, <1>2 DEF Pairs, IsFinal
<1>4. \A i \in 1 .. n + 1 : r[i].id = c /\ (r[i].part = "body" => i = n + 1) /\ (IsFinal(r[i]) => i = n)
  BY <1>1, <1>2, <1>3 DEF IsFinal
<1>5. IF n > 0 THEN IsFinal(r[n]) /\ r[n].kind = r[n + 1].kind ELSE h = r[n + 1].kind
  BY <1>1, <1>2
<1>6. Pairs(c, hd, r, in, NoResp, f, h)
  BY <1>1, <1>2, <1>4, <1>5 DEF Pairs
<1> QED
  BY <1>6 DEF r

(* The backend closes: the body will not come.                             *)
LEMMA PairsEof ==
  ASSUME NEW c, NEW hd, NEW q, NEW in, NEW b, NEW f, NEW h, NEW g, Pairs(c, hd, q, in, b, f, h)
  PROVE  Pairs(c, hd, q, in, NoResp, g, h)
  BY DEF Pairs

(* The worker reads an interim response.                                   *)
LEMMA PairsTakeInterim ==
  ASSUME NEW c, NEW hd, NEW q \in Seq(Parts(RespKinds)), NEW in, NEW b, NEW f, NEW h, NEW h2,
         Pairs(c, hd, q, in, b, f, h), q # <<>>, IsInterim(q[1])
  PROVE  Pairs(c, hd, Tail(q), in, b, f, h2)
<1> DEFINE r == Tail(q)
           n == Len(q)
<1>1. /\ n \in Nat /\ n > 0 /\ Len(r) = n - 1 /\ \A i \in 1 .. n - 1 : r[i] = q[i + 1]
  BY HeadAndTail
<1> HIDE DEF r
<1>2. ~IsFinal(q[1]) /\ q[1].part # "body"
  BY DEF IsInterim, IsFinal
<1>3. /\ in \in {<<>>, <<c>>}
      /\ \A i \in 1 .. n - 1 : r[i].id = c
      /\ in # <<>> => b = NoResp /\ \A i \in 1 .. n - 1 : IsInterim(r[i])
  BY <1>1 DEF Pairs
<1>4. \A i \in 1 .. n - 1 : IsFinal(r[i]) => i = n - 1 \/ (i = n - 2 /\ r[n - 1].part = "body")
  BY <1>1 DEF Pairs
<1>5. \A i \in 1 .. n - 1 : r[i].part = "body" =>
        /\ i = n - 1 /\ b = NoResp /\ SendsBody(hd, r[n - 1].kind)
        /\ n - 1 > 1 /\ IsFinal(r[n - 2]) /\ r[n - 2].kind = r[n - 1].kind
  <2> SUFFICES ASSUME NEW i \in 1 .. n - 1, r[i].part = "body"
               PROVE  /\ i = n - 1 /\ b = NoResp /\ SendsBody(hd, r[n - 1].kind)
                      /\ n - 1 > 1 /\ IsFinal(r[n - 2]) /\ r[n - 2].kind = r[n - 1].kind
    OBVIOUS
  <2>1. i + 1 \in 1 .. n /\ q[i + 1].part = "body" /\ n > 1
    BY <1>1
  <2>2. /\ i + 1 = n /\ b = NoResp /\ SendsBody(hd, q[n].kind)
        /\ IsFinal(q[n - 1]) /\ q[n - 1].kind = q[n].kind
    BY <2>1 DEF Pairs
  <2>3. n - 1 # 1
    BY <1>2, <2>2
  <2>4. n - 1 \in 1 .. n - 1 /\ n - 2 \in 1 .. n - 1 /\ r[n - 1] = q[n] /\ r[n - 2] = q[n - 1]
    BY <1>1, <2>1, <2>3
  <2> QED
    BY <1>1, <2>1, <2>2, <2>3, <2>4
<1>6. b # NoResp => SendsBody(hd, b) /\ f = c /\ n - 1 > 0 /\ IsFinal(r[n - 1]) /\ r[n - 1].kind = b
  <2> HAVE b # NoResp
  <2>1. SendsBody(hd, b) /\ f = c /\ IsFinal(q[n]) /\ q[n].kind = b
    BY <1>1 DEF Pairs
  <2>2. n - 1 \in 1 .. n - 1 /\ r[n - 1] = q[n]
    BY <1>1, <1>2, <2>1
  <2> QED
    BY <2>1, <2>2
<1>7. Pairs(c, hd, r, in, b, f, h2)
  BY <1>1, <1>3, <1>4, <1>5, <1>6 DEF Pairs
<1> QED
  BY <1>7 DEF r

(* The worker reads the head of the final response: nothing but its body   *)
(* is left, or still to come.                                              *)
LEMMA PairsTakeFinal ==
  ASSUME NEW c, NEW hd, NEW q \in Seq(Parts(RespKinds)), NEW in, NEW b, NEW f, NEW h,
         Pairs(c, hd, q, in, b, f, h), q # <<>>, IsFinal(q[1])
  PROVE  in = <<>> /\ OnlyBody(Tail(q)) /\ Pairs(c, hd, Tail(q), in, b, f, q[1].kind)
<1> DEFINE r == Tail(q)
           n == Len(q)
<1>1. /\ n \in Nat /\ n > 0 /\ Len(r) = n - 1 /\ \A i \in 1 .. n - 1 : r[i] = q[i + 1]
  BY HeadAndTail
<1> HIDE DEF r
<1>2. ~IsInterim(q[1])
  BY DEF IsInterim, IsFinal
<1>3. in = <<>> /\ \A i \in 1 .. n : q[i].id = c
  BY <1>1, <1>2 DEF Pairs
<1>4. n = 1 \/ (n = 2 /\ q[2].part = "body")
  BY <1>1 DEF Pairs
<1>5. CASE n = 1
  <2>1. b # NoResp => SendsBody(hd, b) /\ f = c /\ q[1].kind = b
    BY <1>5 DEF Pairs
  <2>2. Len(r) = 0
    BY <1>1, <1>5
  <2>3. Pairs(c, hd, r, in, b, f, q[1].kind) /\ OnlyBody(r)
    BY <1>3, <2>1, <2>2 DEF Pairs, OnlyBody
  <2> QED
    BY <1>3, <2>3 DEF r
<1>6. CASE n = 2 /\ q[2].part = "body"
  <2>1. b = NoResp /\ SendsBody(hd, q[2].kind) /\ q[1].kind = q[2].kind
    BY <1>6 DEF Pairs
  <2>2. Len(r) = 1 /\ r[1] = q[2] /\ ~IsFinal(r[1])
    BY <1>1, <1>6 DEF IsFinal
  <2>3. Pairs(c, hd, r, in, b, f, q[1].kind) /\ OnlyBody(r)
    BY <1>3, <1>6, <2>1, <2>2 DEF Pairs, OnlyBody
  <2> QED
    BY <1>3, <2>3 DEF r
<1> QED
  BY <1>4, <1>5, <1>6

(* When the content of a response has been read, or there is none, nothing *)
(* is left.                                                                *)
LEMMA PairsDone ==
  ASSUME NEW c, NEW hd, NEW q \in Seq(Parts(RespKinds)), NEW b, NEW f, NEW h,
         Pairs(c, hd, q, <<>>, b, f, h), OnlyBody(q)
  PROVE  /\ ~SendsBody(hd, h) => q = <<>> /\ b = NoResp
         /\ q # <<>> => Tail(q) = <<>> /\ b = NoResp
<1>1. Len(q) \in Nat /\ (q = <<>> <=> Len(q) = 0)
  OBVIOUS
<1>2. Len(q) > 0 => Len(q) = 1
  <2> HAVE Len(q) > 0
  <2>1. 1 \in 1 .. Len(q) /\ q[1].part = "body"
    BY <1>1 DEF OnlyBody
  <2> QED
    BY <2>1 DEF Pairs
<1>3. Len(q) = 1 => b = NoResp /\ SendsBody(hd, h)
  BY DEF Pairs, OnlyBody
<1>4. Len(q) = 0 /\ b # NoResp => SendsBody(hd, h)
  BY DEF Pairs
<1>5. q # <<>> => (Tail(q) = <<>> <=> Len(q) = 1)
  BY HeadAndTail
<1> QED
  BY <1>1, <1>2, <1>3, <1>4, <1>5

(* Where requests and responses match, unless the connection is loose.     *)
Live == "loose" \notin hist /\ pc # "closed"

(* While a backend has something to send, a response is waited for.        *)
LEMMA UnderWay ==
  ASSUME TypeOK, Matched, Live, chan.in # <<>> \/ chan.body # NoResp
  PROVE  /\ \/ pc = "response" /\ Paired(NoResp)
            \/ pc = "body" /\ Paired(resp)
         /\ chan.in # <<>> => chan.in = <<cur>> /\ Head(chan.in) = cur /\ Tail(chan.in) = <<>>
         /\ pc = "response" => (no_cont <=> Req.head)
         /\ pc = "body" /\ chan.in # <<>> => resp.status = "1xx"
<1>1. pc \in {"response", "body"}
  BY DEF Matched, Live, Idle, TypeOK
<1>2. \/ pc = "response" /\ Paired(NoResp)
      \/ pc = "body" /\ Paired(resp)
  BY <1>1 DEF Matched, Live
<1>3. chan.in # <<>> => chan.in = <<cur>>
  BY <1>2 DEF Paired, Pairs
<1>4. pc = "response" => (no_cont <=> Req.head)
  BY DEF Matched, Live, Idle
<1>5. pc = "body" /\ chan.in # <<>> => resp.status = "1xx"
  BY DEF Matched, Live
<1>6. Head(<<cur>>) = cur /\ Tail(<<cur>>) = <<>>
  OBVIOUS
<1> QED
  BY <1>2, <1>3, <1>4, <1>5, <1>6

(* A step of the backend, which leaves the worker where it is.             *)
LEMMA BackendMatched ==
  ASSUME TypeOK, Matched, Live, UNCHANGED <<sent, pc, cur, no_cont, resp, hist>>,
         chan.in # <<>> \/ chan.body # NoResp,
         Pairs(cur, Req.head, chan'.out, chan'.in, chan'.body, chan'.of, IF pc = "body" THEN resp ELSE NoResp),
         pc = "body" /\ resp.status # "1xx" => chan'.in = <<>> /\ OnlyBody(chan'.out)
  PROVE  Matched'
<1>1. Req' = Req
  BY DEF Req
<1>2. CASE pc = "response"
  <2>1. Paired(NoResp)' /\ (no_cont <=> Req.head)
    BY <1>1, <1>2, UnderWay DEF Paired
  <2> QED
    BY <1>1, <1>2, <2>1 DEF Matched
<1>3. CASE pc = "body"
  <2>1. Paired(resp)'
    BY <1>1, <1>3 DEF Paired
  <2> QED
    BY <1>1, <1>3, <2>1 DEF Matched, Live
<1> QED
  BY <1>2, <1>3, UnderWay

(* The end of a response that has left nothing behind.                     *)
LEMMA EndMatched ==
  ASSUME TypeOK, pc = "body", NEW v, NEW cl, NEW r, r = <<>>, ResponseEnds(v, cl, r),
         chan.in = <<>>, chan.body = NoResp
  PROVE  Matched'
<1>1. r \in Seq(Parts(RespKinds))
  OBVIOUS
<1>2. \/ chan'.out = <<>> /\ chan'.in = <<>> /\ chan'.body = NoResp
      \/ chan' = NoChan
  BY <1>1, EndEffect, Zenon
<1>3. Idle'
  BY <1>2 DEF Idle, NoChan
<1>4. pc' \in {"read", "response", "closed"}
  BY DEF ResponseEnds, Again
<1>5. Paired(NoResp)'
  BY <1>3, PairsIdle DEF Paired, Idle
<1> QED
  BY <1>3, <1>4, <1>5 DEF Matched

(* On the connection to the backend there is nothing but what belongs to   *)
(* the request in hand.                                                    *)
LEMMA MatchedStep ==
  ASSUME TypeOK, Matched, Next
  PROVE  Matched'
<1> SUFFICES ASSUME Live
             PROVE  Matched'
  <2>1. pc # "closed"
    BY StreamCases
  <2>2. "loose" \in hist => "loose" \in hist'
    BY HistCases DEF Recorded
  <2> QED
    BY <2>1, <2>2 DEF Live, Matched
<1>a. Matched /\ Live
  OBVIOUS
<1>1. CASE \E k \in ReqKinds : ClientSends(k)

  <2>1. PICK k \in ReqKinds : ClientSends(k)
    BY <1>1
  <2>2. UNCHANGED <<pc, cur, no_cont, resp, chan, hist>> /\ sent' = Append(sent, k)
    BY <2>1 DEF ClientSends, pvars
  <2>3. pc \in {"read", "closed"} \/ Req' = Req
    BY <2>2 DEF Req, TypeOK
  <2> QED
    BY <2>2, <2>3 DEF Matched, Idle, Paired
<1>2. CASE \E k \in RespKinds : BackendInterim(k)

  <2>1. PICK k \in RespKinds : BackendInterim(k)
    BY <1>2
  <2> DEFINE p == Part("head", Head(chan.in), k)
             h == IF pc = "body" THEN resp ELSE NoResp
  <2>2. UNCHANGED <<sent, pc, cur, no_cont, resp, hist>> /\ chan.in # <<>>
    BY <2>1 DEF BackendInterim, Ready, cvars, pvars
  <2>3. /\ Pairs(cur, Req.head, chan.out, chan.in, chan.body, chan.of, h) /\ Head(chan.in) = cur
        /\ Tail(chan.in) = <<>> /\ (pc = "body" => resp.status = "1xx")
    BY <1>a, <2>2, UnderWay DEF Paired
  <2>4. p \in Parts(RespKinds) /\ IsInterim(p) /\ p.id = cur
    <3>1. k.status \in {"100", "1xx"} /\ cur \in 0 .. MaxReq
      BY <2>1, HttpAssumption DEF BackendInterim, TypeOK
    <3> QED
      BY <2>3, <3>1 DEF Part, Parts, IsInterim
  <2>5. /\ chan'.out = Append(chan.out, p) /\ chan'.in = chan.in
        /\ chan'.body = chan.body /\ chan'.of = chan.of
    BY <2>1, InterimEffect
  <2> HIDE DEF p, h
  <2>6. Pairs(cur, Req.head, chan'.out, chan'.in, chan'.body, chan'.of, h)
    BY <2>2, <2>3, <2>4, <2>5, ChanFields, PairsInterim
  <2> QED
    BY <1>a, <2>2, <2>3, <2>6, BackendMatched DEF h
<1>3. CASE \E k \in RespKinds : BackendResponds(k)

  <2>1. PICK k \in RespKinds : BackendResponds(k)
    BY <1>3
  <2> DEFINE p == Part("head", Head(chan.in), k)
             h == IF pc = "body" THEN resp ELSE NoResp
  <2>2. UNCHANGED <<sent, pc, cur, no_cont, resp, hist>> /\ chan.in # <<>>
    BY <2>1 DEF BackendResponds, Ready, cvars, pvars
  <2>3. /\ Pairs(cur, Req.head, chan.out, chan.in, chan.body, chan.of, h) /\ Head(chan.in) = cur
        /\ Tail(chan.in) = <<>> /\ (pc = "body" => resp.status = "1xx")
    BY <1>a, <2>2, UnderWay DEF Paired
  <2>4. p \in Parts(RespKinds) /\ IsFinal(p) /\ p.id = cur /\ p.kind = k
    <3>1. k.status \notin {"100", "1xx"} /\ cur \in 0 .. MaxReq
      BY <2>1, HttpAssumption DEF BackendResponds, TypeOK
    <3> QED
      BY <2>3, <3>1 DEF Part, Parts, IsFinal
  <2>5. /\ chan'.out = Append(chan.out, p) /\ chan'.in = <<>> /\ chan'.of = cur
        /\ chan'.body = IF SendsBody(Req.head, p.kind) THEN p.kind ELSE NoResp
    BY <2>1, <2>3, <2>4, RespondsEffect DEF SendsBody, Req
  <2> HIDE DEF p, h
  <2>6. Pairs(cur, Req.head, chan'.out, chan'.in, chan'.body, chan'.of, h)
    BY <2>2, <2>3, <2>4, <2>5, ChanFields, PairsFinal
  <2> QED
    BY <1>a, <2>2, <2>3, <2>6, BackendMatched DEF h
<1>4. CASE ClientCloses

  <2>1. UNCHANGED <<sent, pc, cur, no_cont, resp, chan, hist>>
    BY <1>4 DEF ClientCloses, pvars
  <2> QED
    BY <2>1 DEF Matched, Idle, Paired, Req
<1>5. CASE BackendBody

  <2> DEFINE p == Part("body", chan.of, chan.body)
             h == IF pc = "body" THEN resp ELSE NoResp
  <2>1. UNCHANGED <<sent, pc, cur, no_cont, resp, hist>> /\ chan.body # NoResp
    BY <1>5 DEF BackendBody, cvars, pvars
  <2>2. Pairs(cur, Req.head, chan.out, chan.in, chan.body, chan.of, h)
    BY <1>a, <2>1, UnderWay DEF Paired
  <2>3. p \in Parts(RespKinds) /\ p.part = "body" /\ p.id = chan.of /\ p.kind = chan.body
    BY <1>5, BodyEffect, ChanFields DEF Part, Parts
  <2>4. /\ chan'.out = Append(chan.out, p) /\ chan'.in = chan.in /\ chan'.body = NoResp
        /\ chan'.of = chan.of
    BY <1>5, BodyEffect
  <2> HIDE DEF p, h
  <2>5. Pairs(cur, Req.head, chan'.out, chan'.in, chan'.body, chan'.of, h)
    BY <2>1, <2>2, <2>3, <2>4, ChanFields, PairsBody
  <2>6. pc = "body" /\ resp.status # "1xx" => chan'.in = <<>> /\ OnlyBody(chan'.out)
    <3> HAVE pc = "body" /\ resp.status # "1xx"
    <3>1. chan.in = <<>> /\ OnlyBody(chan.out)
      BY <1>a DEF Matched, Live
    <3>2. OnlyBody(chan'.out)
      BY <2>3, <2>4, <3>1, ChanFields, Appended DEF OnlyBody
    <3> QED
      BY <2>4, <3>1, <3>2
  <2> QED
    BY <1>a, <2>1, <2>5, <2>6, BackendMatched DEF h
<1>6. CASE BackendCloses

  <2>1. UNCHANGED <<sent, pc, cur, no_cont, resp, hist>>
    BY <1>6 DEF BackendCloses, cvars, pvars
  <2>2. chan'.out = chan.out /\ chan'.in = chan.in /\ chan'.body = NoResp
    BY <1>6, CloseEffect
  <2>3. Req' = Req /\ (Idle => Idle')
    BY <2>1, <2>2 DEF Req, Idle
  <2>4. \A h : Pairs(cur, Req.head, chan.out, chan.in, chan.body, chan.of, h)
               => Pairs(cur, Req.head, chan'.out, chan'.in, chan'.body, chan'.of, h)
    BY <2>2, PairsEof
  <2>5. (Paired(NoResp) => Paired(NoResp)') /\ (Paired(resp) => Paired(resp)')
    BY <2>1, <2>3, <2>4 DEF Paired
  <2> QED
    BY <2>1, <2>2, <2>3, <2>5, <1>a DEF Matched, Live
<1>7. CASE ReadFails

  BY <1>7 DEF ReadFails, Matched
<1>8. CASE ReadRequest

  <2>1. /\ pc = "read" /\ chan' = chan /\ sent' = sent
        /\ \/ pc' = "closed"
           \/ pc' = "check" /\ no_cont' = sent[cur'].head
    BY <1>8 DEF ReadRequest, Refuse, NoContOf
  <2>2. Idle'
    BY <1>a, <2>1 DEF Matched, Live, Idle
  <2> QED
    BY <2>1, <2>2 DEF Matched, Req
<1>9. CASE ReadGarbage

  BY <1>9 DEF ReadGarbage, Refuse, Matched
<1>10. CASE CheckBackend

  <2>1. /\ pc = "check" /\ pc' = "select"
        /\ UNCHANGED <<sent, cur, no_cont>>
        /\ chan' \in {chan, NoChan, Fresh}
    BY <1>10 DEF CheckBackend, cvars, close_backend
  <2>2. Idle /\ (no_cont <=> Req.head)
    BY <1>a, <2>1 DEF Matched, Live
  <2>3. Idle' /\ Req' = Req
    BY <2>1, <2>2 DEF Idle, NoChan, Fresh, Req
  <2> QED
    BY <2>1, <2>2, <2>3 DEF Matched
<1>11. CASE SelectFails

  BY <1>11 DEF SelectFails, Refuse, Matched
<1>12. CASE \E b \in Regular \cup Internal : select_backend(b)

  <2>1. /\ pc = "select" /\ pc' \in {"send", "internal"}
        /\ UNCHANGED <<sent, cur, no_cont>>
        /\ chan' \in {chan, NoChan, Fresh}
    BY <1>12 DEF select_backend, cvars, close_backend
  <2>2. Idle /\ (no_cont <=> Req.head)
    BY <1>a, <2>1 DEF Matched, Live
  <2>3. Idle' /\ Req' = Req
    BY <2>1, <2>2 DEF Idle, NoChan, Fresh, Req
  <2> QED
    BY <2>1, <2>2, <2>3 DEF Matched
<1>13. CASE InternalReply

  <2>1. /\ pc = "internal" /\ pc' \in {"read", "closed"}
        /\ UNCHANGED <<sent, cur, no_cont>>
        /\ chan' \in {chan, NoChan, Fresh}
    BY <1>13 DEF InternalReply, Again, cvars
  <2>2. Idle /\ (no_cont <=> Req.head)
    BY <1>a, <2>1 DEF Matched, Live
  <2>3. Idle' /\ Req' = Req
    BY <2>1, <2>2 DEF Idle, NoChan, Fresh, Req
  <2> QED
    BY <2>1, <2>2, <2>3 DEF Matched
<1>14. CASE InternalFails

  BY <1>14 DEF InternalFails, HandlerFails, Matched
<1>15. CASE send_to_backend

  <2>1. pc = "send" /\ pc' = "response" /\ UNCHANGED <<sent, cur, no_cont>>
    BY <1>15 DEF send_to_backend
  <2>2. Idle /\ (no_cont <=> Req.head)
    BY <1>a, <2>1 DEF Matched, Live
  <2>3. chan'.out = <<>> /\ chan'.in = <<cur>> /\ chan'.body = NoResp
    BY <1>15, <2>2, SendEffect DEF Idle
  <2>4. Paired(NoResp)'
    BY <2>1, <2>3, PairsIdle DEF Paired
  <2> QED
    BY <2>1, <2>2, <2>4 DEF Matched, Req
<1>16. CASE SendFails

  BY <1>16 DEF SendFails, HandlerFails, Matched
<1>17. CASE ResponseHead

  <2> DEFINE k == Head(chan.out).kind
  <2>1. /\ pc = "response" /\ pc' = "body" /\ UNCHANGED <<sent, cur>> /\ chan.out # <<>>
        /\ Head(chan.out) = chan.out[1] /\ Head(chan.out).part = "head" /\ k.status # "100"
        /\ resp' = k /\ no_cont' = NoContent(k) /\ k \in RespKinds
    BY <1>17, ResponseRead DEF ResponseHead, cvars
  <2>2. Req' = Req /\ Paired(NoResp) /\ (no_cont <=> Req.head)
    BY <1>a, <2>1 DEF Matched, Live, Idle, Req
  <2>3. /\ chan'.out = Tail(chan.out) /\ chan'.in = chan.in /\ chan'.body = chan.body
        /\ chan'.of = chan.of
    BY <1>17, TakeEffect
  <2>4. no_cont' <=> (Req.head \/ k.status \in {"101", "204", "1xx"}) /\ k.frame # "chunked"
    BY <2>1, <2>2 DEF NoContent
  <2>5. CASE k.status = "1xx"
    <3>1. IsInterim(chan.out[1])
      BY <2>1, <2>5 DEF IsInterim
    <3>2. Pairs(cur, Req.head, chan'.out, chan'.in, chan'.body, chan'.of, k)
      BY <2>1, <2>2, <2>3, <3>1, ChanFields, PairsTakeInterim DEF Paired
    <3>3. no_cont'
      BY <2>1, <2>4, <2>5, HttpAssumption
    <3>4. Paired(resp)'
      BY <2>1, <2>2, <3>2 DEF Paired
    <3> QED
      BY <2>1, <2>5, <3>3, <3>4 DEF Matched
  <2>6. CASE k.status # "1xx"
    <3>1. IsFinal(chan.out[1]) /\ chan.out[1].kind = k
      BY <2>1, <2>6 DEF IsFinal
    <3>2. /\ chan.in = <<>> /\ OnlyBody(chan'.out)
          /\ Pairs(cur, Req.head, chan'.out, chan'.in, chan'.body, chan'.of, k)
      BY <2>1, <2>2, <2>3, <3>1, ChanFields, PairsTakeFinal DEF Paired
    <3>3. Paired(resp)'
      BY <2>1, <2>2, <3>2 DEF Paired
    <3> QED
      BY <2>1, <2>2, <2>3, <2>4, <2>6, <3>2, <3>3 DEF Matched
  <2> QED
    BY <2>5, <2>6
<1>18. CASE ResponseContinue

  <2>1. /\ pc = "response" /\ pc' = pc /\ UNCHANGED <<sent, cur, no_cont>> /\ chan.out # <<>>
        /\ IsInterim(Head(chan.out)) /\ Head(chan.out) = chan.out[1]
    BY <1>18, ResponseRead DEF ResponseContinue, cvars, IsInterim
  <2>2. Req' = Req /\ Paired(NoResp) /\ (no_cont <=> Req.head)
    BY <1>a, <2>1 DEF Matched, Live, Idle, Req
  <2>3. /\ chan'.out = Tail(chan.out) /\ chan'.in = chan.in /\ chan'.body = chan.body
        /\ chan'.of = chan.of
    BY <1>18, TakeEffect
  <2>4. Paired(NoResp)'
    BY <2>1, <2>2, <2>3, ChanFields, PairsTakeInterim DEF Paired
  <2> QED
    BY <2>1, <2>2, <2>4 DEF Matched
<1>19. CASE ResponseFails

  BY <1>19 DEF ResponseFails, HandlerFails, Matched
<1>20. CASE GiveUp

  BY <1>20 DEF GiveUp, Matched
<1>21. CASE NoBody

  <2>0. CASE resp.status = "1xx"
    BY <1>21, <2>0 DEF NoBody, Matched
  <2>a. CASE resp.status # "1xx"
    <3>1. /\ pc = "body" /\ resp.status # "1xx" /\ no_cont
          /\ ResponseEnds(resp.v11, conn_closed, chan.out)
      BY <1>21, <2>a, Zenon DEF NoBody
    <3>2. /\ Paired(resp) /\ chan.in = <<>> /\ OnlyBody(chan.out)
          /\ no_cont <=> (Req.head \/ resp.status \in {"101", "204"}) /\ resp.frame # "chunked"
      BY <1>a, <3>1 DEF Matched, Live
    <3>b. Pairs(cur, Req.head, chan.out, <<>>, chan.body, chan.of, resp)
      BY <3>2 DEF Paired
    <3>3. ~SendsBody(Req.head, resp)
      BY <3>1, <3>2 DEF SendsBody
    <3>4. chan.out = <<>> /\ chan.body = NoResp
      BY <3>2, <3>3, <3>b, ChanFields, PairsDone
    <3> QED
      BY <3>1, <3>2, <3>4, EndMatched
  <2> QED
    BY <2>0, <2>a
<1>22. CASE CopyBody

  <2>0. /\ pc = "body" /\ ~no_cont /\ chan.out # <<>>
        /\ ResponseEnds(resp.v11, conn_closed, Tail(chan.out))
    BY <1>22, Zenon DEF CopyBody
  <2>1. pc = "body" /\ resp.status # "1xx"
    BY <1>a, <2>0 DEF Matched, Live
  <2>2. /\ Paired(resp) /\ chan.in = <<>> /\ OnlyBody(chan.out)
        /\ no_cont <=> (Req.head \/ resp.status \in {"101", "204"}) /\ resp.frame # "chunked"
    BY <1>a, <2>1 DEF Matched, Live
  <2>b. Pairs(cur, Req.head, chan.out, <<>>, chan.body, chan.of, resp)
    BY <2>2 DEF Paired
  <2>3. Tail(chan.out) = <<>> /\ chan.body = NoResp
    BY <2>0, <2>2, <2>b, ChanFields, PairsDone
  <2> QED
    BY <2>0, <2>2, <2>3, EndMatched
<1>23. CASE CopyToEof

  <2>0. CASE pc' = "closed"
    BY <2>0 DEF Matched
  <2>a. CASE pc' # "closed"
    <3>1. pc = "body" /\ resp.status # "1xx" /\ no_cont /\ ResponseEnds(FALSE, TRUE, <<>>)
      BY <1>23, <2>a DEF CopyToEof, ResponseEnds, Again
    <3>2. /\ Paired(resp) /\ chan.in = <<>> /\ OnlyBody(chan.out)
          /\ no_cont <=> (Req.head \/ resp.status \in {"101", "204"}) /\ resp.frame # "chunked"
      BY <1>a, <3>1 DEF Matched, Live
    <3>b. Pairs(cur, Req.head, chan.out, <<>>, chan.body, chan.of, resp)
      BY <3>2 DEF Paired
    <3>3. ~SendsBody(Req.head, resp)
      BY <3>1, <3>2 DEF SendsBody
    <3>4. chan.out = <<>> /\ chan.body = NoResp
      BY <3>2, <3>3, <3>b, ChanFields, PairsDone
    <3> QED
      BY <3>1, <3>2, <3>4, EndMatched
  <2> QED
    BY <2>0, <2>a
<1>24. CASE NotReadable
  BY <1>24 DEF NotReadable, Matched
<1> QED
  BY <1>1, <1>2, <1>3, <1>4, <1>5, <1>6, <1>7, <1>8, <1>9, <1>10, <1>11, <1>12, <1>13, <1>14,
     <1>15, <1>16, <1>17, <1>18, <1>19, <1>20, <1>21, <1>22, <1>23, <1>24, NextCases

(* No response and no content is taken for something else.                 *)
LEMMA MatchStep ==
  ASSUME TypeOK, Matched, ResponsesMatch, Next
  PROVE  ResponsesMatch'
<1>1. Recorded /\ pc # "closed"
  BY HistCases, StreamCases
<1> SUFFICES ASSUME Live
             PROVE  "mispaired" \notin hist' /\ "pending" \notin hist'
  BY <1>1 DEF Live, ResponsesMatch, Recorded
<1>2. "mispaired" \notin hist /\ "pending" \notin hist
  BY DEF ResponsesMatch, Live
<1>3. CASE CheckBackend
  <2>1. chan.out = <<>>
    BY <1>3 DEF Matched, Live, Idle, CheckBackend
  <2> QED
    BY <1>2, <1>3, <2>1 DEF CheckBackend
<1>4. CASE ResponseHead
  <2>1. /\ pc = "response" /\ chan.out # <<>> /\ Head(chan.out) = chan.out[1]
        /\ 1 \in 1 .. Len(chan.out)
    BY <1>4, ChanFields, HeadAndTail DEF ResponseHead
  <2>2. Head(chan.out).id = cur
    BY <2>1 DEF Matched, Live, Paired, Pairs
  <2> QED
    BY <1>2, <1>4, <2>2 DEF ResponseHead
<1>5. CASE ResponseFails
  <2>1. pc = "response" /\ Paired(NoResp)
    BY <1>5 DEF Matched, Live, ResponseFails
  <2>2. chan.out # <<>> => Head(chan.out).part # "body"
    <3> SUFFICES ASSUME chan.out # <<>>, Head(chan.out).part = "body"
                 PROVE  FALSE
      OBVIOUS
    <3>1. Head(chan.out) = chan.out[1] /\ Len(chan.out) \in Nat /\ 1 \in 1 .. Len(chan.out)
      BY ChanFields, HeadAndTail
    <3>0. Len(chan.out) = 1
      BY <2>1, <3>1 DEF Paired, Pairs
    <3>2. chan.out[1].kind = NoResp
      BY <2>1, <3>0, <3>1 DEF Paired, Pairs
    <3>3. NoResp \in RespKinds
      BY <3>1, <3>2, ResponseRead
    <3> QED
      BY <3>3, HttpAssumption DEF NoResp, Response
  <2> QED
    BY <1>2, <1>5, <2>2 DEF ResponseFails
<1>6. CASE CopyBody
  <2>1. pc = "body" /\ ~no_cont /\ chan.out # <<>>
    BY <1>6 DEF CopyBody
  <2>2. OnlyBody(chan.out)
    BY <2>1 DEF Matched, Live
  <2>3. Head(chan.out).part = "body"
    BY <2>1, <2>2, ChanFields, HeadAndTail DEF OnlyBody
  <2> QED
    BY <1>2, <1>6, <2>3 DEF CopyBody
<1> QED
  BY <1>1, <1>2, <1>3, <1>4, <1>5, <1>6 DEF Recorded

-----------------------------------------------------------------------------
(* The inductive invariant holds at first, and every step keeps it.        *)
LEMMA InitHttp == Init => HttpInv
<1> SUFFICES ASSUME Init
             PROVE  HttpInv
  OBVIOUS
<1>1. NoChan \in Channel
  BY HttpAssumption DEF NoChan, Channel
<1>2. {FALSE} \subseteq BOOLEAN
  OBVIOUS
<1>3. TypeOK
  <2>1. FlagsOK
    BY Zenon DEF Init, FlagsOK
  <2>2. WhereOK
    BY HttpAssumption DEF Init, WhereOK
  <2>3. ChanOK
    BY <1>1 DEF Init, ChanOK
  <2>4. OutOK
    BY DEF Init, OutOK, Codes
  <2> QED
    BY <2>1, <2>2, <2>3, <2>4, Zenon DEF FlagsOK, WhereOK, ChanOK, OutOK, TypeOK
<1>4. Numbered /\ Streamed /\ Placed /\ RequestsAligned
  BY DEF Init, Numbered, Streamed, Placed, RequestsAligned, HeadNext
<1>5. Interims /\ Logged /\ LogComplete
  BY DEF Init, NoChan, Interims, NoInterim, Logged, LogComplete
<1>6. Answered
  BY DEF Init, Answered, UpTo
<1>7. Matched /\ ResponsesMatch
  BY DEF Init, NoChan, Matched, Idle, ResponsesMatch
<1> QED
  BY <1>3, <1>4, <1>5, <1>6, <1>7 DEF HttpInv

(* Every step keeps the invariant.                                         *)
LEMMA HttpStep == HttpInv /\ [Next]_vars => HttpInv'
<1> SUFFICES ASSUME HttpInv, [Next]_vars
             PROVE  HttpInv'
  OBVIOUS
<1>1. CASE UNCHANGED vars
  <2>1. TypeOK' /\ Numbered' /\ Streamed' /\ Placed' /\ RequestsAligned' /\ Interims'
    BY <1>1, TypeStep, NumberedStep, StreamedStep, PlacedStep, AlignedStep, InterimsStep DEF HttpInv
  <2>2. UNCHANGED <<sent, pc, cur, no_cont, skip, resp, chan, interims, out, response_code, log, hist>>
    BY <1>1 DEF vars, cvars, pvars, ovars
  <2>3. Logged' /\ LogComplete'
    BY <2>2 DEF HttpInv, Logged, LogComplete, Known
  <2>4. Answered'
    BY <2>2 DEF HttpInv, Answered, UpTo, AtMostOnce, Unanswered, IsAnswer, Met, Passed
  <2>5. Matched' /\ ResponsesMatch'
    BY <2>2 DEF HttpInv, Matched, ResponsesMatch, Idle, Paired, Req
  <2> QED
    BY <2>1, <2>3, <2>4, <2>5 DEF HttpInv
<1>2. CASE Next
  <2>1. TypeOK' /\ Numbered' /\ Streamed' /\ Placed' /\ RequestsAligned' /\ Interims'
    BY <1>2, TypeStep, NumberedStep, StreamedStep, PlacedStep, AlignedStep, InterimsStep DEF HttpInv
  <2>2. Logged' /\ LogComplete' /\ Answered'
    BY <1>2, LogStep, AnsweredStep DEF HttpInv
  <2>3. Matched' /\ ResponsesMatch'
    BY <1>2, MatchedStep, MatchStep DEF HttpInv
  <2> QED
    BY <2>1, <2>2, <2>3 DEF HttpInv
<1> QED
  BY <1>1, <1>2

(* A connection is served correctly, for any requests and responses.       *)
THEOREM HttpCorrect == Spec => []HttpInv
<1>1. Init => HttpInv
  BY InitHttp
<1>2. HttpInv /\ [Next]_vars => HttpInv'
  BY HttpStep
<1> QED
  BY <1>1, <1>2, PTL DEF Spec

(* backend_response leaves nothing on the connection to the backend that   *)
(* the response to a later request could be confused with.                 *)
THEOREM ResponsesPaired == Spec => []ResponsesMatch
<1>1. HttpInv => ResponsesMatch
  BY DEF HttpInv
<1> QED
  BY <1>1, HttpCorrect, PTL

(* do_http and send_to_backend never read the body of a request as the     *)
(* next one, unless an internal backend has left it unread.                *)
THEOREM RequestsInStep == Spec => []RequestsAligned
<1>1. HttpInv => RequestsAligned
  BY DEF HttpInv
<1> QED
  BY <1>1, HttpCorrect, PTL

(* Every request is answered once, whatever fails: but for the error after *)
(* the header of acme_response, and for requests to which an interim       *)
(* response was passed on.                                                 *)
THEOREM AnsweredOnce == Spec => []OneAnswer
<1>1. HttpInv => OneAnswer
  BY OneAnswerHolds DEF HttpInv
<1> QED
  BY <1>1, HttpCorrect, PTL

(* Every request has its line in the access log, with a status that do_http*)
(* can account for.                                                        *)
THEOREM LoggedOnce == Spec => []LogComplete
<1>1. HttpInv => LogComplete
  BY DEF HttpInv
<1> QED
  BY <1>1, HttpCorrect, PTL

-----------------------------------------------------------------------------
(***************************************************************************)
(* The request that do_http works on, as HttpRequest has it.  Its URL is   *)
(* kept whole and in parts; rewriting rules set one of them at a time, and *)
(* conditions may have had the others computed before.                     *)
(***************************************************************************)
CONSTANTS Upper(_), Null, Methods, Combinable,    \* of HttpRequest
          Char,              \* characters of a URL
          Value, Header      \* what the other fields may hold

HR == INSTANCE HttpRequest

Text == Seq(Char)
ParamLists == {<<>>} \cup {HR!http_request_parse_query(t) : t \in Text}
Line == [method : Value, url : Text, version : Value]
Parsed == [method : Value, version : Value, url : Text, path : Text \cup {Null},
           query : Text \cup {Null}, params : ParamLists, split : BOOLEAN,
           request : Line, orig : Line \cup {Null}, headers : Seq(Header)]

Marks(s) == {i \in 2 .. Len(s) : s[i] = "?"}

(* The parts that the functions of http.c return, cached or not, are those *)
(* of the URL on the request line.                                         *)
ParamsOf(query) == IF query = Null THEN <<>> ELSE HR!http_request_parse_query(query)

Agree(r) ==
  /\ r.request = HR!RequestLine(r.method, r.url, r.version)
  /\ HR!http_request_get_path(r) = HR!SplitUrl(r.url).path
  /\ HR!http_request_get_query(r) = HR!SplitUrl(r.url).query
  /\ HR!WithParams(r).params = ParamsOf(HR!SplitUrl(r.url).query)

Coherent == {r \in Parsed : r.url # <<>> /\ Agree(r)}

(* The least-number principle.                                             *)
LEMMA LeastNumber ==
  ASSUME NEW T, T \subseteq Nat, T # {}
  PROVE  \E x \in T : \A y \in T : x =< y
<1> DEFINE R == OpToRel(<, Nat)
<1>1. IsWellFoundedOn(R, Nat)
  BY NatLessThanWellFounded
<1>2. \A a, b \in Nat : a < b => <<a, b>> \in R
  BY DEF OpToRel
<1> HIDE DEF R
<1>3. PICK x \in T : \A y \in T : ~(<<y, x>> \in R)
  BY <1>1, WFMin
<1>4. ASSUME NEW y \in T PROVE x =< y
  <2>1. ~(<<y, x>> \in R)
    BY <1>3
  <2>2. ~(y < x)
    BY <1>2, <2>1, Zenon
  <2> QED
    BY <2>2
<1> QED
  BY <1>4

(* Texts with the same characters are equal.                               *)
LEMMA SameText ==
  ASSUME NEW s \in Text, NEW t \in Text, Len(s) = Len(t), \A i \in 1 .. Len(t) : s[i] = t[i]
  PROVE  s = t
BY DEF Text

(* http_request_split cuts at the last question mark.                      *)
LEMMA LastMark ==
  ASSUME NEW s \in Text, NEW m \in Marks(s), \A k \in Marks(s) : k <= m
  PROVE  HR!SplitUrl(s) = [path |-> SubSeq(s, 1, m - 1),
                           query |-> IF SubSeq(s, m + 1, Len(s)) = <<>> THEN Null
                                     ELSE SubSeq(s, m + 1, Len(s))]
<1> DEFINE c == CHOOSE i \in Marks(s) : \A k \in Marks(s) : k <= i
<1>1. c \in Marks(s) /\ \A k \in Marks(s) : k <= c
  OBVIOUS
<1>2. c \in Nat /\ m \in Nat /\ c <= m /\ m <= c
  BY <1>1 DEF Marks, Text
<1>3. c = m
  BY <1>2
<1>4. Marks(s) # {}
  OBVIOUS
<1> HIDE DEF c
<1>5. HR!SplitUrl(s) = [path |-> SubSeq(s, 1, c - 1),
                        query |-> IF SubSeq(s, c + 1, Len(s)) = <<>> THEN Null
                                  ELSE SubSeq(s, c + 1, Len(s))]
  BY <1>4, Zenon DEF HR!SplitUrl, c, Marks
<1> QED
  BY <1>3, <1>5

(* What http_request_rebuild_url puts together http_request_split takes    *)
(* apart again.                                                            *)
LEMMA Joined ==
  ASSUME NEW path \in Text, NEW query \in Text, "?" \in Char, path # <<>>, query # <<>>,
         \A i \in DOMAIN query : query[i] # "?"
  PROVE  /\ path \o <<"?">> \o query \in Text /\ path \o <<"?">> \o query # <<>>
         /\ HR!SplitUrl(path \o <<"?">> \o query) = [path |-> path, query |-> query]
<1> DEFINE s == path \o <<"?">> \o query
           m == Len(path) + 1
<1>1. s \in Text /\ Len(s) = m + Len(query) /\ m \in 2 .. Len(s) /\ s[m] = "?"
  BY DEF Text
<1>2. ASSUME NEW k \in Marks(s) PROVE k <= m
  <2>1. k \in Nat /\ k <= Len(s) /\ s[k] = "?"
    BY <1>1 DEF Marks, Text
  <2>2. ASSUME k > m PROVE FALSE
    <3>1. k - m \in DOMAIN query /\ s[k] = query[k - m]
      BY <2>1, <2>2, <1>1 DEF Text
    <3> QED
      BY <3>1, <2>1
  <2> QED
    BY <2>1, <2>2, <1>1
<1>3. m \in Marks(s)
  BY <1>1 DEF Marks
<1>4. SubSeq(s, 1, m - 1) = path
  <2>1. SubSeq(s, 1, m - 1) \in Text /\ Len(SubSeq(s, 1, m - 1)) = Len(path)
    BY <1>1 DEF Text
  <2>2. ASSUME NEW i \in 1 .. Len(path) PROVE SubSeq(s, 1, m - 1)[i] = path[i]
    BY <1>1 DEF Text
  <2> HIDE DEF s, m
  <2> QED
    BY <2>1, <2>2, SameText
<1>5. SubSeq(s, m + 1, Len(s)) = query
  <2>1. SubSeq(s, m + 1, Len(s)) \in Text /\ Len(SubSeq(s, m + 1, Len(s))) = Len(query)
    BY <1>1 DEF Text
  <2>2. ASSUME NEW i \in 1 .. Len(query) PROVE SubSeq(s, m + 1, Len(s))[i] = query[i]
    BY <1>1 DEF Text
  <2> HIDE DEF s, m
  <2> QED
    BY <2>1, <2>2, SameText
<1> HIDE DEF s, m
<1>6. HR!SplitUrl(s) = [path |-> path, query |-> query]
  BY <1>1, <1>2, <1>3, <1>4, <1>5, LastMark
<1>7. s # <<>>
  <2>1. Len(s) # 0
    BY <1>1
  <2> QED
    BY <2>1
<1> QED
  BY <1>1, <1>6, <1>7 DEF s

(* A URL without a question mark is its own path.                          *)
LEMMA Unmarked ==
  ASSUME NEW s \in Text, Marks(s) = {}
  PROVE  HR!SplitUrl(s) = [path |-> s, query |-> Null]
BY Zenon DEF HR!SplitUrl, Marks

(* The parts of a URL: the path is not empty, and the query has no         *)
(* question mark.                                                          *)
LEMMA SplitType ==
  ASSUME NEW s \in Text, s # <<>>
  PROVE  /\ HR!SplitUrl(s).path \in Text /\ HR!SplitUrl(s).path # <<>>
         /\ HR!SplitUrl(s).query # Null =>
              /\ HR!SplitUrl(s).query \in Text /\ HR!SplitUrl(s).query # <<>>
              /\ \A i \in DOMAIN HR!SplitUrl(s).query : HR!SplitUrl(s).query[i] # "?"
<1>1. CASE Marks(s) = {}
  BY <1>1, Unmarked
<1>2. CASE Marks(s) # {}
  <2>1. Len(s) \in Nat
    BY DEF Text
  <2>2. PICK m \in Marks(s) : \A k \in Marks(s) : k <= m
    <3> DEFINE T == {Len(s) - k : k \in Marks(s)}
    <3>1. T \subseteq Nat /\ T # {}
      BY <1>2, <2>1 DEF Marks
    <3>2. PICK t \in T : \A u \in T : t <= u
      BY <3>1, LeastNumber
    <3>3. PICK m \in Marks(s) : t = Len(s) - m
      BY <3>2
    <3>4. ASSUME NEW k \in Marks(s) PROVE k <= m
      <4>1. Len(s) - m <= Len(s) - k
        BY <3>2, <3>3
      <4> QED
        BY <4>1, <2>1 DEF Marks
    <3> QED
      BY <3>4
  <2> DEFINE p == SubSeq(s, 1, m - 1)
             q == SubSeq(s, m + 1, Len(s))
  <2>3. m \in 2 .. Len(s) /\ Len(s) \in Nat
    BY DEF Marks, Text
  <2>4. p \in Text /\ Len(p) = m - 1 /\ p # <<>>
    BY <2>3 DEF Text
  <2>5. q \in Text /\ Len(q) = Len(s) - m /\ \A i \in 1 .. Len(q) : q[i] = s[m + i]
    BY <2>3 DEF Text
  <2>6. ASSUME NEW i \in DOMAIN q PROVE q[i] # "?"
    <3>1. i \in 1 .. Len(q) /\ m + i \in 2 .. Len(s) /\ m + i > m /\ q[i] = s[m + i]
      BY <2>3, <2>5 DEF Text
    <3>2. m + i \notin Marks(s)
      BY <3>1, <2>2, <2>3
    <3> QED
      BY <3>1, <3>2 DEF Marks
  <2> HIDE DEF p, q
  <2>7. HR!SplitUrl(s) = [path |-> p, query |-> IF q = <<>> THEN Null ELSE q]
    BY <2>2, LastMark DEF p, q
  <2> QED
    BY <2>4, <2>5, <2>6, <2>7
<1> QED
  BY <1>1, <1>2

(* A request that is not split yet agrees with its line.                   *)
LEMMA Unsplit ==
  ASSUME NEW q \in Parsed, q.split,
         q.request = [method |-> q.method, url |-> q.url, version |-> q.version]
  PROVE  Agree(q)
<1> DEFINE u == HR!SplitUrl(q.url)
           s == HR!http_request_split(q)
<1>1. s = [q EXCEPT !.path = u.path, !.query = u.query, !.params = <<>>, !.split = FALSE]
  BY Zenon DEF HR!http_request_split
<1> HIDE DEF u, s
<1>2. s.path = u.path /\ s.query = u.query /\ s.params = <<>>
  BY <1>1 DEF Parsed
<1>3. HR!WithParams(q) = IF s.params # <<>> \/ s.query = Null THEN s
                         ELSE [s EXCEPT !.params = HR!http_request_parse_query(s.query)]
  BY Zenon DEF HR!WithParams, s
<1>4. HR!WithParams(q).params = ParamsOf(u.query)
  <2>1. CASE u.query = Null
    BY <2>1, <1>2, <1>3 DEF ParamsOf
  <2>2. CASE u.query # Null
    <3>1. HR!WithParams(q) = [s EXCEPT !.params = HR!http_request_parse_query(s.query)]
      BY <2>2, <1>2, <1>3
    <3>2. "params" \in DOMAIN s
      BY <1>1 DEF Parsed
    <3>3. HR!WithParams(q).params = HR!http_request_parse_query(u.query)
      BY <3>1, <3>2, <1>2
    <3> QED
      BY <3>3, <2>2 DEF ParamsOf
  <2> QED
    BY <2>1, <2>2
<1> QED
  BY <1>2, <1>4 DEF Agree, HR!http_request_get_path, HR!http_request_get_query,
                    HR!RequestLine, u, s

(* A request that is split agrees with its line if the parts are those of  *)
(* its URL.                                                                *)
LEMMA Rebuilt ==
  ASSUME NEW q \in Parsed, ~q.split,
         q.request = [method |-> q.method, url |-> q.url, version |-> q.version],
         q.path = HR!SplitUrl(q.url).path, q.query = HR!SplitUrl(q.url).query,
         q.params \in {<<>>, ParamsOf(q.query)}
  PROVE  /\ Agree(q)
         /\ HR!http_request_get_path(q) = q.path
         /\ HR!http_request_get_query(q) = q.query
<1>1. HR!http_request_split(q) = q
  BY DEF HR!http_request_split
<1>2. HR!WithParams(q).params = ParamsOf(q.query)
  <2>1. HR!WithParams(q) = IF q.params # <<>> \/ q.query = Null THEN q
                           ELSE [q EXCEPT !.params = HR!http_request_parse_query(q.query)]
    BY <1>1, Zenon DEF HR!WithParams
  <2>2. CASE q.params # <<>>
    BY <2>1, <2>2
  <2>3. CASE q.params = <<>> /\ q.query = Null
    BY <2>1, <2>3 DEF ParamsOf
  <2>4. CASE q.params = <<>> /\ q.query # Null
    BY <2>1, <2>4 DEF ParamsOf, Parsed
  <2> QED
    BY <2>2, <2>3, <2>4
<1> QED
  BY <1>1, <1>2 DEF Agree, HR!http_request_get_path, HR!http_request_get_query, HR!RequestLine

(* What http_request_split does to a coherent request.                     *)
LEMMA SplitEffect ==
  ASSUME NEW r \in Parsed, r.url # <<>>, Agree(r), NEW s, s = HR!http_request_split(r)
  PROVE  /\ s \in Parsed /\ ~s.split
         /\ s.method = r.method /\ s.version = r.version /\ s.url = r.url
         /\ s.request = r.request /\ s.orig = r.orig
         /\ s.path = HR!http_request_get_path(r) /\ s.query = HR!http_request_get_query(r)
         /\ s.path = HR!SplitUrl(r.url).path /\ s.query = HR!SplitUrl(r.url).query
         /\ s.params \in {<<>>, ParamsOf(s.query)}
<1> DEFINE u == HR!SplitUrl(r.url)
<1>1. r.url \in Text
  BY DEF Parsed
<1>2. u.path \in Text /\ u.query \in Text \cup {Null}
  BY <1>1, SplitType
<1> HIDE DEF u
<1>3. s = IF ~r.split THEN r
          ELSE [r EXCEPT !.path = u.path, !.query = u.query, !.params = <<>>, !.split = FALSE]
  BY Zenon DEF HR!http_request_split, u
<1>4. /\ s \in Parsed /\ ~s.split
      /\ s.method = r.method /\ s.version = r.version /\ s.url = r.url
      /\ s.request = r.request /\ s.orig = r.orig
  <2>1. CASE ~r.split
    BY <2>1, <1>3
  <2>2. CASE r.split
    <3>1. s = [r EXCEPT !.path = u.path, !.query = u.query, !.params = <<>>, !.split = FALSE]
      BY <2>2, <1>3
    <3>2. <<>> \in ParamLists
      BY DEF ParamLists
    <3>3. s \in Parsed
      BY <3>1, <3>2, <1>2 DEF Parsed
    <3> QED
      BY <3>1, <3>3 DEF Parsed
  <2> QED
    BY <2>1, <2>2
<1>5. s.path = HR!http_request_get_path(r) /\ s.query = HR!http_request_get_query(r)
  BY DEF HR!http_request_get_path, HR!http_request_get_query
<1>6. s.path = u.path /\ s.query = u.query
  BY <1>5 DEF Agree, u
<1>7. HR!WithParams(r) = IF s.params # <<>> \/ s.query = Null THEN s
                         ELSE [s EXCEPT !.params = HR!http_request_parse_query(s.query)]
  BY Zenon DEF HR!WithParams
<1>8. HR!WithParams(r).params = ParamsOf(s.query)
  BY <1>6 DEF Agree, u
<1>9. s.params \in {<<>>, ParamsOf(s.query)}
  BY <1>7, <1>8
<1> QED
  BY <1>4, <1>5, <1>6, <1>9 DEF u

(* What writing the line anew leaves of a request.                         *)
Written(q, s) ==
  /\ q \in Parsed
  /\ q.path = s.path /\ q.query = s.query /\ q.params = s.params /\ q.split = s.split
  /\ q.request = [method |-> q.method, url |-> q.url, version |-> q.version]
  /\ q.orig = HR!http_request_orig_line(s)

(* http_request_rebuild_line writes the line and keeps the first one.      *)
LEMMA RebuiltLine ==
  ASSUME NEW t \in Parsed, NEW q, q = HR!http_request_rebuild_line(t)
  PROVE  Written(q, t) /\ q.url = t.url
<1> DEFINE o == IF t.orig = Null THEN t.request ELSE t.orig
           l == [method |-> t.method, url |-> t.url, version |-> t.version]
<1>1. q = [t EXCEPT !.orig = o, !.request = l]
  BY Zenon DEF HR!http_request_rebuild_line, HR!RequestLine
<1>2. o \in Line \cup {Null} /\ l \in Line
  BY DEF Parsed, Line
<1>3. l.method = t.method /\ l.url = t.url /\ l.version = t.version
  OBVIOUS
<1>4. o = HR!http_request_orig_line(t)
  BY DEF HR!http_request_orig_line
<1> HIDE DEF o
<1>5. /\ q.url = t.url /\ q.path = t.path /\ q.query = t.query /\ q.params = t.params
      /\ q.split = t.split /\ q.request = l /\ q.orig = o
      /\ q.method = t.method /\ q.version = t.version
  BY <1>1 DEF Parsed
<1>6. q \in Parsed
  BY <1>1, <1>2 DEF Parsed
<1> QED
  BY <1>4, <1>5, <1>6 DEF Written

UrlOf(s) == IF s.query = Null THEN s.path ELSE s.path \o <<"?">> \o s.query

(* http_request_rebuild_url keeps the parts and writes URL and line.       *)
LEMMA RebuiltUrl ==
  ASSUME NEW s \in Parsed, UrlOf(s) \in Text, NEW q, q = HR!http_request_rebuild_url(s)
  PROVE  Written(q, s) /\ q.url = UrlOf(s)
<1> DEFINE t == [s EXCEPT !.url = UrlOf(s)]
<1>1. /\ t \in Parsed
      /\ t.url = UrlOf(s) /\ t.path = s.path /\ t.query = s.query /\ t.params = s.params
      /\ t.split = s.split /\ t.request = s.request /\ t.orig = s.orig
  BY DEF Parsed
<1>2. q = HR!http_request_rebuild_line(t)
  BY Zenon DEF HR!http_request_rebuild_url, UrlOf
<1> HIDE DEF t
<1>3. HR!http_request_orig_line(t) = HR!http_request_orig_line(s)
  BY <1>1 DEF HR!http_request_orig_line
<1> QED
  BY <1>1, <1>2, <1>3, RebuiltLine DEF Written

(* Setting the path.                                                       *)
LEMMA PathSet ==
  ASSUME NEW r \in Parsed, r.url # <<>>, Agree(r), "?" \in Char, NEW t \in Text, t # <<>>,
         HR!http_request_get_query(r) = Null => Marks(t) = {},
         NEW q, q = HR!http_request_set_path(r, t)
  PROVE  /\ q \in Parsed /\ q.url # <<>> /\ Agree(q)
         /\ HR!http_request_get_path(q) = t
         /\ HR!http_request_get_query(q) = HR!http_request_get_query(r)
         /\ q.orig = HR!http_request_orig_line(r)
<1> DEFINE s == HR!http_request_split(r)
           p == [s EXCEPT !.path = t]
<1>1. /\ s \in Parsed /\ ~s.split
      /\ s.request = r.request /\ s.orig = r.orig
      /\ s.query = HR!http_request_get_query(r) /\ s.query = HR!SplitUrl(r.url).query
      /\ s.params \in {<<>>, ParamsOf(s.query)}
  BY SplitEffect
<1>2. q = HR!http_request_rebuild_url(p)
  BY Zenon DEF HR!http_request_set_path
<1> HIDE DEF s
<1>3. /\ p \in Parsed /\ ~p.split /\ p.path = t /\ p.query = s.query /\ p.params = s.params
      /\ p.request = r.request /\ p.orig = r.orig
  BY <1>1 DEF Parsed
<1> HIDE DEF p
<1>4. UrlOf(p) \in Text /\ UrlOf(p) # <<>> /\ HR!SplitUrl(UrlOf(p)) = [path |-> t, query |-> s.query]
  <2>1. CASE s.query = Null
    BY <2>1, <1>1, <1>3, Unmarked DEF UrlOf
  <2>2. CASE s.query # Null
    <3>1. r.url \in Text
      BY DEF Parsed
    <3>2. s.query \in Text /\ s.query # <<>> /\ \A i \in DOMAIN s.query : s.query[i] # "?"
      BY <2>2, <1>1, <3>1, SplitType
    <3>3. UrlOf(p) = t \o <<"?">> \o s.query
      BY <2>2, <1>3 DEF UrlOf
    <3> QED
      BY <3>2, <3>3, Joined
  <2> QED
    BY <2>1, <2>2
<1>5. Written(q, p) /\ q.url = UrlOf(p)
  BY <1>2, <1>3, <1>4, RebuiltUrl, Zenon
<1>6. /\ q \in Parsed /\ ~q.split /\ q.path = p.path /\ q.query = p.query /\ q.params = p.params
      /\ q.request = [method |-> q.method, url |-> q.url, version |-> q.version]
      /\ q.orig = HR!http_request_orig_line(p)
  BY <1>3, <1>5 DEF Written
<1>7. /\ Agree(q) /\ HR!http_request_get_path(q) = t /\ HR!http_request_get_query(q) = s.query
  BY <1>1, <1>3, <1>4, <1>5, <1>6, Rebuilt
<1>8. q.orig = HR!http_request_orig_line(r)
  BY <1>3, <1>6 DEF HR!http_request_orig_line
<1> QED
  BY <1>1, <1>4, <1>5, <1>6, <1>7, <1>8

(* Setting the query.                                                      *)
LEMMA QuerySet ==
  ASSUME NEW r \in Parsed, r.url # <<>>, Agree(r), "?" \in Char, NEW t \in Text, t # <<>>,
         t # Null, \A i \in DOMAIN t : t[i] # "?",
         NEW q, q = HR!http_request_set_query(r, t)
  PROVE  /\ q \in Parsed /\ q.url # <<>> /\ Agree(q)
         /\ HR!http_request_get_path(q) = HR!http_request_get_path(r)
         /\ HR!http_request_get_query(q) = t
         /\ q.orig = HR!http_request_orig_line(r)
<1> DEFINE s == HR!http_request_split(r)
           p == [s EXCEPT !.query = t, !.params = <<>>]
<1>1. /\ s \in Parsed /\ ~s.split
      /\ s.request = r.request /\ s.orig = r.orig
      /\ s.path = HR!http_request_get_path(r) /\ s.path = HR!SplitUrl(r.url).path
  BY SplitEffect
<1>2. q = HR!http_request_rebuild_url(p)
  BY Zenon DEF HR!http_request_set_query
<1> HIDE DEF s
<1>3. <<>> \in ParamLists
  BY DEF ParamLists
<1>4. /\ p \in Parsed /\ ~p.split /\ p.path = s.path /\ p.query = t /\ p.params = <<>>
      /\ p.request = r.request /\ p.orig = r.orig
  BY <1>1, <1>3 DEF Parsed
<1> HIDE DEF p
<1>5. UrlOf(p) \in Text /\ UrlOf(p) # <<>> /\ HR!SplitUrl(UrlOf(p)) = [path |-> s.path, query |-> t]
  <2>1. r.url \in Text
    BY DEF Parsed
  <2>2. s.path \in Text /\ s.path # <<>>
    BY <1>1, <2>1, SplitType
  <2>3. UrlOf(p) = s.path \o <<"?">> \o t
    BY <1>4 DEF UrlOf
  <2> QED
    BY <2>2, <2>3, Joined
<1>6. Written(q, p) /\ q.url = UrlOf(p)
  BY <1>2, <1>4, <1>5, RebuiltUrl, Zenon
<1>7. /\ q \in Parsed /\ ~q.split /\ q.path = p.path /\ q.query = p.query /\ q.params = p.params
      /\ q.request = [method |-> q.method, url |-> q.url, version |-> q.version]
      /\ q.orig = HR!http_request_orig_line(p)
  BY <1>4, <1>6 DEF Written
<1>8. Agree(q) /\ HR!http_request_get_path(q) = s.path /\ HR!http_request_get_query(q) = t
  BY <1>4, <1>5, <1>6, <1>7, Rebuilt
<1>9. q.orig = HR!http_request_orig_line(r)
  BY <1>4, <1>7 DEF HR!http_request_orig_line
<1> QED
  BY <1>1, <1>5, <1>6, <1>7, <1>8, <1>9

(* Setting the URL as a whole.                                             *)
LEMMA UrlSet ==
  ASSUME NEW r \in Parsed, NEW t \in Text, t # <<>>, NEW q, q = HR!http_request_set_url(r, t)
  PROVE  /\ q \in Parsed /\ q.url = t /\ Agree(q)
         /\ q.orig = HR!http_request_orig_line(r)
<1> DEFINE p == [r EXCEPT !.url = t, !.split = TRUE]
<1>1. p \in Parsed /\ p.url = t /\ p.split /\ p.request = r.request /\ p.orig = r.orig
  BY DEF Parsed
<1>2. q = HR!http_request_rebuild_line(p)
  BY Zenon DEF HR!http_request_set_url
<1> HIDE DEF p
<1>3. /\ q \in Parsed /\ q.url = t /\ q.split
      /\ q.request = [method |-> q.method, url |-> q.url, version |-> q.version]
      /\ q.orig = HR!http_request_orig_line(p)
  BY <1>1, <1>2, RebuiltLine DEF Written
<1>4. Agree(q)
  BY <1>3, Unsplit
<1>5. q.orig = HR!http_request_orig_line(r)
  BY <1>1, <1>3 DEF HR!http_request_orig_line
<1> QED
  BY <1>3, <1>4, <1>5

(* Asking for a parameter, which computes what is not computed yet.        *)
LEMMA ParamsAsked ==
  ASSUME NEW r \in Parsed, r.url # <<>>, Agree(r), NEW q, q = HR!WithParams(r)
  PROVE  /\ q \in Parsed /\ q.url = r.url /\ Agree(q)
         /\ HR!http_request_orig_line(q) = HR!http_request_orig_line(r)
<1> DEFINE s == HR!http_request_split(r)
<1>1. /\ s \in Parsed /\ ~s.split
      /\ s.method = r.method /\ s.version = r.version /\ s.url = r.url
      /\ s.request = r.request /\ s.orig = r.orig
      /\ s.path = HR!SplitUrl(r.url).path /\ s.query = HR!SplitUrl(r.url).query
      /\ s.params \in {<<>>, ParamsOf(s.query)}
  BY SplitEffect
<1>2. q = IF s.params # <<>> \/ s.query = Null THEN s
          ELSE [s EXCEPT !.params = HR!http_request_parse_query(s.query)]
  BY Zenon DEF HR!WithParams
<1> HIDE DEF s
<1>3. /\ q \in Parsed /\ ~q.split
      /\ q.method = r.method /\ q.version = r.version /\ q.url = r.url
      /\ q.request = r.request /\ q.orig = r.orig
      /\ q.path = s.path /\ q.query = s.query
      /\ q.params \in {<<>>, ParamsOf(q.query)}
  <2>1. CASE s.params # <<>> \/ s.query = Null
    BY <1>1, <1>2, <2>1
  <2>2. CASE ~(s.params # <<>> \/ s.query = Null)
    <3> DEFINE l == HR!http_request_parse_query(s.query)
    <3>1. s.query \in Text
      BY <1>1, <2>2 DEF Parsed
    <3>2. l \in ParamLists /\ l = ParamsOf(s.query)
      BY <2>2, <3>1 DEF ParamLists, ParamsOf
    <3>3. q = [s EXCEPT !.params = l]
      BY <1>2, <2>2
    <3> HIDE DEF l
    <3>4. q \in Parsed
      BY <1>1, <3>2, <3>3 DEF Parsed
    <3>5. /\ ~q.split
          /\ q.method = r.method /\ q.version = r.version /\ q.url = r.url
          /\ q.request = r.request /\ q.orig = r.orig
          /\ q.path = s.path /\ q.query = s.query /\ q.params = l
      BY <1>1, <3>3 DEF Parsed
    <3> QED
      BY <3>2, <3>4, <3>5
  <2> QED
    BY <2>1, <2>2
<1>4. q.request = [method |-> q.method, url |-> q.url, version |-> q.version]
  BY <1>3 DEF Agree, HR!RequestLine
<1>5. Agree(q)
  BY <1>1, <1>3, <1>4, Rebuilt
<1>6. HR!http_request_orig_line(q) = HR!http_request_orig_line(r)
  BY <1>3 DEF HR!http_request_orig_line
<1> QED
  BY <1>3, <1>5, <1>6

(* A request is coherent when its line has been accepted.                  *)
THEOREM ViewsBegin ==
  ASSUME NEW l \in Line, NEW hs \in Seq(Header), NEW group,
         NEW r, r = [HR!http_request_init EXCEPT !.request = l, !.headers = hs],
         HR!parse_http_request(r, group).status = "ok"
  PROVE  HR!parse_http_request(r, group).req \in Coherent
<1> DEFINE q == [r EXCEPT !.method = l.method, !.url = l.url, !.version = l.version, !.split = TRUE]
           good == HR!find_method(l.method) # Null /\ l.url # <<>> /\ l.version \in {0, 1}
<1>1. /\ r = [method |-> Null, version |-> Null, url |-> Null, path |-> Null, query |-> Null,
              params |-> <<>>, split |-> FALSE, request |-> l, orig |-> Null, headers |-> hs]
  BY DEF HR!http_request_init
<1>2. r.request = l
  BY <1>1
<1>3. HR!parse_http_request(r, group) =
        CASE ~good -> [status |-> "bad_request", req |-> r]
          [] good /\ HR!find_method(l.method) > group -> [status |-> "method_not_allowed", req |-> r]
          [] OTHER -> [status |-> "ok", req |-> q]
  BY <1>2, Zenon DEF HR!parse_http_request
<1>4. good /\ ~(HR!find_method(l.method) > group)
  <2> HIDE DEF q, good
  <2>1. CASE ~good
    BY <1>3, <2>1
  <2>2. CASE good /\ HR!find_method(l.method) > group
    <3>1. HR!parse_http_request(r, group) = [status |-> "method_not_allowed", req |-> r]
      BY <1>3, <2>2
    <3> QED
      BY <3>1
  <2> QED
    BY <2>1, <2>2
<1>5. HR!parse_http_request(r, group).req = q
  <2> HIDE DEF q, good
  <2> QED
    BY <1>3, <1>4
<1>6. /\ q.method = l.method /\ q.version = l.version /\ q.url = l.url /\ q.split = TRUE
      /\ q.request = l
  BY <1>1
<1>7. q.request = l /\ l = [method |-> q.method, url |-> q.url, version |-> q.version]
  BY <1>6 DEF Line
<1>8. q \in Parsed /\ q.split /\ q.url # <<>>
  <2>1. <<>> \in ParamLists
    BY DEF ParamLists
  <2> DEFINE R == [method : {Null}, version : {Null}, url : {Null}, path : {Null},
                   query : {Null}, params : {<<>>}, split : {FALSE}, request : {l},
                   orig : {Null}, headers : {hs}]
  <2>2. r \in R
    <3>1. [method |-> Null, version |-> Null, url |-> Null, path |-> Null, query |-> Null,
           params |-> <<>>, split |-> FALSE, request |-> l, orig |-> Null, headers |-> hs] \in R
      OBVIOUS
    <3> HIDE DEF R
    <3> QED
      BY <1>1, <3>1
  <2>3. l.method \in Value /\ l.url \in Text /\ l.version \in Value
    BY DEF Line
  <2>4. q \in Parsed
    BY <2>1, <2>2, <2>3 DEF Parsed
  <2> QED
    BY <1>4, <1>6, <2>4
<1> HIDE DEF q
<1>9. Agree(q)
  BY <1>7, <1>8, Unsplit
<1> QED
  BY <1>5, <1>8, <1>9 DEF Coherent

(* Whatever conditions have asked for before and in whatever order rules   *)
(* set URL, path and query, the parts that later conditions and expansions *)
(* see are those of the URL on the line that is sent, the part that was    *)
(* set is what it was set to and the others are as before, and the log has *)
(* the line that was received.  A query is set without question marks; so  *)
(* is a path if there is no query, because http_request_split cuts at the  *)
(* last of them.                                                           *)
THEOREM ViewsFollow ==
  ASSUME "?" \in Char, Null \notin Text, Null \notin Line,
         NEW r \in Coherent, NEW t \in Text, t # <<>>
  PROVE  /\ LET q == HR!WithParams(r)
            IN  q \in Coherent /\ q.url = r.url
                /\ HR!http_request_orig_line(q) = HR!http_request_orig_line(r)
         /\ LET q == HR!http_request_set_url(r, t)
            IN  q \in Coherent /\ q.url = t
                /\ HR!http_request_orig_line(q) = HR!http_request_orig_line(r)
         /\ (HR!http_request_get_query(r) = Null => Marks(t) = {}) =>
              LET q == HR!http_request_set_path(r, t)
              IN  /\ q \in Coherent
                  /\ HR!http_request_get_path(q) = t
                  /\ HR!http_request_get_query(q) = HR!http_request_get_query(r)
                  /\ HR!http_request_orig_line(q) = HR!http_request_orig_line(r)
         /\ (\A i \in DOMAIN t : t[i] # "?") =>
              LET q == HR!http_request_set_query(r, t)
              IN  /\ q \in Coherent
                  /\ HR!http_request_get_path(q) = HR!http_request_get_path(r)
                  /\ HR!http_request_get_query(q) = t
                  /\ HR!http_request_orig_line(q) = HR!http_request_orig_line(r)
<1>1. r \in Parsed /\ r.url # <<>> /\ Agree(r)
  BY DEF Coherent
<1>2. ASSUME NEW q, q.orig = HR!http_request_orig_line(r)
      PROVE  HR!http_request_orig_line(q) = HR!http_request_orig_line(r)
  <2>1. r.request \in Line /\ r.orig \in Line \cup {Null}
    BY <1>1 DEF Parsed
  <2> QED
    BY <1>2, <2>1 DEF HR!http_request_orig_line
<1>3. LET q == HR!WithParams(r)
      IN  q \in Coherent /\ q.url = r.url
          /\ HR!http_request_orig_line(q) = HR!http_request_orig_line(r)
  BY <1>1, ParamsAsked DEF Coherent
<1>4. LET q == HR!http_request_set_url(r, t)
      IN  q \in Coherent /\ q.url = t
          /\ HR!http_request_orig_line(q) = HR!http_request_orig_line(r)
  BY <1>1, <1>2, UrlSet DEF Coherent
<1>5. ASSUME HR!http_request_get_query(r) = Null => Marks(t) = {}
      PROVE  LET q == HR!http_request_set_path(r, t)
             IN  /\ q \in Coherent
                 /\ HR!http_request_get_path(q) = t
                 /\ HR!http_request_get_query(q) = HR!http_request_get_query(r)
                 /\ HR!http_request_orig_line(q) = HR!http_request_orig_line(r)
  BY <1>1, <1>2, <1>5, PathSet DEF Coherent
<1>6. ASSUME \A i \in DOMAIN t : t[i] # "?"
      PROVE  LET q == HR!http_request_set_query(r, t)
             IN  /\ q \in Coherent
                 /\ HR!http_request_get_path(q) = HR!http_request_get_path(r)
                 /\ HR!http_request_get_query(q) = t
                 /\ HR!http_request_orig_line(q) = HR!http_request_orig_line(r)
  <2>1. t # Null
    OBVIOUS
  <2> QED
    BY <1>1, <1>2, <1>6, <2>1, QuerySet DEF Coherent
<1> QED
  BY <1>3, <1>4, <1>5, <1>6
=============================================================================
