----------------------------- MODULE RequestPath -----------------------------
(***************************************************************************)
(* The way of a request through a worker, from the text the client sent to *)
(* the text a backend gets: reading and parsing, the choice of a service   *)
(* among those of the listener and the global ones, the headers pound      *)
(* adds, the rewriting rules of the listener and of the service, and the   *)
(* copying of a chunked body; and the way back of the head of a response.  *)
(* What the configuration, the client and the backend give is a case,      *)
(* which Start takes as its parameter.                                     *)
(***************************************************************************)
EXTENDS Location, Body

VARIABLES case,     \* configuration and request
          step,     \* what the worker does next
          k,        \* the service tried, or the one chosen
          st,       \* the request, the response and the submatch queue
          sent      \* what the backend got: request line and headers

CONSTANTS SafeChars,   \* characters that a location may contain
          Bodies,      \* what follows the head of a chunked request
          Limits       \* values of MaxRequest, 0 for none

pvars == << case, step, k, st, sent, bvars >>

AllServices == case.lstn \o case.services

\* Earlier requests on the connection have left their matches in the ring,
\* which is freed with the connection only.
Start(c) ==
        /\ case = c
        /\ step = "read"
        /\ k = 1
        /\ st = [RuleState(http_request_init) EXCEPT
                   !.smq = FoldLeft(LAMBDA q, t : submatch_exec(t.re, t.text, submatch_queue_push(q)),
                                    @, c.before)]
        /\ sent = Null
        /\ given = << >> /\ in = << >> /\ out = << >>
        /\ cut = "eof" /\ limit = 0
        /\ phase = "size" /\ cont = 0 /\ tot = 0 /\ status = "none"

\* http_request_read and parse_http_request.
ReadRequest ==
    /\ step = "read"
    /\ LET r == [http_request_init EXCEPT
                    !.request = RequestLine(case.method, case.url, case.version),
                    !.headers = http_request_read(case.headers)]
           p == parse_http_request(r, case.group)
       IN  /\ st' = [st EXCEPT !.req = p.req]
           /\ step' = IF p.status = "ok" THEN "select" ELSE p.status
    /\ UNCHANGED << case, k, sent, bvars >>

\* get_service: the next service that is not disabled is tried.
get_service ==
    /\ step = "select"
    /\ \/ /\ k > Len(AllServices)
          /\ step' = "no_service"
          /\ UNCHANGED << k, st >>
       \/ /\ k <= Len(AllServices)
          /\ AllServices[k].disabled
          /\ k' = k + 1
          /\ UNCHANGED << step, st >>
       \/ /\ k <= Len(AllServices)
          /\ ~AllServices[k].disabled
          /\ \E m \in {match_cond(AllServices[k].cond, st)} :
                /\ st' = m.st
                /\ k' = IF m.res \in {1, 2} THEN k ELSE k + 1
                /\ step' = CASE m.res = 1 -> IF AllServices[k].be = Null THEN "headers"
                                             ELSE "rewrite"
                             [] m.res = 2 -> "crash"
                             [] OTHER -> "select"
    /\ UNCHANGED << case, sent, bvars >>

\* The Destination and the "canned" headers of send_to_backend, and the Host
\* of the backend.
AddHeaders ==
    /\ step = "headers"
    /\ LET c == case.conn
           h0 == RewriteDestination(st.req.headers, c)
           h1 == IF c.forwarded THEN add_forwarded_headers(h0, c) ELSE h0
           h2 == IF c.proto = "https" /\ c.sslheaders THEN add_ssl_headers(h1, c) ELSE h1
           h3 == IF c.servername = Null THEN h2
                 ELSE Put(h2, "Host", << c.servername >>, "replace")
       IN  st' = [st EXCEPT !.req.headers = h3]
    /\ step' = "rewrite"
    /\ UNCHANGED << case, k, sent, bvars >>

\* The rules of the listener, then those of the service; for a response both
\* in one list, those of the service first.
Rewrite ==
    /\ step \in {"rewrite", "rewrite_service", "rewrite_response"}
    /\ LET rules == CASE step = "rewrite" -> case.rules
                      [] step = "rewrite_service" -> AllServices[k].rules
                      [] step = "rewrite_response" -> case.resprules
       IN  \E a \in {rewrite_apply(rules, st)} :
             /\ st' = a.st
             /\ step' = CASE a.res = 2 -> "crash"
                          [] a.res # 0 /\ a.res # 2 -> "internal_error"
                          [] a.res = 0 /\ step = "rewrite" -> "rewrite_service"
                          [] a.res = 0 /\ step = "rewrite_response" -> "locations"
                          [] a.res = 0 /\ step = "rewrite_service" /\ AllServices[k].be # Null ->
                                "redirect"
                          [] OTHER -> "send"
    /\ UNCHANGED << case, k, sent, bvars >>

\* redirect_response: the location, with every character that is not safe
\* written as its code.  The code of c is the word "%c".
redirect_response ==
    /\ step = "redirect"
    /\ LET be == AllServices[k].be
           Safe(c) == IF c \in SafeChars THEN c ELSE "%" \o c
       IN  \E url \in {expand_url(be.url, st, be.has_uri)} :
             /\ step' = IF url = Null THEN "internal_error" ELSE "sent"
             /\ sent' = IF url = Null THEN sent
                        ELSE [location |-> [i \in DOMAIN url |-> Safe(url[i])]]
    /\ UNCHANGED << case, k, st, bvars >>

\* The request is sent; a body, as much of it as will come, is copied next.
http_request_send ==
    /\ step = "send"
    /\ sent' = [line |-> st.req.request,
                headers |-> [i \in DOMAIN st.req.headers |-> HeaderText(st.req.headers[i])]]
    /\ \/ /\ ~case.chunked
          /\ step' = IF case.response = Null THEN "sent" ELSE "response"
          /\ UNCHANGED bvars
       \/ /\ case.chunked
          /\ step' = "body"
          /\ given' \in Bodies /\ in' = given'
          /\ cut' \in {"eof", "err"}
          /\ limit' \in Limits
          /\ UNCHANGED << out, phase, cont, tot, status >>
    /\ UNCHANGED << case, k, st >>

CopyBody ==
    /\ step = "body"
    /\ copy_chunks
    /\ step' = IF phase' = "end" THEN "sent" ELSE "body"
    /\ UNCHANGED << case, k, st, sent >>

\* backend_response: the head of the response is read and the rules are
\* applied to it, then its locations are rewritten.  The host is that of the
\* request as the backend got it.
backend_response ==
    /\ \/ /\ step = "response"
          /\ step' = "rewrite_response"
          /\ st' = [st EXCEPT !.res.headers = http_request_read(case.response), !.on = "res"]
       \/ /\ step = "locations"
          /\ step' = "responded"
          /\ st' = [st EXCEPT !.res.headers =
                        RewriteLocations(@, http_request_host(st.req), case.conn)]
    /\ UNCHANGED << case, k, sent, bvars >>

Ended == step \notin {"read", "select", "headers", "rewrite", "rewrite_service",
                      "send", "body", "redirect", "response", "rewrite_response", "locations"}

Next == \/ ReadRequest \/ get_service \/ AddHeaders \/ Rewrite
        \/ http_request_send \/ CopyBody \/ redirect_response \/ backend_response
        \/ Ended /\ UNCHANGED pvars

-----------------------------------------------------------------------------
(***************************************************************************)
(* What the configuration says of a request, from the text of the request  *)
(* alone.                                                                  *)
(***************************************************************************)
Plain(req) == [req EXCEPT !.split = TRUE, !.path = Null, !.query = Null,
                          !.params = << >>]

Received == [http_request_init EXCEPT
                !.method = case.method, !.url = case.url, !.version = case.version,
                !.split = TRUE, !.headers = http_request_read(case.headers)]

\* What trying a pattern on a text (or Null) leaves for references.
Trace(p, text) == IF text # Null /\ genpat_match(p, text)
                  THEN [n |-> genpat_nsub(p), groups |-> Groups(p, text)]
                  ELSE [n |-> -1, groups |-> << >>]

\* What an accessor adds to a string: nothing, if it has no value.
ValueOf(a) == IF a.rc = 0 /\ a.val # Null THEN a.val ELSE << >>

\* A string with the traces past, the newest first, to refer to: Null when a
\* reference has no match to refer to.
TextOf(item, past) ==
    CASE item.t = "lit" -> item.s
      [] item.t = "bad" -> Null
      [] item.t = "acc" /\ item.name \notin AccessorNames -> << item.name >>
      [] item.t = "acc" /\ item.name \in AccessorNames ->
            ValueOf(accessors(item, Received))
      [] item.t = "ref" ->
            IF item.m >= SMQ_SIZE \/ item.m >= Len(past) \/ past[item.m + 1].n < item.g THEN Null
            ELSE IF item.g < Len(past[item.m + 1].groups) THEN past[item.m + 1].groups[item.g + 1]
            ELSE << Undef >>

Joined(texts) == IF Null \in Range(texts) THEN Null ELSE FlattenSeq(texts)

Expanded(str, past) == Joined([i \in DOMAIN str |-> TextOf(str[i], past)])

\* The text a condition of this type is about.
Subject(c, past) ==
    CASE c.type = "url"   -> case.url
      [] c.type = "path"  -> SplitUrl(case.url).path
      [] c.type = "query" -> SplitUrl(case.url).query
      [] c.type = "query_param" -> http_request_get_query_param(Received, c.param).value
      [] c.type = "string_match" -> Expanded(c.string, past)

PatternTypes == {"url", "path", "query", "query_param", "hdr", "host"}

\* The trace of a pattern statement.  Without a text the pattern is not tried
\* (but for Query).  A header statement is about the first header it matches;
\* for Host, the match begins at the value.
Untried == [n |-> -2, groups |-> << >>]

TextTrace(c, text) ==
    IF text = Null /\ c.type \in {"query_param", "string_match"} THEN Untried
    ELSE Trace(c.re, text)

FromValue(t, value) == IF t.groups = << >> THEN t ELSE [t EXCEPT !.groups[1] = value]

HeaderTrace(c, hs) ==
    CASE hs = << >> -> Trace(c.re, Null)
      [] hs # << >> /\ c.type = "hdr"  -> Trace(c.re, HeaderText(hs[1]))
      [] hs # << >> /\ c.type = "host" -> FromValue(Trace(c.re, HeaderText(hs[1])), hs[1].value)

StatementTrace(c, past) ==
    IF c.type \in {"hdr", "host"}
    THEN HeaderTrace(c, SelectSeq(Received.headers, LAMBDA h : genpat_match(c.re, HeaderText(h))))
    ELSE TextTrace(c, Subject(c, past))

\* Whether a condition holds, and the traces after it: of every pattern that
\* was tried, within a negation or a failed alternative too.
PatternHolds(c, t, past) ==
    IF t = Untried THEN [res |-> IF c.type = "string_match" THEN -1 ELSE 0, past |-> past]
    ELSE [res |-> Bit(t.n >= 0), past |-> << t >> \o past]

Negated(h) == IF h.res = -1 THEN h ELSE [h EXCEPT !.res = 1 - @]

RECURSIVE Holds(_, _)
Holds(c, past) ==
    CASE c.type \in PatternTypes \cup {"string_match"} ->
            PatternHolds(c, StatementTrace(c, past), past)
      [] c.type = "not" -> Negated(Holds(c.head[1], past))
      [] c.type \in {"and", "or"} ->
            LET Upto[j \in 0 .. Len(c.head)] ==
                  IF j = 0 THEN [res |-> 1, past |-> past]
                  ELSE IF j > 1 /\ Upto[j - 1].res # Bit(c.type = "and") THEN Upto[j - 1]
                  ELSE Holds(c.head[j], Upto[j - 1].past)
            IN  Upto[Len(c.head)]
      [] c.type = "acl" -> [res |-> ACL_match(c), past |-> past]
      [] c.type = "basic_auth" ->
            LET r == basic_auth(c.users, Received)
            IN  [res |-> IF r = -1 THEN -1 ELSE Bit(r = 0), past |-> past]
      [] c.type = "client_cert" -> [res |-> Bit(c.same /\ c.verified), past |-> past]

\* The conditions of a service that only lists statements with patterns.
Statements(c) == IF c.type = "and" THEN c.head ELSE << c >>

\* Such a service whose references reach no further than its own statements.
RefersToItself(c) ==
    LET s == Statements(c)
    IN  \A j \in DOMAIN s :
          /\ s[j].type \in PatternTypes \cup {"string_match"}
          /\ s[j].type = "string_match" =>
                \A item \in Range(s[j].string) : item.t = "ref" => item.m < j - 1

\* The choice has just been made; it is not changed later.
Chosen == step \in {"headers", "rewrite", "no_service"}

\* FirstMatchServes.  A request goes to the first service, of the listener
\* and then of the global ones, that is enabled and whose condition holds of
\* the request as it was received; it is refused only if there is none.  The
\* conditions tried before, of other services and of earlier requests, have
\* filled in parts of the request and the ring of matches: a service that
\* refers to its own statements only is chosen as if it were the only one; a
\* StringMatch that refers further back gets the match of the pattern that
\* was tried so many patterns before, and an error if that one failed.
FirstMatchServes ==
    Chosen =>
      LET before == [j \in DOMAIN case.before |-> Trace(case.before[j].re, case.before[j].text)]
          After(h, past) == [h EXCEPT !.past = @ \o past]
          Tried[i \in 0 .. Len(AllServices)] ==
            CASE i = 0 -> [res |-> 0, past |-> Reverse(before)]
              [] i > 0 /\ AllServices[i].disabled -> [Tried[i - 1] EXCEPT !.res = 0]
              [] i > 0 /\ ~AllServices[i].disabled ->
                    LET c == AllServices[i].cond
                        past == Tried[i - 1].past
                        alone == RefersToItself(c)
                    IN  After(Holds(c, IF alone THEN << >> ELSE past),
                              IF alone THEN past ELSE << >>)
      IN  /\ \A i \in DOMAIN AllServices : i <= k => (Tried[i].res = 1 <=> i = k)
          /\ step = "no_service" => k > Len(AllServices)

\* ReferencesOfService.  When a service that lists pattern statements has been
\* chosen, $n(m) is group n of its m-th last statement, although services
\* tried before have left their own matches in the ring.
ReferencesOfService ==
    step = "headers" =>
      LET c == Statements(AllServices[k].cond)
      IN  (\A i \in DOMAIN c : c[i].type \in PatternTypes) =>
            \A m \in 0 .. SMQ_SIZE - 1 :
                m < Len(c) =>
                  /\ submatch_queue_get(st.smq, m).subject # Null
                  /\ submatch_queue_get(st.smq, m).matchv = StatementTrace(c[Len(c) - m], << >>).groups

\* No part of the request contains a character that separates parts.
Clean(r) ==
    /\ r.query # << >> /\ (r.query # Null => ~Contains(r.query, "?"))
    /\ r.query = Null /\ r.path # Null /\ r.path # << >> =>
          ~Contains(Tail(r.path), "?")
    /\ r.path # << >>
    /\ \A i \in DOMAIN r.params :
          /\ ~Contains(r.params[i].name, "&") /\ ~Contains(r.params[i].name, "=")
          /\ r.params[i].value # Null => ~Contains(r.params[i].value, "&")
          /\ r.params[i].name # << >> \/ r.params[i].value # Null

ParamNames == {<<"n">>, <<"m">>, <<"x">>}

\* ViewsAgree.  Path, query and parameters as conditions and expansions see
\* them are those of the URL on the request line, after any sequence of
\* rewriting operations whose texts contain no separators; the value of a
\* header is that of its text; and the line the log shows is the line that
\* was received.
ViewsAgree ==
    LET r == st.req
        p == Plain(r)
    IN  r.url # Null =>
          /\ r.request = RequestLine(r.method, r.url, r.version)
          /\ r.split \/ Clean(r) =>
                /\ http_request_get_path(r) = http_request_get_path(p)
                /\ http_request_get_query(r) = http_request_get_query(p)
                /\ \A n \in ParamNames : http_request_get_query_param(r, n)
                                         = http_request_get_query_param(p, n)
          /\ \A i \in DOMAIN r.headers : http_header_get_value(r.headers[i])
                                         = r.headers[i].value
          /\ http_request_orig_line(r)
                = RequestLine(case.method, case.url, case.version)

(***************************************************************************)
(* What a location in a response names.                                    *)
(***************************************************************************)
BackendUrl(v) ==
    LET c == case.conn
        m == LOCATION(v)
        name == HostName(m.host)
    IN  /\ m # Null
        /\ IF getaddrinfo(name) = {}
           THEN name = << c.servername >> /\ (m.proto = "https") = c.be.ctx
           ELSE /\ [family |-> c.be.family, ip |-> c.be.ip] \in getaddrinfo(name)
                /\ PlacePort(m) = c.be.port

ListenerUrl(v) ==
    LET name == HostName(LOCATION(v).host)
    IN  \/ [family |-> case.conn.lfamily, ip |-> case.conn.lip] \in getaddrinfo(name)
        \/ name = HostName(http_request_host(Received))

AtLeastRoot(path) == IF path = << >> THEN << "/" >> ELSE path

\* The locations of the response before and after, as pairs of texts.
Locations ==
    LET Both(name) ==
          << HeaderAccess([headers |-> http_request_read(case.response)], name).val,
             HeaderAccess(st.res, name).val >>
    IN  {Both(n) : n \in {"Location", "Content-location"}}

Answered == step = "responded" /\ case.resprules = << >>

\* LocationsLeadBack.  A client that follows a location that names the backend
\* comes back to the listener: to the host and with the protocol of its own
\* request, and to the same path.  Under RewriteLocation 2 and 0 a location
\* that names something else is left alone; under any, the path is.  Exempt:
\* a location with a URL inside, which is taken for that URL; the host, where
\* the request has none, the backend has no address, or pound has put the
\* backend's name into the request (ServerName).
LocationsLeadBack ==
    Answered =>
      LET c == case.conn
          host == http_request_host(Received)
      IN  \A p \in {l \in Locations : LOCATION(l[1]) = Null \/ LOCATION(l[1]).at = 1} :
            /\ LOCATION(p[1]) = Null => p[2] = p[1]
            /\ LOCATION(p[1]) # Null => LOCATION(p[2]) # Null
            /\ LOCATION(p[1]) # Null =>
                  LOCATION(p[2]).path \in {LOCATION(p[1]).path, AtLeastRoot(LOCATION(p[1]).path)}
            /\ BackendUrl(p[1]) /\ c.rewr_loc # 0 /\ c.be.family # "unix"
                  /\ host # Null /\ c.servername = Null =>
                  LOCATION(p[2]).proto = c.proto /\ LOCATION(p[2]).host = host
            /\ c.rewr_loc # 1 /\ ~BackendUrl(p[1]) => p[2] = p[1]

\* What the manual says of RewriteLocation 1, and the code does not do: a
\* location that names neither the backend nor the listener is left alone.
OtherLocationsKept ==
    Answered => \A p \in Locations :
                   p[2] = p[1] \/ BackendUrl(p[1]) \/ ListenerUrl(p[1])
=============================================================================
