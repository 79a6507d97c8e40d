-------------------------------- MODULE Rules --------------------------------
(***************************************************************************)
(* Conditions, string expansion and rewriting rules of http.c, and the     *)
(* choice of the service for a request (svc.c).                            *)
(*                                                                         *)
(* Matching a pattern leaves a record of the match in a ring of SMQ_SIZE   *)
(* slots, whether or not it matched, and strings are expanded with the     *)
(* groups found there.  The state all of this works on is the request, the *)
(* response, the ring, and which of the two messages the rules are for:    *)
(* [req, res, smq, on].  Rules for responses are about headers only.       *)
(*                                                                         *)
(* A string to be expanded is a sequence of items: literal text, a         *)
(* reference to group g of the m-th last match, an accessor with its       *)
(* argument, or a construct the code cannot read.                          *)
(***************************************************************************)
EXTENDS HttpRequest

CONSTANTS SMQ_SIZE,
          Undef        \* text read through a pointer or an array element
                       \* that was never set

ASSUME SizeAssumption == SMQ_SIZE \in Nat \ {0}

-----------------------------------------------------------------------------
NoMatch == [subject |-> Null, matchv |-> << >>, matchn |-> 0]

submatch_queue_init == [cur |-> 0, sm |-> [k \in 0 .. SMQ_SIZE - 1 |-> NoMatch]]

RuleState(req) == [req |-> req, res |-> http_request_init,
                   smq |-> submatch_queue_init, on |-> "req"]

submatch_queue_get(q, n) == q.sm[(q.cur + SMQ_SIZE - n) % SMQ_SIZE]

submatch_queue_push(q) ==
    LET c == (q.cur + 1) % SMQ_SIZE
    IN  [cur |-> c, sm |-> [q.sm EXCEPT ![c] = NoMatch]]

\* submatch_exec on the newest slot: the number of groups is that of the
\* pattern, the subject is kept only if it matches.
submatch_exec(p, s, q) ==
    [q EXCEPT !.sm[q.cur] =
        IF genpat_match(p, s)
        THEN [subject |-> s, matchv |-> Groups(p, s), matchn |-> genpat_nsub(p)]
        ELSE [NoMatch EXCEPT !.matchn = genpat_nsub(p)]]

Matched(q) == submatch_queue_get(q, 0).subject # Null

\* match_headers: the first header whose text matches.
match_headers(hs, p, q) ==
    LET hits == {k \in DOMAIN hs : genpat_match(p, HeaderText(hs[k]))}
        k == IF hits = {} THEN Len(hs) ELSE CHOOSE k \in hits : \A l \in hits : k <= l
    IN  IF hs = << >> THEN q ELSE submatch_exec(p, HeaderText(hs[k]), q)

\* A mutant: the groups keep their offsets in the header.
HostNotAdjusted(q) == q

\* On a match of the Host condition subject and groups are moved past the
\* name of the header.
HostAdjusted(q) ==
    LET sm == submatch_queue_get(q, 0)
    IN  [q EXCEPT !.sm[q.cur].subject = Tail(sm.subject),
                  !.sm[q.cur].matchv = IF sm.matchv = << >> THEN << >>
                                       ELSE [sm.matchv EXCEPT ![1] = Tail(@)]]

-----------------------------------------------------------------------------
(***************************************************************************)
(* Request accessors: [rc, val, req].  An accessor that finds no query     *)
(* succeeds without setting the pointer its caller then reads.             *)
(***************************************************************************)
Colon(v) == {i \in DOMAIN v : v[i] = ":"}

FirstColon(v) == CHOOSE i \in Colon(v) : \A k \in Colon(v) : i <= k

HeaderAccess(r, name) ==
    LET k == http_header_list_locate_name(r.headers, name)
    IN  IF k = 0 THEN [rc |-> 1, val |-> Null, req |-> r]
        ELSE [rc |-> 0, val |-> http_header_get_value(r.headers[k]),
              req |-> [r EXCEPT !.headers[k] = WithValue(@)]]

\* The Host header up to the colon, and from the colon on.
HostOf(h) == IF h.rc # 0 \/ Colon(h.val) = {} THEN h
             ELSE [h EXCEPT !.val = SubSeq(@, 1, FirstColon(@) - 1)]

PortOf(h) == IF h.rc # 0 THEN h
             ELSE [h EXCEPT !.val = IF Colon(@) = {} THEN << >>
                                    ELSE SubSeq(@, FirstColon(@), Len(@))]

accessors(a, r) ==
    CASE a.name = "url"    -> [rc |-> 0, val |-> r.url, req |-> r]
      [] a.name = "path"   -> [rc |-> 0, val |-> http_request_get_path(r),
                               req |-> http_request_split(r)]
      [] a.name = "query"  ->
            LET q == http_request_get_query(r)
            IN  [rc |-> 0, val |-> IF q = Null THEN << Undef >> ELSE q,
                 req |-> http_request_split(r)]
      [] a.name = "param"  ->
            LET p == http_request_get_query_param(r, a.param)
            IN  [rc |-> IF p.found THEN 0 ELSE 1, val |-> p.value,
                 req |-> WithParams(r)]
      [] a.name = "header" -> HeaderAccess(r, a.header)
      [] a.name = "host"   -> HostOf(HeaderAccess(r, "Host"))
      [] a.name = "port"   -> PortOf(HeaderAccess(r, "Host"))

(***************************************************************************)
(* expand_string_to_buffer: the number of expansions, or -1 after a        *)
(* construct or a reference that is not valid.  Accessors read the request *)
(* of the client even when a response is being rewritten.  An accessor     *)
(* that is not known is copied.                                            *)
(***************************************************************************)
AccessorNames == {"url", "path", "query", "param", "header", "host", "port"}

Counted(n) == IF n >= 0 THEN n + 1 ELSE n

\* The text of an accessor, if it has one; its work on the request stays.
Accessed(acc, a) ==
    LET b == [acc EXCEPT !.st.req = a.req]
    IN  IF a.rc = 0 /\ a.val # Null
        THEN [b EXCEPT !.s = @ \o a.val, !.n = Counted(@)] ELSE b

ExpandItem(acc, item) ==
    CASE item.t = "lit" -> [acc EXCEPT !.s = @ \o item.s]
      [] item.t = "bad" -> [acc EXCEPT !.n = -1]
      [] item.t = "acc" /\ item.name \notin AccessorNames ->
            [acc EXCEPT !.s = Append(@, item.name)]
      [] item.t = "acc" /\ item.name \in AccessorNames ->
            Accessed(acc, accessors(item, acc.st.req))
      [] item.t = "ref" /\ item.m >= SMQ_SIZE -> [acc EXCEPT !.n = -1]
      [] item.t = "ref" /\ item.m < SMQ_SIZE ->
            LET sm == submatch_queue_get(acc.st.smq, item.m)
            IN  IF sm.subject # Null /\ item.g <= sm.matchn
                THEN [acc EXCEPT !.n = Counted(@),
                        !.s = @ \o (IF item.g < Len(sm.matchv)
                                    THEN sm.matchv[item.g + 1] ELSE << Undef >>)]
                ELSE [acc EXCEPT !.n = -1]

expand_string_to_buffer(str, st) ==
    FoldLeft(ExpandItem, [n |-> 0, s |-> << >>, st |-> st], str)

\* expand_string: Null unless every construct is valid.
expand_string(str, st) ==
    LET Text(e) == [s |-> IF e.n = -1 THEN Null ELSE e.s, st |-> e.st]
    IN  Text(expand_string_to_buffer(str, st))

\* expand_url: the URL of the request follows an expression without any
\* expansion, unless the expression has a path of its own.
expand_url(str, st, has_uri) ==
    LET Url(e) == CASE e.n = -1 -> Null
                    [] e.n = 0 /\ ~has_uri -> e.s \o e.st.req.url
                    [] OTHER -> e.s
    IN  Url(expand_string_to_buffer(str, st))

-----------------------------------------------------------------------------
(***************************************************************************)
(* match_cond: res is 1, 0 or -1, or 2 when the pattern would be matched   *)
(* against a null pointer.                                                 *)
(***************************************************************************)
Bit(b) == IF b THEN 1 ELSE 0

\* A mutant: a pattern that does not match takes no slot.
TryMatching(p, s, st) ==
    IF s = Null THEN [res |-> 2, st |-> st]
    ELSE IF ~genpat_match(p, s) THEN [res |-> 0, st |-> st]
    ELSE [res |-> 1, st |-> [st EXCEPT !.smq = submatch_exec(p, s, submatch_queue_push(@))]]

\* Match a pattern with a text and note the result in the next slot.
Try(p, s, st) ==
    LET q == submatch_queue_push(st.smq)
        r == submatch_exec(p, s, q)
    IN  IF s = Null THEN [res |-> 2, st |-> [st EXCEPT !.smq = q]]
        ELSE [res |-> Bit(Matched(r)), st |-> [st EXCEPT !.smq = r]]

\* The same with a text that was expanded.
TryExpanded(p, e) == IF e.s = Null THEN [res |-> -1, st |-> e.st] ELSE Try(p, e.s, e.st)

ACL_match(c) == IF c.r = -1 THEN -1 ELSE Bit(c.r = 0)

\* basic_auth: the entry of the user in the password file decides.
basic_auth(users, r) ==
    LET a == http_request_get_basic_auth(r)
    IN  CASE a.rc # 0 -> a.rc
          [] a.rc = 0 -> IF \E u \in users : u.name = a.name /\ u.pass = a.pass
                         THEN 0 ELSE 1

RECURSIVE match_cond(_, _)
match_cond(c, st) ==
    CASE c.type = "acl"   -> [res |-> ACL_match(c), st |-> st]
      [] c.type = "url"   -> Try(c.re, st.req.url, st)
      [] c.type = "path"  -> Try(c.re, http_request_get_path(st.req),
                                 [st EXCEPT !.req = http_request_split(@)])
      [] c.type = "query" -> Try(c.re, http_request_get_query(st.req),
                                 [st EXCEPT !.req = http_request_split(@)])
      [] c.type = "query_param" ->
            LET p == http_request_get_query_param(st.req, c.param)
                st1 == [st EXCEPT !.req = WithParams(@)]
            IN  IF p.value = Null THEN [res |-> 0, st |-> st1]
                ELSE Try(c.re, p.value, st1)
      [] c.type \in {"hdr", "host"} ->
            LET q == match_headers(st[st.on].headers, c.re, submatch_queue_push(st.smq))
            IN  [res |-> Bit(Matched(q)),
                 st |-> [st EXCEPT !.smq = IF c.type = "host" /\ Matched(q)
                                           THEN HostAdjusted(q) ELSE q]]
      [] c.type = "basic_auth" ->
            LET r == basic_auth(c.users, st.req)
            IN  [res |-> IF r = -1 THEN -1 ELSE Bit(r = 0), st |-> st]
      [] c.type = "string_match" ->
            TryExpanded(c.re, expand_string(c.string, st))
      [] c.type = "not" ->
            [match_cond(c.head[1], st) EXCEPT !.res = IF @ \in {0, 1} THEN 1 - @ ELSE @]
      [] c.type \in {"and", "or"} ->
            LET Decided(m) == m.res \in {-1, 2} \/ m.res = Bit(c.type = "or")
            IN  IF c.head = << >> THEN [res |-> 1, st |-> st]
                ELSE FoldLeft(LAMBDA m, sub : IF Decided(m) THEN m ELSE match_cond(sub, m.st),
                              match_cond(Head(c.head), st), Tail(c.head))
      [] c.type = "client_cert" -> [res |-> Bit(c.same /\ c.verified), st |-> st]

-----------------------------------------------------------------------------
(***************************************************************************)
(* Rewriting.  A rule is a list of branches [cond, ops]: the operations of *)
(* the first branch whose condition holds are carried out, until one       *)
(* fails; res is 0 when none did.                                          *)
(***************************************************************************)
Failed(st) == [res |-> -1, st |-> st]

\* The text of a "header set" operation is a header: its name, a value.
SetHeader(name, e) ==
    IF e.s = Null THEN Failed(e.st)
    ELSE LET a == http_header_list_append(e.st[e.st.on].headers, name, e.s, "replace")
         IN  [res |-> a.rc, st |-> [e.st EXCEPT ![e.st.on].headers = a.hs]]

\* One that makes the request req, from a text that could be expanded.
SetPart(e, req) ==
    IF e.s = Null THEN Failed(e.st) ELSE [res |-> 0, st |-> [e.st EXCEPT !.req = req]]

\* An operation with its text expanded.
ApplyText(op, e) ==
    CASE op.type = "hdr_set"   -> SetHeader(op.name, e)
      [] op.type = "param_set" ->
            SetPart(e, http_request_set_query_param(e.st.req, op.param, e.s))
      [] op.type = "url_set"   -> SetPart(e, http_request_set_url(e.st.req, e.s))
      [] op.type = "path_set"  -> SetPart(e, http_request_set_path(e.st.req, e.s))
      [] op.type = "query_set" -> SetPart(e, http_request_set_query(e.st.req, e.s))

RECURSIVE rewrite_op_apply(_, _), rewrite_rule_check(_, _)
rewrite_op_apply(ops, st) ==
    LET Apply(op, s) ==
          CASE op.type = "rule" -> rewrite_rule_check(op.rule, s)
            [] op.type = "hdr_del" ->
                  [res |-> 0,
                   st |-> [s EXCEPT ![s.on].headers = http_header_list_filter(@, op.pat)]]
            [] OTHER -> ApplyText(op, expand_string(op.str, s))
    IN  FoldLeft(LAMBDA acc, op : IF acc.res # 0 THEN acc ELSE Apply(op, acc.st),
                 [res |-> 0, st |-> st], ops)

rewrite_rule_check(rule, st) ==
    LET Branch(m) == CASE m.res = 1 -> rewrite_op_apply(Head(rule).ops, m.st)
                       [] m.res = 2 -> [res |-> 2, st |-> m.st]
                       [] OTHER -> rewrite_rule_check(Tail(rule), m.st)
    IN  IF rule = << >> THEN [res |-> 0, st |-> st]
        ELSE Branch(match_cond(Head(rule).cond, st))

rewrite_apply(rules, st) ==
    FoldLeft(LAMBDA acc, rule : IF acc.res # 0 THEN acc
                                ELSE rewrite_rule_check(rule, acc.st),
             [res |-> 0, st |-> st], rules)

-----------------------------------------------------------------------------
(***************************************************************************)
(* The headers added to a request for the backend.  A header that cannot   *)
(* be added is left out.                                                   *)
(***************************************************************************)
Put(hs, name, value, mode) == http_header_list_append(hs, name, value, mode).hs

add_forwarded_headers(hs, conn) ==
    LET h1 == Put(hs, "X-Forwarded-For", << conn.from_host >>, "append")
        h2 == Put(h1, "X-Forwarded-Proto", << conn.proto >>, "replace")
    IN  IF conn.family = "unix" THEN h2
        ELSE Put(h2, "X-Forwarded-Port", << conn.port >>, "replace")

\* Subject, issuer, dates, serial and certificate, one after the other.
CertHeaders == << "X-SSL-Subject", "X-SSL-Issuer", "X-SSL-notBefore",
                  "X-SSL-notAfter", "X-SSL-serial", "X-SSL-certificate" >>

add_ssl_headers(hs, conn) ==
    LET h1 == IF conn.cipher = Null THEN hs
              ELSE Put(hs, "X-SSL-cipher", << conn.cipher >>, "replace")
    IN  IF conn.x509 = Null THEN h1
        ELSE FoldLeft(LAMBDA h, name : Put(h, name, << conn.x509 >>, "replace"),
                      h1, CertHeaders)
=============================================================================
