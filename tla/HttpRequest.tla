----------------------------- MODULE HttpRequest -----------------------------
(***************************************************************************)
(* struct http_request of http.c and the functions on it.  The URL of a    *)
(* request is kept whole, as path and query, and as a list of query        *)
(* parameters; each part is computed when it is first asked for, and a     *)
(* change of one must reach the others and the request line.  A header     *)
(* keeps its text and, once it has been asked for, a copy of its value.    *)
(*                                                                         *)
(* A text is a sequence of characters or of longer pieces that the code    *)
(* never takes apart.  Null is the null pointer.  Every function returns   *)
(* the new request, with the result where it has one.                      *)
(***************************************************************************)
EXTENDS Patterns

CONSTANTS Null,
          Methods,      \* methods: the group of each method
          Combinable    \* combinable_headers: names of list-valued headers

-----------------------------------------------------------------------------
(***************************************************************************)
(* Headers: [name, value, cache].  A line that is not a header has the     *)
(* name Null (HEADER_ILLEGAL).                                             *)
(***************************************************************************)
http_header_alloc(name, value) ==
    [name |-> name, value |-> value, cache |-> Null]

\* http_header_change: the new text, and the copy of the old value dropped.
http_header_change(h, name, value) ==
    [h EXCEPT !.name = name, !.value = value, !.cache = Null]

http_header_get_value(h) == IF h.cache = Null THEN h.value ELSE h.cache

\* The header after its value has been asked for.
WithValue(h) == [h EXCEPT !.cache = http_header_get_value(h)]

\* The place of the first header with a name, or 0.
http_header_list_locate_name(hs, name) ==
    LET at == {k \in DOMAIN hs : hs[k].name = name}
    IN  IF at = {} THEN 0 ELSE CHOOSE k \in at : \A l \in at : k <= l

\* The next header with the same name, or 0.
http_header_list_next(hs, k) ==
    LET at == {l \in k + 1 .. Len(hs) : hs[l].name = hs[k].name}
    IN  IF at = {} THEN 0 ELSE CHOOSE l \in at : \A m \in at : l <= m

Comma == <<",">>

\* Append a header, or keep, replace or extend the one with its name.
http_header_list_append(hs, name, value, mode) ==
    LET k == http_header_list_locate_name(hs, name)
    IN  CASE k # 0 /\ mode = "keep" -> [rc |-> 0, hs |-> hs]
          [] k # 0 /\ mode = "append" /\ http_header_get_value(hs[k]) # << >> ->
                [rc |-> 0,
                 hs |-> [hs EXCEPT ![k] = http_header_change(hs[k], name,
                                             hs[k].value \o Comma \o value)]]
          [] k # 0 -> [rc |-> 0,
                       hs |-> [hs EXCEPT ![k] = http_header_change(hs[k], name, value)]]
          [] k = 0 /\ name = Null -> [rc |-> 1, hs |-> hs]
          [] OTHER -> [rc |-> 0, hs |-> Append(hs, http_header_alloc(name, value))]

\* The text of a header, as a pattern sees it.
HeaderText(h) == << h.name >> \o h.value

http_header_list_filter(hs, pat) ==
    SelectSeq(hs, LAMBDA h : ~genpat_match(pat, HeaderText(h)))

is_combinable_header(name) == name \in Combinable

\* One more value for a header that occurs again.
compose_header(h, value) ==
    http_header_change(h, h.name, h.value \o Comma \o value)

\* The loop of http_request_read over the header lines: a line that is not a
\* header is dropped; the values of a combinable header are gathered in its
\* first occurrence, whose text compose_header_finish rewrites at the end.
http_request_read(lines) ==
    LET Add(hs, l) ==
          LET k == http_header_list_locate_name(hs, l[1])
          IN  CASE l[1] = Null -> hs
                [] k # 0 /\ is_combinable_header(l[1]) ->
                     [hs EXCEPT ![k] = compose_header(hs[k], l[2])]
                [] OTHER -> Append(hs, http_header_alloc(l[1], l[2]))
    IN  FoldLeft(Add, << >>, lines)

-----------------------------------------------------------------------------
(***************************************************************************)
(* The request line.  An empty request has no parts.                       *)
(***************************************************************************)
http_request_init ==
    [method |-> Null, version |-> Null, url |-> Null, path |-> Null,
     query |-> Null, params |-> << >>, split |-> FALSE,
     request |-> Null, orig |-> Null, headers |-> << >>]

\* The group of a method, or Null.
find_method(m) == IF m \in DOMAIN Methods THEN Methods[m] ELSE Null

RequestLine(method, url, version) ==
    [method |-> method, url |-> url, version |-> version]

\* parse_http_request: the status, and the request when it is "ok".  A known
\* method of a group above that of the listener is reported only when the
\* rest of the line is right.
parse_http_request(r, group) ==
    LET l == r.request
        good == /\ find_method(l.method) # Null
                /\ l.url # << >>
                /\ l.version \in {0, 1}
    IN  CASE ~good -> [status |-> "bad_request", req |-> r]
          [] good /\ find_method(l.method) > group ->
                [status |-> "method_not_allowed", req |-> r]
          [] OTHER -> [status |-> "ok",
                       req |-> [r EXCEPT !.method = l.method, !.url = l.url,
                                         !.version = l.version, !.split = TRUE]]

\* Path and query are what is before and after the last question mark that
\* is not the first character; an empty query counts as none.
SplitUrl(url) ==
    LET marks == {i \in 2 .. Len(url) : url[i] = "?"}
        i == CHOOSE i \in marks : \A k \in marks : k <= i
        query == SubSeq(url, i + 1, Len(url))
    IN  IF marks = {} THEN [path |-> url, query |-> Null]
        ELSE [path |-> SubSeq(url, 1, i - 1),
              query |-> IF query = << >> THEN Null ELSE query]

http_request_split(r) ==
    IF ~r.split THEN r
    ELSE [r EXCEPT !.path = SplitUrl(r.url).path, !.query = SplitUrl(r.url).query,
                   !.params = << >>, !.split = FALSE]

\* The line is written anew; the first one is kept for the log.
http_request_rebuild_line(r) ==
    [r EXCEPT !.orig = IF r.orig = Null THEN r.request ELSE r.orig,
              !.request = RequestLine(r.method, r.url, r.version)]

http_request_rebuild_url(r) ==
    http_request_rebuild_line(
        [r EXCEPT !.url = IF r.query = Null THEN r.path
                          ELSE r.path \o <<"?">> \o r.query])

\* The parameters written with & between them; a parameter has a value when
\* an equals sign follows its name.
JoinParams(params) ==
    LET Text(p) == IF p.value = Null THEN p.name ELSE p.name \o <<"=">> \o p.value
        Add(acc, k) == acc \o (IF k = 1 THEN << >> ELSE <<"&">>) \o Text(params[k])
    IN  FoldLeft(Add, << >>, [k \in DOMAIN params |-> k])

http_request_rebuild_query(r) ==
    http_request_rebuild_url([r EXCEPT !.query = JoinParams(r.params)])

http_request_orig_line(r) == IF r.orig = Null THEN r.request ELSE r.orig

http_request_set_url(r, url) ==
    http_request_rebuild_line([r EXCEPT !.url = url, !.split = TRUE])

http_request_get_path(r) == http_request_split(r).path

http_request_get_query(r) == http_request_split(r).query

http_request_set_path(r, path) ==
    http_request_rebuild_url([http_request_split(r) EXCEPT !.path = path])

\* A mutant: the parameters that were parsed from the old query stay.
SetQueryKeepsParams(r, query) ==
    http_request_rebuild_url([http_request_split(r) EXCEPT !.query = query])

http_request_set_query(r, query) ==
    http_request_rebuild_url(
        [http_request_split(r) EXCEPT !.query = query, !.params = << >>])

-----------------------------------------------------------------------------
(***************************************************************************)
(* Query parameters.                                                       *)
(***************************************************************************)
Piece(s) ==
    LET eq == {i \in DOMAIN s : s[i] = "="}
        i == CHOOSE i \in eq : \A k \in eq : i <= k
    IN  IF eq = {} THEN [name |-> s, value |-> Null]
        ELSE [name |-> SubSeq(s, 1, i - 1), value |-> SubSeq(s, i + 1, Len(s))]

\* The loop of http_request_parse_query: pieces end at & or at the end of the
\* text, and nothing follows a last &.
http_request_parse_query(query) ==
    LET ends == SetToSortSeq({i \in DOMAIN query : query[i] = "&"}, <)
                \o (IF query # << >> /\ Last(query) # "&" THEN << Len(query) + 1 >>
                                                          ELSE << >>)
        Start(k) == IF k = 1 THEN 1 ELSE ends[k - 1] + 1
    IN  [k \in DOMAIN ends |-> Piece(SubSeq(query, Start(k), ends[k] - 1))]

\* The request with its parameters parsed, unless it has some already.
WithParams(r) ==
    LET s == http_request_split(r)
    IN  IF s.params # << >> \/ s.query = Null THEN s
        ELSE [s EXCEPT !.params = http_request_parse_query(s.query)]

ParamAt(r, name) ==
    LET at == {k \in DOMAIN r.params : r.params[k].name = name}
    IN  IF at = {} THEN 0 ELSE CHOOSE k \in at : \A l \in at : k <= l

\* RETRIEVE_NOT_FOUND, or the value (which may be Null).
http_request_get_query_param(r, name) ==
    LET p == WithParams(r)
        k == ParamAt(p, name)
    IN  IF k = 0 THEN [found |-> FALSE, value |-> Null]
        ELSE [found |-> TRUE, value |-> p.params[k].value]

http_request_set_query_param(r, name, value) ==
    LET p == WithParams(r)
        k == ParamAt(p, name)
    IN  CASE k = 0 /\ value = Null -> p
          [] k = 0 -> http_request_rebuild_query(
                [p EXCEPT !.params = Append(@, [name |-> name, value |-> value])])
          [] k # 0 /\ value = Null -> http_request_rebuild_query(
                [p EXCEPT !.params = RemoveAt(@, k)])
          [] OTHER -> http_request_rebuild_query([p EXCEPT !.params[k].value = value])

-----------------------------------------------------------------------------
(***************************************************************************)
(* get_basic_auth: a value of the Authorization header is a scheme and its *)
(* parameter, which decodes to a name and, after a colon, a password.      *)
(***************************************************************************)
http_request_get_basic_auth(r) ==
    LET k == http_header_list_locate_name(r.headers, "Authorization")
        v == http_header_get_value(r.headers[k])
    IN  CASE k = 0 -> [rc |-> 1]
          [] k # 0 /\ (v = << >> \/ Head(v) # "Basic") -> [rc |-> 1]
          [] k # 0 /\ v # << >> /\ Head(v) = "Basic" /\ ~Contains(v, ":") ->
                [rc |-> -1]
          [] OTHER -> LET at == {i \in DOMAIN v : v[i] = ":"}
                          i == CHOOSE i \in at : \A l \in at : i <= l
                      IN  [rc |-> 0, name |-> SubSeq(v, 2, i - 1),
                           pass |-> SubSeq(v, i + 1, Len(v))]
=============================================================================
