------------------------------ MODULE Poundctl ------------------------------
(***************************************************************************)
(* The client of the control interface (poundctl.c).                       *)
(*                                                                         *)
(* A command line is a record: the command, the number of its arguments,   *)
(* the object (does it begin with a slash, its elements, does a bare       *)
(* question mark follow) and the key; the URL given with -s, or Null; can  *)
(* a reply be shown: as JSON, or with a template that is defined; the      *)
(* lines of the server's configuration.                                    *)
(* A URL is a sequence of words and of the marks that url_parse looks for. *)
(***************************************************************************)
EXTENDS Control

CONSTANTS CommandLines,    \* the command lines that are tried
          MaxCommands,     \* how many of them in a behaviour
          Cuts,            \* at how many places a reply may be cut
          Garbage,         \* what memory that was never written may hold
          Keys, Answers,   \* what the traffic and the resolver bring
          BackendIds,      \* backends of some services, once or still in them
          MaxEvents        \* how many of these events in a behaviour

VARIABLES client,    \* the client on each connection
          ncmd, nevt \* commands and events so far

vars == << svars, client, ncmd, nevt >>

-----------------------------------------------------------------------------
(***************************************************************************)
(* The address of the server.                                              *)
(***************************************************************************)
\* strncasecmp with the length of the word in the file: an abbreviation will
\* do.  The answer is the flag of the keyword, or -1.
find_keyword(kwtab, word) ==
    CASE kwtab = 0 /\ word \in {"c", "control"} -> 1
      [] kwtab = 1 /\ word \in {"s", "socket"} -> 1
      [] kwtab = 1 /\ word \in {"e", "end"} -> 0
      [] OTHER -> -1

(***************************************************************************)
(* get_socket_name.  A line has its first word, empty in a comment, and    *)
(* what follows: nothing, a quoted string, a string without the closing    *)
(* quote, or something else.  The scan ends at the first line that can     *)
(* name the socket, and at a line that does not fit the buffer.            *)
(***************************************************************************)
get_socket_name(lines) ==
    LET Scan(st, line) ==
          LET kw == find_keyword(st.kwtab, line.word)
          IN  CASE st.end \/ line.word = "" -> st
                [] ~st.end /\ line.word # "" /\ line.arg = "too long" ->
                      [st EXCEPT !.end = TRUE]
                [] ~st.end /\ line.arg # "too long" /\ kw = 0 -> [st EXCEPT !.kwtab = 0]
                [] ~st.end /\ line.arg # "too long" /\ kw = 1 ->
                      CASE line.arg = "quoted" -> [st EXCEPT !.end = TRUE, !.name = line.name]
                        [] line.arg = "none" /\ st.kwtab = 0 -> [st EXCEPT !.kwtab = 1]
                        [] OTHER -> [st EXCEPT !.end = TRUE]
                [] OTHER -> st
    IN  FoldLeft(Scan, [kwtab |-> 0, end |-> FALSE, name |-> Null], lines).name

strcspn(s, marks) ==
    LET at == {i \in DOMAIN s : s[i] \in marks}
    IN  IF at = {} THEN Len(s) ELSE (CHOOSE i \in at : \A j \in at : i <= j) - 1

From(s, n) == SubSeq(s, n, Len(s))

URL(tls, user, pass, host, path) ==
    [tls |-> tls, user |-> user, pass |-> pass, host |-> host, path |-> path]

url_parse_host(s, url) ==
    LET n == strcspn(s, {"/"})
    IN  [url EXCEPT !.host = SubSeq(s, 1, n), !.path = From(s, n + 1)]

\* A colon without an at-sign after it belongs to the host.
url_parse_creds(s, url) ==
    LET n == strcspn(s, {":", "@"})
        rest == From(s, n + 2)
        j == strcspn(rest, {"@"})
        mark == CharAt(s, n + 1)
    IN  CASE mark = ":" /\ j < Len(rest) ->
                url_parse_host(From(rest, j + 2),
                    [url EXCEPT !.user = SubSeq(s, 1, n), !.pass = SubSeq(rest, 1, j)])
          [] mark = "@" -> url_parse_host(rest, [url EXCEPT !.user = SubSeq(s, 1, n)])
          [] OTHER -> url_parse_host(s, url)

\* url_parse_scheme: anything without a scheme is the name of a socket.
url_parse(s) ==
    LET u == URL(FALSE, Null, Null, << "localhost" >>, << >>)
    IN  CASE Len(s) > 1 /\ s[2] = "://" /\ s[1] \in {"http", "https"} ->
                url_parse_creds(From(s, 3), [u EXCEPT !.tls = (s[1] = "https")])
          [] Len(s) > 1 /\ s[2] = "://" /\ s[1] \notin {"http", "https"} -> Null
          [] OTHER -> u

\* The URL or socket that main connects to, or Null when there is none.
ServerUrl(a) == IF a.url # Null THEN a.url
                ELSE LET name == get_socket_name(a.conf)
                     IN  IF name = Null THEN Null ELSE << name >>

-----------------------------------------------------------------------------
(***************************************************************************)
(* Commands.                                                               *)
(***************************************************************************)
dispatch == [list |-> "command_list", disable |-> "command_disable",
             off |-> "command_disable", enable |-> "command_enable",
             on |-> "command_enable", delete |-> "command_delete_session",
             del |-> "command_delete_session", add |-> "command_add_session"]

\* oi_getn: a number, and nothing after it.
oi_getn(e) == e.n # Null /\ e.n \in 0 .. INT_MAX

\* check_uri: how many elements a well-formed object has; 0 for the others.
check_uri(a) ==
    IF /\ a.slash /\ Len(a.segs) \in 1 .. 3
       /\ a.segs[1].s = "-" \/ oi_getn(a.segs[1])
       /\ \A i \in 2 .. Len(a.segs) : oi_getn(a.segs[i])
    THEN Len(a.segs) ELSE 0

\* Is the command refused before anything is sent?
BadUsage(a) ==
    CASE dispatch[a.cmd] = "command_list" -> a.argc > 1
      [] dispatch[a.cmd] \in {"command_disable", "command_enable"} -> a.argc # 1
      [] dispatch[a.cmd] = "command_delete_session" -> a.argc # 2 \/ check_uri(a) # 2
      [] dispatch[a.cmd] = "command_add_session" -> a.argc # 2 \/ check_uri(a) # 3

Word(s) == [s |-> s, n |-> Null]

\* The object is put after the word as it is; a command without an object
\* stands for the slash alone.
Path(a, word) == CASE a.argc = 0 -> << Word(word), [s |-> "", n |-> 0] >>
                   [] a.argc > 0 /\ a.slash -> << Word(word) >> \o a.segs
                   [] OTHER -> << Word("unknown") >>

\* The key is not encoded: an ampersand ends it, and what follows is another
\* parameter (not "indent").
Query(a) == << << "key", SubSeq(a.key, 1, strcspn(a.key, {"&"})) >> >>

\* Does the URL end in a separator, with no parameter after it?
Open(a) == IF dispatch[a.cmd] \in {"command_delete_session", "command_add_session"}
           THEN a.key # << >> /\ Last(a.key) = "&" ELSE a.mark

\* send_request.  The elements of the URL's path come first.
send_request(a, url) ==
    LET Req(method, word, query) ==
          [method |-> method, query |-> query, open |-> Open(a),
           segs |-> IF url.path = << >> THEN Path(a, word)
                    ELSE << Word("unknown") >>]
    IN  CASE dispatch[a.cmd] = "command_list" -> Req("GET", "listener", << >>)
          [] dispatch[a.cmd] = "command_disable" -> Req("DELETE", "listener", << >>)
          [] dispatch[a.cmd] = "command_enable" -> Req("PUT", "listener", << >>)
          [] dispatch[a.cmd] = "command_delete_session" ->
                Req("DELETE", "session", Query(a))
          [] dispatch[a.cmd] = "command_add_session" -> Req("PUT", "session", Query(a))

Resting == [pc |-> "start", args |-> Null, exit |-> 0, out |-> json_null,
            lost |-> FALSE, junk |-> FALSE]

\* main up to the request: no address, no connection or a wrong command line
\* end the program.
main(c, a) ==
    /\ client[c].pc = "start" /\ ncmd < MaxCommands
    /\ ncmd' = ncmd + 1
    /\ LET s == ServerUrl(a)
           url == url_parse(s)
           Fail == /\ client' = [client EXCEPT ![c] = [Resting EXCEPT
                                    !.pc = "exited", !.args = a, !.exit = 1]]
                   /\ UNCHANGED svars
       IN  IF s = Null \/ (s # Null /\ url = Null) \/ BadUsage(a) THEN Fail
           ELSE \/ Fail
                \/ /\ client' = [client EXCEPT ![c] = [Resting EXCEPT
                                    !.pc = "wait", !.args = a]]
                   /\ request' = [request EXCEPT ![c] = send_request(a, url)]
                   /\ did' = [did EXCEPT ![c] = "no"]
                   /\ UNCHANGED << cfg, worker, reply, stale >>

(***************************************************************************)
(* read_response.  When the connection breaks in the body, the rest of the *)
(* buffer is what it was: BIO_read's count is only compared with 0.        *)
(***************************************************************************)
Bodies(r) ==
    LET text == json_value_format(r.val)
        Short(i) == SubSeq(text, 1, (i * Len(text)) \div Cuts)
    IN  {[text |-> text, lost |-> FALSE, junk |-> FALSE]}
        \cup {[text |-> Short(i) \o g, lost |-> TRUE, junk |-> g # << >>] :
                 i \in 0 .. Cuts - 1, g \in Garbage}

ValueAsStatus(a, v) == IF v.t = "bool" /\ v.b THEN 1 ELSE 0     \* mutant

\* What the command makes of the value: the status it exits with.  Without
\* the template the other commands fail, whatever the server has done.
ExitStatus(a, v) ==
    IF dispatch[a.cmd] \in {"command_disable", "command_enable"}
    THEN IF v.t = "bool" /\ v.b THEN 0 ELSE 1
    ELSE IF a.shown THEN 0 ELSE 1

read_response(c) ==
    /\ client[c].pc = "wait" /\ reply[c] # Null
    /\ LET Exits(code, v, lost, junk) ==
             client' = [client EXCEPT ![c] = [@ EXCEPT !.pc = "exited", !.exit = code,
                                         !.out = v, !.lost = lost, !.junk = junk]]
       IN  \/ /\ reply[c].code # 200
              /\ Exits(1, json_null, reply[c].code = 0, FALSE)
           \/ /\ reply[c].code = 200
              /\ \E b \in Bodies(reply[c]) : \E p \in {json_parse_string(b.text)} :
                   LET status == IF p.res = "NOERR" THEN ExitStatus(client[c].args, p.val)
                                 ELSE 1
                   IN  Exits(status, p.val, b.lost, b.junk)
           \/ /\ reply[c].code = 200          \* cut before the body
              /\ Exits(1, json_null, TRUE, FALSE)
    /\ UNCHANGED << svars, ncmd >>

\* The next command on this connection.
Again(c) ==
    /\ client[c].pc = "exited"
    /\ client' = [client EXCEPT ![c] = Resting]
    /\ reply' = [reply EXCEPT ![c] = Null]
    /\ UNCHANGED << cfg, request, worker, stale, did, ncmd >>

-----------------------------------------------------------------------------
\* The rest of the server, as long as there are clients: events of the traffic
\* with the keys in Keys and of the resolver with the answers in Answers.
Environment ==
    /\ nevt < MaxEvents
    /\ nevt' = nevt + 1
    /\ \E p \in Places(cfg) :
         LET svc == SvcAt(cfg, p)
         IN  \/ expire_sessions(p)
             \/ p \in DOMAIN BackendIds
                /\ \E key \in Keys, id \in BackendIds[p] : upd_session(p, key, id)
             \/ \E be \in Range(BackendsOf(svc)) :
                  \/ BackendDies(p, be) \/ BackendReturns(p, be)
                  \/ \E ids \in Answers : DnsUpdate(p, be, ids)
    /\ UNCHANGED << client, ncmd >>

Init == /\ cfg = Config /\ stale = FALSE
        /\ request = [c \in Conns |-> Null]
        /\ worker = [c \in Conns |-> Idle]
        /\ reply = [c \in Conns |-> Null]
        /\ did = [c \in Conns |-> "no"]
        /\ client = [c \in Conns |-> Resting]
        /\ ncmd = 0 /\ nevt = 0

ClientStep(c) == \/ \E a \in CommandLines : main(c, a)
                 \/ read_response(c) \/ Again(c)

Next == \/ Environment
        \/ /\ UNCHANGED nevt
           /\ \E c \in Conns : ClientStep(c) \/ (WorkerStep(c) /\ UNCHANGED << client, ncmd >>)

Spec == Init /\ [][Next]_vars

-----------------------------------------------------------------------------
(***************************************************************************)
(* Properties.                                                             *)
(***************************************************************************)
Num(i) == [s |-> "number", n |-> i - 1]

Member(v, name) == json_object_get(v, name).v

(***************************************************************************)
(* The numbers in a listing are those that commands take: the object at    *)
(* /L/S/B of the listing is the one that the control interface finds under *)
(* that path, the "parent" of a dynamic backend is the number of the       *)
(* matrix that made it, and a session's "backend" is the number of its     *)
(* backend, if that is in the last balancer of the service, as it is when  *)
(* there is one only.  Exempt are services with a session for a backend    *)
(* that had been removed.                                                  *)
(*                                                                         *)
(* For a backend in another balancer session_backend_index goes on         *)
(* counting, and the number is that of some other backend, against the     *)
(* manual (pound.texi, "Ordinal number of the backend assigned to handle   *)
(* requests with this session"): AnyBalancer would have it right.          *)
(***************************************************************************)
AnyBalancer(svc, id) == TRUE
InLast(svc, id) == \E b \in Range(Last(svc.balancers).backends) : b.id = id

ListingIf(Covered(_, _)) ==
    LET First(p) == IF p[1] = 0 THEN [s |-> "-", n |-> Null] ELSE Num(p[1])
        Found(p, bs) == [i \in DOMAIN bs |->
                           ctl_listener(cfg, << First(p), Num(p[2]), Num(i) >>)]
        BackendsTrue(svc, bs, found) ==
            /\ Len(bs) = Len(BackendsOf(svc))
            /\ \A i \in DOMAIN bs :
                 /\ found[i].type = "backend"
                 /\ Member(bs[i], found[i].was.type).s = << found[i].be >>
                 /\ found[i].was.parent # Null =>
                      found[Member(bs[i], "parent").n \div 10 + 1].be = found[i].was.parent
        SessionsTrue(svc, ss, found) ==
            \A j \in DOMAIN ss :
               LET n == Member(ss[j], "backend").n \div 10
               IN  /\ n < Len(found)
                   /\ Covered(svc, svc.sessions[j].be) => found[n + 1].be = svc.sessions[j].be
    IN  \A p \in Places(cfg) : \A v \in {service_serialize(SvcAt(cfg, p))} :
          LET bs == Member(v, "backends")
              ss == Member(v, "sessions")
          IN  bs.t = "array" =>
                \A found \in {Found(p, bs.a)} :
                  /\ BackendsTrue(SvcAt(cfg, p), bs.a, found)
                  /\ ss.t = "array" /\ ~stale => SessionsTrue(SvcAt(cfg, p), ss.a, found)

ListingTrue == ListingIf(InLast)

(***************************************************************************)
(* The client reads what the server meant: the value that is parsed from a *)
(* complete reply is the value that was described, and a reply that was    *)
(* cut is an error (as long as the memory behind it is clear).             *)
(***************************************************************************)
ReplyUnderstood ==
    \A c \in Conns : client[c].pc = "exited" /\ reply[c] # Null =>
        /\ reply[c].code = 200 /\ ~client[c].lost => client[c].out = Shown(reply[c].val)
        /\ client[c].lost /\ ~client[c].junk => client[c].exit = 1

(***************************************************************************)
(* The exit status of a command that changes something tells whether the   *)
(* server has done it, whatever happens to the server meanwhile.  After    *)
(* exit 0 it is done, or it was about a backend that is neither regular    *)
(* nor a matrix: backend_disable ignores those, and is reported as done.   *)
(* After exit 1 it is not done, with three exceptions: the answer may be   *)
(* lost after the change; a template that is not defined is found out      *)
(* after the change; and the server may refuse to answer after the change, *)
(* when the URL ends in a separator.                                       *)
(***************************************************************************)
ExitTruth ==
    \A c \in Conns :
      LET a == client[c].args
      IN  client[c].pc = "exited" /\ dispatch[a.cmd] # "command_list" =>
            /\ client[c].exit = 0 => did[c] \in {"done", "ignored"}
            /\ client[c].exit = 1 /\ reply[c] # Null =>
                  \/ did[c] = "no" \/ client[c].lost \/ Open(a)
                  \/ ~a.shown /\ dispatch[a.cmd] \in {"command_delete_session", "command_add_session"}

(***************************************************************************)
(* No request takes the control interface away where it is in a service of *)
(* a listener: some listener that is enabled has an enabled service with   *)
(* an enabled control backend.                                             *)
(***************************************************************************)
ControlReachable ==
    \E l \in DOMAIN cfg.listeners, s \in 1 .. 2 :
        /\ s \in DOMAIN cfg.listeners[l].services
        /\ LET lstn == cfg.listeners[l]
               svc == lstn.services[s]
           IN  /\ ~lstn.disabled /\ ~svc.disabled
               /\ \E b \in Range(BackendsOf(svc)) : b.type = "control" /\ ~b.disabled

=============================================================================
