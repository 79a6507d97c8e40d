------------------------------ MODULE Control ------------------------------
(***************************************************************************)
(* The control interface (svc.c): the objects of the configuration, their  *)
(* description as JSON values, and the handlers of the requests that list, *)
(* enable and disable objects and edit sessions.                           *)
(*                                                                         *)
(* A worker that serves a control request finds the object first, without  *)
(* a lock; it changes the object, then describes it, with the mutex of a   *)
(* service held for each service in turn.  Between these steps other       *)
(* workers, timers and DNS updates change the same objects.                *)
(*                                                                         *)
(* The path of a request is the sequence of its elements; an element has a *)
(* text and the number strtol reads there, or Null.  The elements and      *)
(* numbers are counted from 0 by the user and from 1 in the sequences.     *)
(***************************************************************************)
EXTENDS JsonText, FiniteSets

CONSTANTS Null,
          Unset,         \* a text that begins at the end of the URL and whose
                         \* length was never set
          Conns,         \* connections to the control interface
          Config,        \* the configuration the server starts with
          KEY_SIZE,      \* longest session key
          INT_MAX, LONG_MAX,
          MaxIndent

ASSUME WidthAssumption == INT_MAX \in Nat /\ LONG_MAX \in Nat /\ INT_MAX <= LONG_MAX

VARIABLES cfg,       \* [listeners, services]: objects and their state
          request,   \* the request on each connection, or Null
          worker,    \* the worker of each connection
          reply,     \* what the server has sent on each connection, or Null
          stale,     \* has a removed backend got a session since the start?
          did        \* what the request on a connection did: no, done, ignored

svars == << cfg, request, worker, reply, stale, did >>

-----------------------------------------------------------------------------
(***************************************************************************)
(* Objects.  A service is at <<l, s>>: in listener l, or global if l = 0.  *)
(***************************************************************************)
ServicesOf(g, l) == IF l = 0 THEN g.services ELSE g.listeners[l].services

SvcAt(g, p) == ServicesOf(g, p[1])[p[2]]

WithSvc(g, p, svc) ==
    IF p[1] = 0 THEN [g EXCEPT !.services[p[2]] = svc]
    ELSE [g EXCEPT !.listeners[p[1]].services[p[2]] = svc]

Places(g) == LET In(l) == {<< l, s >> : s \in DOMAIN ServicesOf(g, l)}
             IN  UNION {In(l) : l \in 0 .. Len(g.listeners)}

BackendsOf(svc) ==
    FlattenSeq([i \in DOMAIN svc.balancers |-> svc.balancers[i].backends])

HasBackend(svc, id) == \E i \in DOMAIN BackendsOf(svc) : BackendsOf(svc)[i].id = id

\* The service with one backend changed.
WithBackend(svc, be) ==
    LET Change(b) == IF b.id = be.id THEN be ELSE b
        In(bal) == [bal EXCEPT !.backends = [i \in DOMAIN @ |-> Change(@[i])]]
    IN  [svc EXCEPT !.balancers = [i \in DOMAIN @ |-> In(@[i])]]

backend_is_alive(be) == be.type # "matrix" /\ (be.type = "backend" => be.alive)

\* service_session_remove_by_backend, service_session_remove_by_key and
\* service_session_add, as they act on the list.
RemoveByBackends(svc, ids) ==
    [svc EXCEPT !.sessions = SelectSeq(@, LAMBDA x : x.be \notin ids)]

RemoveByKey(svc, key) ==
    [svc EXCEPT !.sessions = SelectSeq(@, LAMBDA x : x.key # key)]

AddSession(svc, key, id) ==
    [RemoveByKey(svc, key) EXCEPT !.sessions = Append(@, [key |-> key, be |-> id])]

Children(svc, id) == {b.id : b \in {x \in Range(BackendsOf(svc)) : x.parent = id}}

\* backend_sweep: the backends in ids leave their balancers with their
\* sessions, and a balancer that is left empty goes too.
Sweep(svc, ids) ==
    LET Kept(bal) ==
            [bal EXCEPT !.backends = SelectSeq(@, LAMBDA b : b.id \notin ids)]
    IN  [RemoveByBackends(svc, ids) EXCEPT
            !.balancers = SelectSeq([i \in DOMAIN @ |-> Kept(@[i])],
                                    LAMBDA bal : bal.backends # << >>)]

-----------------------------------------------------------------------------
(***************************************************************************)
(* Description of objects.                                                 *)
(***************************************************************************)
NameValue(name) == IF name = Null THEN json_null ELSE json_string(<< name >>)

\* The backends are counted over all balancers; the loop over a balancer
\* ends at the backend that is looked for, the loop over balancers does not.
session_backend_index(svc, id) ==
    LET Upto(bs) == LET at == {i \in DOMAIN bs : bs[i].id = id}
                    IN  IF at = {} THEN Len(bs) ELSE (CHOOSE i \in at : TRUE) - 1
    IN  FoldLeft(LAMBDA n, bal : n + Upto(bal.backends), 0, svc.balancers)

find_backend_index(svc, id) ==
    LET at == {i \in DOMAIN BackendsOf(svc) : BackendsOf(svc)[i].id = id}
    IN  IF at = {} THEN -1 ELSE (CHOOSE i \in at : TRUE) - 1

service_session_serialize(svc) ==
    IF svc.sess_type = "NONE" THEN json_null
    ELSE json_array([i \in DOMAIN svc.sessions |->
            Object(<< << "key", json_string(svc.sessions[i].key) >>,
                      << "backend", json_integer(
                            session_backend_index(svc, svc.sessions[i].be)) >>,
                      << "expire", json_string(<< "time" >>) >> >>)])

\* Averages exist once there has been a request.
backend_stats_serialize(be) ==
    Object(<< << "request_count", json_integer(be.numreq) >> >>
           \o (IF be.numreq = 0 THEN << >>
               ELSE << << "request_time_avg", json_number(be.avgtime) >>,
                       << "request_time_stddev", json_number(be.stddev) >> >>))

\* The matrix at the top, if there is one above the backend; the time of the
\* update of a matrix, which has no job while it is disabled.
backend_serialize_dyninfo(svc, be) ==
    IF be.parent # Null
    THEN << << "parent", json_integer(find_backend_index(svc, be.parent)) >> >>
    ELSE IF be.type = "matrix" /\ ~be.disabled THEN << << "expire", json_string(<< "time" >>) >> >>
    ELSE << >>

\* What only some types have: address, url, status and the like.
TypeAttributes(be) == << << be.type, json_string(<< be.id >>) >> >>

backend_serialize(svc, be, weight) ==
    Object(<< << "type", json_string(<< be.type >>) >>,
              << "priority", json_integer(be.priority) >>,
              << "alive", json_bool(backend_is_alive(be)) >>,
              << "enabled", json_bool(~be.disabled) >> >>
           \o (IF weight = Null THEN << >>
               ELSE << << "weight", json_integer(weight) >> >>)
           \o TypeAttributes(be)
           \o (IF be.type \in {"matrix", "backend"}
               THEN backend_serialize_dyninfo(svc, be) ELSE << >>)
           \o (IF be.type = "matrix" THEN << >>
               ELSE << << "stats", backend_stats_serialize(be) >> >>))

\* A service without balancers has null instead of an array.
backends_serialize(svc) ==
    IF svc.balancers = << >> THEN json_null
    ELSE json_array(FlattenSeq([i \in DOMAIN svc.balancers |->
            LET bal == svc.balancers[i]
            IN  [j \in DOMAIN bal.backends |->
                    backend_serialize(svc, bal.backends[j], bal.weight)]]))

service_serialize(svc) ==
    Object(<< << "name", NameValue(svc.name) >>,
              << "enabled", json_bool(~svc.disabled) >>,
              << "session_type", json_string(<< svc.sess_type >>) >>,
              << "sessions", service_session_serialize(svc) >>,
              << "backends", backends_serialize(svc) >> >>)

\* listener_serialize but for the services.
ListenerPairs(lstn) ==
    << << "name", NameValue(lstn.name) >>,
       << "address", json_string(<< "address" >>) >>,
       << "protocol", json_string(<< lstn.protocol >>) >> >>
    \o (IF lstn.protocol = "https" THEN << << "nohttps11", json_integer(0) >> >>
        ELSE << >>)
    \o << << "enabled", json_bool(~lstn.disabled) >> >>

\* pound_core_serialize, with workers_serialize.
pound_core_serialize ==
    Object(<< << "version", json_string(<< "version" >>) >>,
              << "pid", json_integer(1) >>,
              << "timestamp", json_string(<< "time" >>) >>,
              << "queue_len", json_integer(0) >>,
              << "workers", Object(<< << "min", json_integer(1) >>,
                                      << "max", json_integer(2) >>,
                                      << "timeout", json_integer(1) >>,
                                      << "count", json_integer(1) >>,
                                      << "active", json_integer(1) >> >>) >> >>)

(***************************************************************************)
(* A description is made part by part: that of a listener is followed by   *)
(* those of its services, and those of the global services come last.     *)
(***************************************************************************)
Part(k, p) == [k |-> k, p |-> p]

ServiceParts(g, l) ==
    [s \in DOMAIN ServicesOf(g, l) |-> Part("service", << l, s >>)]

ListenerParts(g, l) == << Part("listener", << l, 0 >>) >> \o ServiceParts(g, l)

AllParts(g) == << Part("core", << 0, 0 >>) >>
               \o FlattenSeq([l \in DOMAIN g.listeners |-> ListenerParts(g, l)])
               \o ServiceParts(g, 0)

Describe(g, part) ==
    CASE part.k = "core"     -> pound_core_serialize
      [] part.k = "listener" -> Object(ListenerPairs(g.listeners[part.p[1]]))
      [] part.k = "service"  -> service_serialize(SvcAt(g, part.p))

\* The values of the service parts of a listener, as an array.
Gathered(parts, vals, l) ==
    LET own == SelectSeq([i \in DOMAIN parts |-> i],
                         LAMBDA i : parts[i].k = "service" /\ parts[i].p[1] = l)
    IN  json_array([i \in DOMAIN own |-> vals[own[i]]])

listener_serialize(parts, vals, i) ==
    json_object_set(vals[i], "services", Gathered(parts, vals, parts[i].p[1]))

\* The value as a whole: pound_serialize when it begins with the core.
Assembled(parts, vals) ==
    LET ls == SelectSeq([i \in DOMAIN parts |-> i], LAMBDA i : parts[i].k = "listener")
        listeners == [i \in DOMAIN ls |-> listener_serialize(parts, vals, ls[i])]
    IN  CASE parts[1].k = "core" /\ Len(parts) > 1 ->
                json_object_set(json_object_set(vals[1], "listeners", json_array(listeners)),
                                "services", Gathered(parts, vals, 0))
          [] parts[1].k = "listener" -> listeners[1]
          [] OTHER -> vals[1]

-----------------------------------------------------------------------------
(***************************************************************************)
(* Objects by name or number.  strtol reads 0 from an empty element, and   *)
(* a number below the range of int loses its upper bits.                   *)
(***************************************************************************)
Truncated(n) == ((n + INT_MAX + 1) % (2 * (INT_MAX + 1))) - (INT_MAX + 1)

ctl_getident(segs) ==
    LET e == Head(segs)
    IN  CASE segs = << >> -> [type |-> "ERR"]
          [] segs # << >> /\ e.n = Null -> [type |-> "STR", s |-> e.s]
          [] segs # << >> /\ e.n # Null /\ e.n <= INT_MAX /\ e.n >= -LONG_MAX - 1 ->
                [type |-> "NUM", n |-> Truncated(e.n)]
          [] OTHER -> [type |-> "ERR"]

\* The place, from 1, in a sequence of named objects; 0 if there is none.
LOCATE(objs, id) ==
    LET at == CASE id.type = "NUM" -> {i \in DOMAIN objs : i = id.n + 1}
                [] id.type = "STR" -> {i \in DOMAIN objs : objs[i].name = id.s}
                [] OTHER -> {}
    IN  IF at = {} THEN 0 ELSE CHOOSE i \in at : \A j \in at : i <= j

locate_backend(svc, id) ==
    IF id.type = "NUM" /\ id.n + 1 \in DOMAIN BackendsOf(svc)
    THEN BackendsOf(svc)[id.n + 1] ELSE Null

NotFound == [type |-> "none", p |-> << 0, 0 >>, be |-> Null, was |-> Null,
             rest |-> << >>]

Obj(type, p) == [NotFound EXCEPT !.type = type, !.p = p]

ctl_backend(g, p, segs) ==
    LET be == locate_backend(SvcAt(g, p), ctl_getident(segs))
    IN  IF be = Null THEN NotFound
        ELSE [Obj("backend", p) EXCEPT !.be = be.id, !.was = be, !.rest = Tail(segs)]

ctl_service(g, l, segs) ==
    LET s == LOCATE(ServicesOf(g, l), ctl_getident(segs))
    IN  CASE s = 0 -> NotFound
          [] s # 0 /\ Len(segs) > 1 -> ctl_backend(g, << l, s >>, Tail(segs))
          [] OTHER -> Obj("service", << l, s >>)

\* An empty path or a dash is no listener: the null pointer.
ctl_listener(g, segs) ==
    LET none == segs[1].s = "-" \/ (segs[1].s = "" /\ Len(segs) = 1)
        l == IF none THEN 0 ELSE LOCATE(g.listeners, ctl_getident(segs))
    IN  CASE l = 0 /\ ~none -> NotFound
          [] ~(l = 0 /\ ~none) /\ Len(segs) > 1 -> ctl_service(g, l, Tail(segs))
          [] OTHER -> Obj("listener", << l, 0 >>)

(***************************************************************************)
(* find_endpoint.  The first entry of the table, for GET, matches every    *)
(* path; the longest match is taken.                                       *)
(***************************************************************************)
control_endpoint ==
    { << "core", "GET", "list_core" >>,
      << "listener", "GET", "list" >>, << "listener", "DELETE", "disable" >>,
      << "listener", "PUT", "enable" >>,
      << "service", "GET", "list" >>, << "service", "DELETE", "disable" >>,
      << "service", "PUT", "enable" >>,
      << "session", "DELETE", "delete_session" >>, << "session", "PUT", "add_session" >> }

find_endpoint(r) ==
    LET hits == {e \in control_endpoint : e[1] = r.segs[1].s /\ e[2] = r.method}
    IN  CASE hits # {} -> (CHOOSE e \in hits : TRUE)[3]
          [] hits = {} /\ r.method = "GET" -> "list_all"
          [] OTHER -> "bad_request"

\* get_param: the value of a parameter, or Null.  When a query ends in the
\* separator itself, the loop ends with a pointer to the end of the URL.
get_param(r, name) ==
    LET at == {i \in DOMAIN r.query : r.query[i][1] = name}
    IN  CASE at # {} -> r.query[CHOOSE i \in at : \A j \in at : i <= j][2]
          [] at = {} /\ r.open -> Unset
          [] OTHER -> Null

service_has_control(svc) ==
    \E i \in DOMAIN BackendsOf(svc) : BackendsOf(svc)[i].type = "control"

ControlUnguarded(lstn) == FALSE                                 \* mutant

listener_has_control(lstn) ==
    \E s \in DOMAIN lstn.services : service_has_control(lstn.services[s])

-----------------------------------------------------------------------------
(***************************************************************************)
(* The steps of a worker.                                                  *)
(***************************************************************************)
Idle == [pc |-> "idle", do |-> "none", obj |-> NotFound, parts |-> << >>, vals |-> << >>]

Answer(c, code, val) ==
    /\ reply' = [reply EXCEPT ![c] = [code |-> code, val |-> val]]
    /\ request' = [request EXCEPT ![c] = Null]
    /\ worker' = [worker EXCEPT ![c] = Idle]

Refuse(c, code) == Answer(c, code, json_null) /\ UNCHANGED << cfg, stale, did >>

\* send_json_reply: a value for "indent" that is out of range is refused
\* whatever has been done before; if the end of the URL is taken for it, it
\* depends on what the length happens to be.
send_json_reply(c, val) ==
    LET n == get_param(request[c], "indent")
    IN  \/ n \in {Null, Unset} \cup 0 .. MaxIndent /\ Answer(c, 200, val)
        \/ n \notin {Null} \cup 0 .. MaxIndent /\ Answer(c, 400, json_null)

Going(c, w) == /\ worker' = [worker EXCEPT ![c] = w]
               /\ UNCHANGED << request, reply >>

\* control_response_basic up to the call of the handler: the object is found.
control_response_basic(c) ==
    /\ worker[c].pc = "idle" /\ request[c] # Null
    /\ LET r == request[c]
           do == find_endpoint(r)
           segs == Tail(r.segs)
           obj == IF r.segs[1].s = "service" THEN ctl_service(cfg, 0, segs)
                  ELSE ctl_listener(cfg, segs)
       IN  CASE do = "bad_request" -> Refuse(c, 400)
             [] do \in {"list_all", "list_core"} ->
                  /\ Going(c, [Idle EXCEPT !.pc = "describe", !.do = do,
                                  !.parts = IF do = "list_all" THEN AllParts(cfg)
                                            ELSE << AllParts(cfg)[1] >>])
                  /\ UNCHANGED << cfg, stale, did >>
             [] do \notin {"bad_request", "list_all", "list_core"}
                /\ (segs = << >> \/ obj.type = "none") -> Refuse(c, 404)
             [] OTHER -> /\ Going(c, [Idle EXCEPT !.pc = "act", !.do = do, !.obj = obj])
                         /\ UNCHANGED << cfg, stale, did >>

\* The server dies and the supervisor starts another one.
Restart ==
    /\ cfg' = Config
    /\ request' = [c \in Conns |-> Null]
    /\ worker' = [c \in Conns |-> Idle]
    /\ reply' = [c \in Conns |-> IF request[c] # Null
                                 THEN [code |-> 0, val |-> json_null]
                                 ELSE reply[c]]
    /\ stale' = FALSE
    /\ UNCHANGED did

\* The backend that was found has left the service since.
Gone(c) == LET o == worker[c].obj
           IN  o.be # Null /\ ~HasBackend(SvcAt(cfg, o.p), o.be)

\* A handler that is called with a path that goes on.
TooLong(c) == /\ worker[c].pc = "act"
              /\ worker[c].do \in {"list", "disable", "enable"}
              /\ worker[c].obj.rest # << >>
              /\ Refuse(c, 404)

\* The use of a backend that is gone: its memory may have been freed, and
\* kill_be asserts that it has a balancer.
UseOfGone(c) ==
    /\ worker[c].pc = "act" /\ Gone(c)
    /\ worker[c].do # "delete_session" /\ worker[c].obj.rest = << >>
    /\ \/ Restart
       \/ /\ worker[c].do = "list"
          /\ send_json_reply(c, backend_serialize(SvcAt(cfg, worker[c].obj.p),
                                                  worker[c].obj.was, Null))
          /\ UNCHANGED << cfg, stale, did >>

Live(c) == worker[c].pc = "act" /\ ~Gone(c)

\* list_handler finds out what is to be described.  A backend is described
\* at once, with the service locked.
list_handler(c) ==
    /\ Live(c) /\ worker[c].do = "list" /\ worker[c].obj.rest = << >>
    /\ LET o == worker[c].obj
           svc == SvcAt(cfg, o.p)
           parts == CASE o.type = "service" -> << Part("service", o.p) >>
                      [] o.type = "listener" /\ o.p[1] = 0 -> AllParts(cfg)
                      [] OTHER -> ListenerParts(cfg, o.p[1])
           at == find_backend_index(svc, o.be) + 1
           weights == FlattenSeq([i \in DOMAIN svc.balancers |->
                        [j \in DOMAIN svc.balancers[i].backends |-> svc.balancers[i].weight]])
       IN  IF o.type = "backend"
           THEN send_json_reply(c, backend_serialize(svc, BackendsOf(svc)[at], weights[at]))
           ELSE Going(c, [worker[c] EXCEPT !.pc = "describe", !.parts = parts])
    /\ UNCHANGED << cfg, stale, did >>

\* One part of the description.
Serialize(c) ==
    /\ worker[c].pc = "describe"
    /\ Len(worker[c].vals) < Len(worker[c].parts)
    /\ LET part == worker[c].parts[Len(worker[c].vals) + 1]
       IN  Going(c, [worker[c] EXCEPT !.vals = Append(@, Describe(cfg, part))])
    /\ UNCHANGED << cfg, stale, did >>

ListReply(c) ==
    /\ worker[c].pc = "describe"
    /\ Len(worker[c].vals) = Len(worker[c].parts)
    /\ send_json_reply(c, Assembled(worker[c].parts, worker[c].vals))
    /\ UNCHANGED << cfg, stale, did >>

\* A mutant: the sessions of the backends that go stay.
DisableKeepsSessions(svc, be, dis) ==
    LET new == WithBackend(svc, [be EXCEPT !.disabled = dis])
    IN  CASE be.type = "matrix" /\ dis ->
                [Sweep(new, Children(svc, be.id)) EXCEPT !.sessions = svc.sessions]
          [] be.type = "redirect" -> svc
          [] OTHER -> new

\* backend_disable: regular and matrix backends only; a matrix that is
\* disabled loses the backends made from it.
backend_disable(svc, be, dis) ==
    CASE be.type = "backend" -> WithBackend(svc, [be EXCEPT !.disabled = dis])
      [] be.type = "matrix" ->
            LET new == WithBackend(svc, [be EXCEPT !.disabled = dis])
            IN  IF dis THEN Sweep(new, Children(svc, be.id)) ELSE new
      [] OTHER -> svc

\* disable_handler.  There is no listener to look at in the global scope.
disable_handler(c) ==
    /\ Live(c) /\ worker[c].do \in {"disable", "enable"}
    /\ worker[c].obj.rest = << >>
    /\ LET o == worker[c].obj
           dis == worker[c].do = "disable"
           svc == SvcAt(cfg, o.p)
           be == BackendsOf(svc)[find_backend_index(svc, o.be) + 1]
           Done(g, now) == /\ cfg' = g
                           /\ send_json_reply(c, json_bool(TRUE))
                           /\ did' = [did EXCEPT ![c] = now]
                           /\ UNCHANGED stale
       IN  CASE o.type = "backend" ->
                  IF be.type = "control" THEN Refuse(c, 400)
                  ELSE Done(WithSvc(cfg, o.p, backend_disable(svc, be, dis)),
                            IF be.type \in {"backend", "matrix"} THEN "done"
                            ELSE "ignored")
             [] o.type = "service" ->
                  IF service_has_control(svc) THEN Refuse(c, 400)
                  ELSE Done(WithSvc(cfg, o.p, [svc EXCEPT !.disabled = dis]), "done")
             [] o.type = "listener" /\ o.p[1] = 0 -> Restart
             [] OTHER ->
                  IF listener_has_control(cfg.listeners[o.p[1]]) THEN Refuse(c, 400)
                  ELSE Done([cfg EXCEPT !.listeners[o.p[1]].disabled = dis], "done")

\* The key a session request names.  From the end of the URL an empty one is
\* read, if the length that happens to be there is not too large.
KeyOf(c) == LET param == get_param(request[c], "key")
            IN  IF param = Unset THEN << >> ELSE param

\* The session handlers make svc of the service, with the service locked, and
\* describe it after they have locked it once more.
SessionHandler(c, do, type, svc) ==
    /\ worker[c].pc = "act" /\ worker[c].do = do
    /\ LET o == worker[c].obj
           param == get_param(request[c], "key")
       IN  \/ /\ o.type # type \/ param \in {Null, Unset} \/ Len(param) > KEY_SIZE
              /\ Refuse(c, 400)
           \/ /\ o.type = type /\ param # Null /\ Len(KeyOf(c)) <= KEY_SIZE
              /\ cfg' = WithSvc(cfg, o.p, svc)
              /\ Going(c, [worker[c] EXCEPT !.pc = "describe",
                                            !.parts = << Part("service", o.p) >>])
              /\ stale' = (stale \/ Gone(c))
              /\ did' = [did EXCEPT ![c] = "done"]

session_remove_handler(c) ==
    SessionHandler(c, "delete_session", "service",
                   RemoveByKey(SvcAt(cfg, worker[c].obj.p), KeyOf(c)))

\* The backend may have gone since it was found; the session is added all the
\* same if its memory is still there.
session_add_handler(c) ==
    SessionHandler(c, "add_session", "backend",
                   AddSession(SvcAt(cfg, worker[c].obj.p), KeyOf(c), worker[c].obj.be))

WorkerStep(c) ==
    \/ control_response_basic(c) \/ TooLong(c) \/ UseOfGone(c)
    \/ list_handler(c) \/ Serialize(c) \/ ListReply(c) \/ disable_handler(c)
    \/ session_remove_handler(c) \/ session_add_handler(c)

-----------------------------------------------------------------------------
(***************************************************************************)
(* What the rest of the server does meanwhile.  Each step has the service  *)
(* locked.                                                                 *)
(***************************************************************************)
Others(p, svc) == /\ cfg' = WithSvc(cfg, p, svc)
                  /\ UNCHANGED << request, worker, reply, did >>

\* upd_session, for the backend that has answered; it may have been swept.
upd_session(p, key, id) ==
    LET svc == SvcAt(cfg, p)
    IN  /\ svc.sess_type # "NONE"
        /\ \A i \in DOMAIN svc.sessions : svc.sessions[i].key # key
        /\ Others(p, AddSession(svc, key, id))
        /\ stale' = (stale \/ ~HasBackend(svc, id))

expire_sessions(p) ==
    LET svc == SvcAt(cfg, p)
    IN  /\ svc.sessions # << >>
        /\ Others(p, [svc EXCEPT !.sessions = Tail(@)])
        /\ UNCHANGED stale

\* kill_be and touch_be.
BackendDies(p, be) ==
    /\ be.type = "backend" /\ be.alive
    /\ Others(p, RemoveByBackends(
                     WithBackend(SvcAt(cfg, p), [be EXCEPT !.alive = FALSE]), {be.id}))
    /\ UNCHANGED stale

BackendReturns(p, be) ==
    /\ be.type = "backend" /\ ~be.alive
    /\ Others(p, WithBackend(SvcAt(cfg, p), [be EXCEPT !.alive = TRUE]))
    /\ UNCHANGED stale

\* service_matrix_addr_update_backends, with an answer that names the hosts
\* of the backends in ids.
DnsUpdate(p, mtx, ids) ==
    LET svc == SvcAt(cfg, p)
        New(id) == [mtx EXCEPT !.id = id, !.type = "backend", !.parent = mtx.id]
        fresh == SelectSeq(ids, LAMBDA id : ~HasBackend(svc, id))
        Joined(bal) == IF mtx \in Range(bal.backends)
                       THEN [bal EXCEPT !.backends =
                                @ \o [i \in DOMAIN fresh |-> New(fresh[i])]]
                       ELSE bal
        grown == [svc EXCEPT !.balancers = [i \in DOMAIN @ |-> Joined(@[i])]]
    IN  /\ mtx.type = "matrix" /\ ~mtx.disabled
        /\ Others(p, Sweep(grown, Children(svc, mtx.id) \ Range(ids)))
        /\ UNCHANGED stale
=============================================================================
