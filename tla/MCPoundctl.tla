----------------------------- MODULE MCPoundctl -----------------------------
(***************************************************************************)
(* A listener with a service that keeps sessions and has a matrix with one *)
(* backend made from it and a backend in a balancer of its own; a listener *)
(* for the control interface; a global service that keeps sessions and has *)
(* one balancer, with a redirection and a backend.                         *)
(***************************************************************************)
EXTENDS Poundctl

Be(id, type, parent) ==
    [id |-> id, type |-> type, parent |-> parent, priority |-> 5, disabled |-> FALSE,
     alive |-> TRUE, numreq |-> IF type = "backend" THEN 2 ELSE 0,
     avgtime |-> 15, stddev |-> 25]

Svc(name, sess, bals) ==
    [name |-> name, disabled |-> FALSE, sess_type |-> sess, sessions |-> << >>,
     balancers |-> [i \in DOMAIN bals |-> [weight |-> i - 1, backends |-> bals[i]]]]

Lstn(name, protocol, svcs) ==
    [name |-> name, protocol |-> protocol, disabled |-> FALSE, services |-> svcs]

MCConfig ==
    [listeners |->
        << Lstn("web", "https",
                << Svc("s", "COOKIE", << << Be("m", "matrix", Null), Be("d1", "backend", "m") >>,
                                         << Be("b", "backend", Null) >> >>) >>),
           Lstn("ctl", "http", << Svc(Null, "NONE", << << Be("c", "control", Null) >> >>) >>) >>,
     services |-> << Svc("g", "IP", << << Be("r", "redirect", Null), Be("x", "backend", Null) >> >>) >>]

E(s, n) == [s |-> s, n |-> n]
Z == E("0", 0)

Line(word, arg, name) == [word |-> word, arg |-> arg, name |-> name]

\* The configuration file of the server: the control section is a block.
Conf == << Line("", "none", Null), Line("listenhttp", "none", Null),
           Line("control", "none", Null), Line("mode", "other", Null),
           Line("socket", "quoted", "/run/ctl"), Line("end", "none", Null) >>

Cmd(cmd, argc, segs, key) ==
    [cmd |-> cmd, argc |-> argc, slash |-> TRUE, segs |-> segs, mark |-> FALSE, key |-> key,
     url |-> Null, shown |-> TRUE, conf |-> Conf]

K1 == << "k" >>
K2 == << "k", "\"" >>

MCKeys == {K2}

MCCommands ==
    { Cmd("list", 0, << >>, K1), Cmd("list", 1, << Z, E("s", Null), E("2", 2) >>, K1),
      Cmd("enable", 1, << Z >>, K1), Cmd("disable", 1, << Z, Z >>, K1),
      Cmd("disable", 1, << Z, Z, Z >>, K1), Cmd("on", 1, << Z, Z, Z >>, K1),
      Cmd("disable", 1, << Z, Z, E("1", 1) >>, K1),
      Cmd("disable", 1, << Z, Z, Z, Z >>, K1),
      Cmd("disable", 1, << E("-", Null), Z, Z >>, K1),
      Cmd("disable", 1, << E("1", 1) >>, K1), Cmd("disable", 1, << E("ctl", Null), Z >>, K1),
      Cmd("disable", 1, << E("1", 1), Z, Z >>, K1),
      Cmd("add", 2, << Z, Z, E("1", 1) >>, K2),
      Cmd("add", 2, << Z, Z, Z >>, << "k", "k", "k" >>),
      Cmd("del", 2, << E("web", Null), Z >>, K2),
      Cmd("add", 2, << E("-", Null), Z, E("1", 1) >>, << "k", "&" >>),
      [Cmd("del", 2, << Z, Z >>, K2) EXCEPT !.shown = FALSE],
      [Cmd("off", 1, << Z >>, K1) EXCEPT !.mark = TRUE],
      [Cmd("disable", 1, << >>, K1) EXCEPT !.slash = FALSE],
      [Cmd("list", 0, << >>, K1) EXCEPT !.conf = SubSeq(@, 1, 4)],
      [Cmd("off", 1, << Z >>, K1) EXCEPT !.url =
          << "https", "://", "u", ":", "p", "@", "h", "/", "x" >>] }

MCKeyOrder == << "abort", "active", "address", "alive", "backend", "backends", "control", "count",
                 "enabled", "expire", "key", "listeners", "matrix", "max", "min", "name",
                 "nohttps11", "parent", "pid", "priority", "protocol", "queue_len",
                 "redirect", "request_count", "request_time_avg", "request_time_stddev",
                 "services", "session_type", "sessions", "stats", "timeout", "timestamp",
                 "type", "version", "weight", "workers" >>

MCBackendIds == << 1, 1 >> :> {"d1", "b"} @@ << 0, 1 >> :> {"x"}

MCAnswers == {<< >>, << "d2", "d1" >>}

Symmetry == Permutations(Conns)
MCGarbage == {<< >>, << "}", "]", "}" >>}
=============================================================================
