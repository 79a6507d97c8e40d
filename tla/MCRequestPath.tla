---------------------------- MODULE MCRequestPath ----------------------------
(***************************************************************************)
(* Instance for TLC.  Four families of cases: requests that are matched    *)
(* with pairs of services, requests that are rewritten by sequences of     *)
(* operations, requests with bodies, and responses with locations.         *)
(***************************************************************************)
EXTENDS RequestPath

MCUpper(c) == IF c = "a" THEN "A" ELSE c
MCMethods == [GET |-> 0, PUT |-> 1, COPY |-> 2]
MCCombinable == {"Accept"}
MCDigits == [c \in {"0", "1", "2", "f"} |->
               CASE c = "0" -> 0 [] c = "1" -> 1 [] c = "2" -> 2 [] OTHER -> 15]

\* Patterns.
Re(s) == [kind |-> "re", ci |-> FALSE, lit |-> s]
Pat(kd, i, s) == [kind |-> kd, ci |-> i, lit |-> s]
Lit(s) == [t |-> "lit", s |-> s]
Ref(g, m) == [t |-> "ref", g |-> g, m |-> m]
Acc(n) == [t |-> "acc", name |-> n]
AccParam(n) == [t |-> "acc", name |-> "param", param |-> n]
AccHeader(n) == [t |-> "acc", name |-> "header", header |-> n]
Bad == [t |-> "bad"]

MCUrls == { << "/", "a" >>, << "/", "a", "?", "n", "=", "a" >>,
            << "/", "b", "?", "m", "&", "n", "=", "x", "&" >>,
            << "/", "a", "?", "x", "?", "n" >>, << "/", "a", "?" >> }

NoConn == [forwarded |-> FALSE, sslheaders |-> FALSE, proto |-> "http",
           from_host |-> "addr", family |-> "inet", port |-> "port",
           cipher |-> Null, x509 |-> Null, servername |-> Null,
           rewr_loc |-> 1, rewr_dest |-> TRUE, lfamily |-> "inet", lip |-> 1,
           be |-> [family |-> "inet", ip |-> 2, port |-> 8, portname |-> "8", ctx |-> FALSE]]

Always == [type |-> "and", head |-> << >>]
Service(c, d, r) == [cond |-> c, disabled |-> d, rules |-> r, be |-> Null]
Redirect(c, u, h) == [Service(c, FALSE, << >>) EXCEPT !.be = [url |-> u, has_uri |-> h]]
MCSafe == {"h", ":", "/", "a", "b", "n", "m", "?", "=", "&"}
Case0 == [method |-> "GET", url |-> << "/", "a" >>, version |-> 1, group |-> 1,
          headers |-> << << "Host", << "h", ":", "p" >> >> >>, conn |-> NoConn,
          lstn |-> << >>, services |-> << Service(Always, FALSE, << >>) >>,
          rules |-> << >>, chunked |-> FALSE, before |-> << >>,
          response |-> Null, resprules |-> << >>]

\* Conditions.
Leaves == << [type |-> "url", re |-> Re(<< "/", "a" >>)],
             [type |-> "path", re |-> Pat("exact", TRUE, << "/", "A" >>)],
             [type |-> "path", re |-> Re(<< "/" >>)],
             [type |-> "path", re |-> Pat("end", FALSE, << "b" >>)],
             [type |-> "query_param", param |-> << "n" >>, re |-> Re(<< >>)],
             [type |-> "query_param", param |-> << "m" >>, re |-> Pat("beg", FALSE, << "x" >>)],
             [type |-> "host", re |-> Re(<< "Host", "h" >>)],
             [type |-> "hdr", re |-> Re(<< "Accept" >>)],
             [type |-> "string_match", re |-> Pat("beg", FALSE, << "h", "/" >>),
              string |-> << Acc("host"), Acc("path"), AccHeader("Accept") >>],
             [type |-> "string_match", re |-> Re(<< >>), string |-> << Bad >>],
             [type |-> "basic_auth", users |-> {[name |-> << "u" >>, pass |-> << "w" >>]}],
             [type |-> "acl", r |-> 0], [type |-> "acl", r |-> -1],
             [type |-> "client_cert", same |-> TRUE, verified |-> FALSE],
             [type |-> "query", re |-> Re(<< >>)],
             [type |-> "url", re |-> Pat("contain", TRUE, << "n", "=", "A" >>)] >>
L(i) == Leaves[i]
And(s) == [type |-> "and", head |-> s]
Or(s) == [type |-> "or", head |-> s]
Not(c) == [type |-> "not", head |-> << c >>]
Conds == {L(i) : i \in 1 .. 16 \ {15}}
         \cup {And(<< L(i), L(j), L(h) >>) : i \in {1, 7}, j \in {3, 5, 8}, h \in {3, 7, 12}}
         \cup {Or(<< L(i), L(j) >>) : i \in {2, 10, 13}, j \in {4, 7}}
         \cup {Not(L(2)), Not(Or(<< L(4), L(11) >>)), Or(<< >>),
               And(<< Not(L(4)), Or(<< L(6), L(5) >>), L(9) >>)}

\* Conditions with references: to a statement before (as in
\* tests/stringmatch.at), to one more, past a negation or an alternative that
\* failed, and to what was tried before the service.
Same(str, p) == [type |-> "string_match", string |-> str, re |-> p]
RefConds == { And(<< L(3), Same(<< Ref(1, 0) >>, Re(<< "a" >>)) >>),
              And(<< L(1), L(7), Same(<< Ref(1, 0), Ref(0, 1) >>, Re(<< ":", "p", "/" >>)) >>),
              And(<< L(3), Not(L(4)), Same(<< Ref(1, 1) >>, Re(<< "a" >>)) >>),
              Or(<< L(4), Same(<< Ref(0, 0) >>, Re(<< >>)) >>),
              And(<< L(3), Same(<< Ref(1, 1) >>, Re(<< "b" >>)) >>),
              Same(<< Ref(1, 0) >>, Re(<< "a" >>)),
              Same(<< Ref(1, 2), Lit(<< "a" >>) >>, Pat("end", FALSE, << "b", "a" >>)) }
Befores == { << >>, << [re |-> Re(<< "/" >>), text |-> << "/", "b" >>],
                       [re |-> Re(<< "b" >>), text |-> << "/", "b" >>] >> }

Rule(ops) == << [cond |-> L(3), ops |-> ops] >>

MCHeaders == { << << "Host", << "h", ":", "p" >> >> >>,
               << << "Accept", << "a" >> >>, << Null, << >> >>,
                  << "Host", << "g" >> >>, << "Accept", << "b" >> >> >>,
               << << "Authorization", << "Basic", "u", ":", "w" >> >>,
                  << "X-Forwarded-For", << "c1" >> >> >> }

MatchInit ==
    \/ \E u \in MCUrls, h \in MCHeaders, c \in Conds, d \in BOOLEAN, e \in {L(i) : i \in {1, 3, 5, 7, 9, 10, 11, 14}} :
          Start([Case0 EXCEPT !.url = u, !.headers = h,
                              !.lstn = << Service(c, d, << >>) >>,
                              !.services = << Service(e, FALSE, << >>) >>])
    \/ \E u \in MCUrls, h \in MCHeaders, b \in Befores, d \in BOOLEAN, e \in RefConds,
          c \in RefConds \cup {L(i) : i \in {2, 3, 4, 5, 10}} \cup {And(<< L(3), L(1), L(4) >>)} :
          Start([Case0 EXCEPT !.url = u, !.headers = h, !.before = b,
                              !.lstn = << Service(c, d, << >>) >>,
                              !.services = << Service(e, FALSE, << >>) >>])
    \/ \E u \in MCUrls :
          Start([Case0 EXCEPT !.url = u, !.lstn = << Service(L(15), FALSE, << >>) >>])
    \/ \E u \in MCUrls, c \in {L(1), L(3), L(5)}, h \in BOOLEAN,
          e \in {<< Lit(<< "h" >>) >>, << Acc("path"), Ref(1, 0) >>, << Bad >>} :
          Start([Case0 EXCEPT !.url = u, !.rules = << Rule(<< >>) >>,
                              !.lstn = << Redirect(c, e, h) >>])
    \/ \E m \in {"GET", "PUT", "COPY", "X"}, v \in {0, 1, 2}, g \in {0, 1, 2} :
          Start([Case0 EXCEPT !.method = m, !.version = v, !.group = g])

\* Rewriting operations; those of a service come last.
Ops == { [type |-> "url_set", str |-> << Lit(<< "/", "c" >>), Ref(1, 0) >>],
         [type |-> "path_set", str |-> << Lit(<< "/", "p" >>) >>],
         [type |-> "path_set", str |-> << Acc("path"), AccParam(<< "n" >>) >>],
         [type |-> "query_set", str |-> << Lit(<< "n", "=", "q" >>) >>],
         [type |-> "query_set", str |-> << Acc("query"), Ref(2, 0) >>],
         [type |-> "param_set", param |-> << "n" >>, str |-> << Lit(<< "w" >>) >>],
         [type |-> "param_set", param |-> << "x" >>, str |-> << Acc("port"), Acc("odd") >>],
         [type |-> "hdr_set", name |-> "Host", str |-> << AccHeader("Host"), Acc("host") >>],
         [type |-> "hdr_set", name |-> Null, str |-> << >>],
         [type |-> "hdr_del", pat |-> Re(<< "X-Forwarded-For" >>)],
         [type |-> "rule", rule |-> << [cond |-> L(6), ops |-> << [type |-> "url_set", str |-> << Bad >>] >>],
                                       [cond |-> L(5), ops |-> << [type |-> "path_set",
                                            str |-> << Lit(<< "/" >>), Ref(0, 0), Ref(0, 5) >>] >>],
                                       [cond |-> Always, ops |-> << [type |-> "param_set", param |-> << "m" >>,
                                            str |-> << Acc("url") >>] >>] >>] }

LastOps == {o \in Ops : o.type \in {"path_set", "query_set"}}

Conns == {[NoConn EXCEPT !.forwarded = TRUE, !.proto = "https", !.sslheaders = TRUE,
                         !.cipher = "c", !.x509 = x, !.family = f, !.servername = s] :
            x \in {Null, "cert"}, f \in {"inet", "unix"}, s \in {Null, "be"}}

RewriteInit ==
    \/ \E u \in MCUrls, h \in MCHeaders, o1 \in Ops, o2 \in Ops, o3 \in LastOps :
          Start([Case0 EXCEPT !.url = u, !.headers = h,
                              !.lstn = << Service(L(1), FALSE, << Rule(<< o3 >>) >>) >>,
                              !.rules = << Rule(<< o1, o2 >>) >>])
    \/ \E c \in Conns, h \in MCHeaders : Start([Case0 EXCEPT !.conn = c, !.headers = h])

\* Bodies: lines and parts of lines, three and an end.
Lines == { << "0" >>, << "1" >>, << "2" >>, << "1", ";" >>, << "x" >>, << >>,
           << "CR", "x" >>, << "f" >>, << "1", "1", "1" >> }
Pieces == {l \o EOL : l \in Lines}
          \cup { << "LF" >>, << "CR" >>, << "1" >>, << "CTL", "LF" >>,
                 << "x", "CR", "LF", "0", "CR", "LF" >> }
Ends == {<< >>, EOL, << "0" >> \o EOL}
MCBodies == {a \o b \o c \o d : a \in Pieces, b \in Pieces, c \in Pieces, d \in Ends}
MCLimits == {0, 1}
BodyInit == Start([Case0 EXCEPT !.chunked = TRUE])

\* Responses.  The name n is not in DNS; the listener also has the name o.
MCAddresses == [n \in {<< "h" >>, << "b" >>, << "o" >>, << "x" >>} |->
                  CASE n = << "b" >> -> {[family |-> "inet6", ip |-> 2], [family |-> "inet", ip |-> 2]}
                    [] n = << "x" >> -> {[family |-> "inet", ip |-> 3]}
                    [] OTHER -> {[family |-> "inet", ip |-> 1]}]
MCPorts == << "8" >> :> 8 @@ << "p" >> :> 9
Places == { << "http", "://", "b", ":", "8", "/", "a" >>, << "https", "://", "b", ":", "8" >>,
            << "http", "://", "b", "/" >>, << "http", "://", "h", ":", "p", "/", "a" >>,
            << "https", "://", "o", "/", "a" >>, << "https", "://", "x", "/", "/", "b" >>,
            << "http", "://", "n", "/", "a" >>, << "http", "://", "h", ":", "z" >>,
            << "/", "a" >>, << "/", "?", "http", "://", "b", ":", "8", "/", "a" >> }
RespRules == { << [cond |-> [type |-> "hdr", re |-> Re(<< "Location" >>)],
                   ops |-> << [type |-> "hdr_set", name |-> "X", str |-> << Acc("path"), Ref(1, 0) >>] >>] >>,
               << [cond |-> Not([type |-> "hdr", re |-> Re(<< "X" >>)]),
                   ops |-> << [type |-> "hdr_del", pat |-> Re(<< "Location" >>)],
                              [type |-> "hdr_set", name |-> "X", str |-> << Bad >>] >>] >> }
LocationInit ==
    \/ \E v \in Places, n \in 0 .. 2, p \in {"http", "https"}, f \in {"inet", "inet6", "unix"},
          s \in {Null, "n"}, x \in BOOLEAN, h \in MCHeaders :
          Start([Case0 EXCEPT !.headers = h,
                    !.conn = [NoConn EXCEPT !.rewr_loc = n, !.proto = p, !.servername = s,
                                            !.be.family = f, !.be.ctx = x],
                    !.response = << << "Location", v >>,
                                    << "Content-location", << "http", "://", "b", ":", "8" >> >> >>])
    \/ \E r \in RespRules, v \in Places :
          Start([Case0 EXCEPT !.response = << << "Location", v >> >>, !.resprules = << r >>])
    \/ \E v \in Places, d \in BOOLEAN :
          Start([Case0 EXCEPT !.headers = << << "Destination", v >> >>, !.conn.rewr_dest = d])

MCInit == MatchInit \/ RewriteInit \/ BodyInit \/ LocationInit

MCSpec == MCInit /\ [][Next]_pvars
=============================================================================
