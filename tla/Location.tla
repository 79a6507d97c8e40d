------------------------------- MODULE Location -------------------------------
(***************************************************************************)
(* Headers that name a place: Destination in requests, Location and        *)
(* Content-location in responses (http.c, svc.c).  A request that names    *)
(* the listener has to name the backend when it gets there, and a response *)
(* that names the backend has to name the listener.                        *)
(*                                                                         *)
(* The text of a place is a scheme, the word "://", a name with or without *)
(* a colon and a port, and the path from the first slash on.               *)
(***************************************************************************)
EXTENDS Rules

CONSTANTS Addresses,   \* the [family, ip] that a host name resolves to
          Ports        \* the numbers that texts of ports stand for

Least(S) == CHOOSE i \in S : \A l \in S : i <= l

\* The regular expression of the same name, which is not anchored: the first
\* URL in the text and where it begins, Null if there is none.
LOCATION(v) ==
    LET at == {i \in 1 .. Len(v) - 2 : /\ v[i] \in {"http", "https"}
                                       /\ v[i + 1] = "://" /\ v[i + 2] # "/"}
        Split(i, end) == [at |-> i, proto |-> v[i], host |-> SubSeq(v, i + 2, end - 1),
                          path |-> SubSeq(v, end, Len(v))]
        End(i) == Least({l \in i + 3 .. Len(v) : v[l] = "/"} \cup {Len(v) + 1})
    IN  IF at = {} THEN Null ELSE Split(Least(at), End(Least(at)))

\* A host without its port.
HostName(h) == IF Colon(h) = {} THEN h ELSE SubSeq(h, 1, FirstColon(h) - 1)

atoi(s) == IF s \in DOMAIN Ports THEN Ports[s] ELSE 0

PlacePort(m) ==
    CASE Colon(m.host) # {} ->
            atoi(SubSeq(m.host, FirstColon(m.host) + 1, Len(m.host)))
      [] Colon(m.host) = {} /\ m.proto = "https" -> 443
      [] OTHER -> 80

\* The addresses of a name, none if it cannot be resolved.
getaddrinfo(name) == IF name \in DOMAIN Addresses THEN Addresses[name] ELSE {}

AnyPort(addr, port, be) == [family |-> be.family, ip |-> be.ip] \in addr  \* mutant

is_backend_address(addr, port, be) ==
    \E a \in addr : a = [family |-> be.family, ip |-> be.ip] /\ port = be.port

\* Only addresses of another family are compared.
is_listener_address(addr, conn) ==
    \E a \in addr : a.family # conn.lfamily /\ a = [family |-> conn.lfamily, ip |-> conn.lip]

\* The family is looked for in the pointer to the address instead of the
\* address; a pointer is a multiple of 8 and no family is.
listener_port == 0

\* Does a response from the backend name a place that the client must not see?
need_rewrite(m, v_host, conn) ==
    LET name == HostName(m.host)
        addr == getaddrinfo(name)
        ofbackend ==
            IF addr # {} THEN is_backend_address(addr, PlacePort(m), conn.be)
            ELSE /\ conn.servername # Null
                 /\ name = << conn.servername >>
                 /\ m.proto = IF conn.be.ctx THEN "https" ELSE "http"
    IN  /\ conn.rewr_loc # 0
        /\ conn.be.family \in {"inet", "inet6"}
        /\ m # Null
        /\ \/ ofbackend
           \/ /\ conn.rewr_loc = 1
              /\ \/ is_listener_address(addr, conn)
                 \/ name = HostName(v_host)
                 \/ PlacePort(m) # listener_port
                 \/ m.proto # conn.proto

http_request_host(r) == HeaderAccess(r, "Host").val

\* The path without its first slash, written after a slash.
Moved(proto, host, path) ==
    << proto, "://" >> \o host \o << "/" >> \o (IF path = << >> THEN path ELSE Tail(path))

\* The loop over the headers of a response, as far as it changes them.
RewriteLocations(hs, v_host, conn) ==
    LET Changed(h) ==
          LET m == LOCATION(http_header_get_value(h))
          IN  IF /\ h.name \in {"Location", "Content-location"}
                 /\ v_host \notin {Null, << >>}
                 /\ need_rewrite(m, v_host, conn)
              THEN http_header_change(h, h.name, Moved(conn.proto, v_host, m.path))
              ELSE h
    IN  [i \in DOMAIN hs |-> Changed(hs[i])]

\* str_be: address and port of the backend.
str_be(be) == IF be.family = "unix" THEN << be.ip >> ELSE << be.ip, ":", be.portname >>

\* The first Destination header of a request, moved to the backend.
RewriteDestination(hs, conn) ==
    LET k == http_header_list_locate_name(hs, "Destination")
        m == LOCATION(http_header_get_value(hs[k]))
    IN  IF ~conn.rewr_dest \/ k = 0 \/ m = Null THEN hs
        ELSE [hs EXCEPT ![k] = http_header_change(@, "Destination",
                << IF conn.be.ctx THEN "https" ELSE "http", "://" >>
                \o str_be(conn.be) \o m.path)]
=============================================================================
