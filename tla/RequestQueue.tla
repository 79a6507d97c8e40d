---------------------------- MODULE RequestQueue ----------------------------
(***************************************************************************)
(* What the worker pool promises to the dispatcher and to the clients:     *)
(* accepted connections are served in the order of arrival, at most Limit  *)
(* at a time, and each of them is served as long as the server is open.    *)
(***************************************************************************)
EXTENDS Naturals, Sequences, FiniteSets

CONSTANTS Requests, Limit

VARIABLES queue,       \* accepted connections, oldest first
          serving,     \* connections that are being served
          open         \* the server runs

rqVars == <<queue, serving, open>>

RQInit == queue = <<>> /\ serving = {} /\ open = TRUE

Accept(r) ==
  /\ open /\ r \notin serving /\ \A i \in DOMAIN queue : queue[i] # r
  /\ queue' = Append(queue, r)
  /\ UNCHANGED <<serving, open>>

Begin ==
  /\ open /\ queue # <<>> /\ Cardinality(serving) < Limit
  /\ serving' = serving \cup {Head(queue)}
  /\ queue' = Tail(queue)
  /\ UNCHANGED open

Finish(r) ==
  /\ open /\ r \in serving
  /\ serving' = serving \ {r}
  /\ UNCHANGED <<queue, open>>

Close == open /\ open' = FALSE /\ UNCHANGED <<queue, serving>>

RQNext == Begin \/ Close \/ \E r \in Requests : Accept(r) \/ Finish(r)

RQSafe == RQInit /\ [][RQNext]_rqVars

RQSpec == RQSafe /\ WF_rqVars(Begin) /\ \A r \in Requests : WF_rqVars(Finish(r))
=============================================================================
