---------------------------- MODULE MCShardStats ----------------------------
(***************************************************************************)
(* One goroutine with a live tick of the dashboard, or two without; a      *)
(* timeout comes as an HTTP body that is cut and as a gRPC code.           *)
(***************************************************************************)
EXTENDS ShardStats

Http(answer, status, is, why) ==
  [proto |-> "http", answer |-> answer, status |-> status, serving |-> FALSE,
   code |-> "none", is |-> is, why |-> why]
Grpc(answer, serving, code, why) ==
  [proto |-> "grpc", answer |-> answer, status |-> 0, serving |-> serving,
   code |-> code, is |-> {}, why |-> why]

Ok == Http("full", 200, {}, "")
Busy == Http("full", 503, {}, "")
Cut == Http("cut", 200, {"timeout", "net"}, "timeout")
Refused == Http("none", 0, {"conn_refused", "net"}, "conn_refused")
Late == Grpc("none", FALSE, "DeadlineExceeded", "timeout")
Down == Grpc("full", FALSE, "none", "")

MCRequests ==
  {[us |-> r[1], x |-> r[2]] :
     r \in {<<0, Ok>>, <<3, Ok>>, <<9, Ok>>, <<3, Busy>>, <<9, Cut>>, <<0, Refused>>,
            <<9, Late>>, <<0, Down>>}}

MCSLOs == [p95 : {0, 2}, p99 : {0, 4, 8}, errPct : {0, 50}, minRPS : {0, 1}]

MCTicks == <<1, 0>>

MCBounds == [i \in 0..3 |-> 2^i]
=============================================================================
