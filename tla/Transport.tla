----------------------------- MODULE Transport ------------------------------
(***************************************************************************)
(* What titanload makes of one exchange with a target: the requesters'     *)
(* Do for HTTP and gRPC, and Classify, which names an error.               *)
(*                                                                         *)
(* An exchange is a record: proto is http or grpc; answer says how much of *)
(* a response came (none, cut, full); status is the HTTP status in it and  *)
(* serving the health in it; code is the gRPC code of the error, is the    *)
(* set of what errors.Is and errors.As find in it, and why what really     *)
(* went wrong.                                                             *)
(* The op of a net.OpError and the codes that get no kind of their own are *)
(* left out of the names of the kinds.                                     *)
(***************************************************************************)
EXTENDS Naturals, FiniteSetsExt

\* The kinds Classify looks for, in its order.
Order ==
  <<"timeout", "conn_refused", "conn_reset", "no_ephemeral_ports",
    "too_many_open_files", "eof", "dns", "tls", "net">>

\* Any net.OpError first.
ClassifyNetFirst(x) ==
  IF "net" \in x.is THEN "net"
  ELSE IF x.code = "DeadlineExceeded" THEN "timeout"
  ELSE LET found == {i \in DOMAIN Order : Order[i] \in x.is}
       IN IF found = {} THEN "other" ELSE Order[Min(found)]

\* A gRPC code, unless it is Unknown, else the first kind that is found.
Classify(x) ==
  IF x.code \notin {"none", "Unknown"}
  THEN CASE x.code = "DeadlineExceeded"  -> "timeout"
         [] x.code = "Unavailable"       -> "unavailable"
         [] x.code = "ResourceExhausted" -> "resource_exhausted"
         [] OTHER                        -> "grpc"
  ELSE LET found == {i \in DOMAIN Order : Order[i] \in x.is}
       IN IF found = {} THEN "other" ELSE Order[Min(found)]

Kinds == {Order[i] : i \in DOMAIN Order}
           \cup {"unavailable", "resource_exhausted", "grpc", "other"}

Exchanges ==
  [proto : {"http", "grpc"}, answer : {"none", "cut", "full"}, status : Nat,
   serving : BOOLEAN, code : STRING, is : SUBSET {Order[i] : i \in DOMAIN Order},
   why : Kinds \cup {""}]

\* How errors look: a gRPC code says what went wrong; any other error wraps what
\* went wrong, alone or in a net.OpError, or nothing Classify knows.
Honest(x) ==
  IF x.code \in {"none", "Unknown"}
  THEN x.is \in {{x.why}, {x.why, "net"}} \/ (x.is = {} /\ x.why = "other")
  ELSE x.why = CASE x.code = "DeadlineExceeded"  -> "timeout"
                 [] x.code = "Unavailable"       -> "unavailable"
                 [] x.code = "ResourceExhausted" -> "resource_exhausted"
                 [] OTHER                        -> "grpc"

\* httpRequester.Do: without a response there is no status; a response whose
\* body is cut has both a status and an error.
HttpDo(x) ==
  [status |-> IF x.answer = "none" THEN 0 ELSE x.status, err |-> x.answer # "full"]

\* grpcRequester.Do: an answer other than SERVING counts as 503.
GrpcDo(x) ==
  [status |-> IF x.answer # "full" THEN 0 ELSE IF x.serving THEN 200 ELSE 503,
   err |-> x.answer # "full"]

Do(x) == IF x.proto = "grpc" THEN GrpcDo(x) ELSE HttpDo(x)

\* The error kind that worker records, empty without an error.
ErrKind(x) == IF Do(x).err THEN Classify(x) ELSE ""
=============================================================================
