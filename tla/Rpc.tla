--------------------------------- MODULE Rpc ---------------------------------
(***************************************************************************)
(* What the transport promises to the rest of the adapter: a request/      *)
(* response channel with one request outstanding at a time.  Requests are  *)
(* issued under consecutive identities that are never reused; each one     *)
(* ends exactly once; and it ends well only with the answer the server     *)
(* gave to that very request.                                              *)
(***************************************************************************)
EXTENDS Naturals

CONSTANT Requests     \* the request identities, 1..N

VARIABLES
  status,   \* unused, pending, ok or failed, for each request
  served    \* the requests the server has answered

rpcVars == <<status, served>>

Init ==
  /\ status = [i \in Requests |-> "unused"]
  /\ served = {}

Issue(i) ==
  /\ status[i] = "unused"
  /\ \A j \in Requests : /\ status[j] # "pending"
                         /\ j < i => status[j] # "unused"
  /\ status' = [status EXCEPT ![i] = "pending"]
  /\ UNCHANGED served

\* The server may answer late: after the caller has given up.
Serve(i) ==
  /\ status[i] # "unused"
  /\ served' = served \cup {i}
  /\ UNCHANGED status

Succeed(i) ==
  /\ status[i] = "pending" /\ i \in served
  /\ status' = [status EXCEPT ![i] = "ok"]
  /\ UNCHANGED served

\* A timeout, a broken pipe, or the end of the server's output.
Fail(i) ==
  /\ status[i] = "pending"
  /\ status' = [status EXCEPT ![i] = "failed"]
  /\ UNCHANGED served

Next == \E i \in Requests : Issue(i) \/ Serve(i) \/ Succeed(i) \/ Fail(i)

Spec == Init /\ [][Next]_rpcVars
=============================================================================
