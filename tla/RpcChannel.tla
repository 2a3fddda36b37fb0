----------------------------- MODULE RpcChannel -----------------------------
(***************************************************************************)
(* What Rpc promises one client, Peer: its calls are OrderedCalls.         *)
(***************************************************************************)
EXTENDS Rpc

CONSTANT Peer  \* a client

ASSUME PeerAssumption == Peer \in Clients

(* The requests of c that are on the way to the daemon. *)
Sent(c) == {up[c][k].id : k \in {j \in DOMAIN up[c] : up[c][j] \in Requests}}

Calls ==
  INSTANCE OrderedCalls WITH
    Ids      <- Ids,
    Outcomes <- Outcomes,
    made     <- seq[Peer],
    waiting  <- Sent(Peer),
    handling <- current[Peer].id,
    ended    <- done[Peer],
    told     <- answer[Peer]

(* The daemon and the client implement the ordered calls over one socket:  *)
(* whatever the deadlines, the torn lines, the answers that come too late  *)
(* and the shutdown do, no request is handled twice, before an earlier one *)
(* or during another one, and no call returns the answer of another        *)
(* (rpc.go:99, 299).                                                       *)
PeerIsServed == Calls!Spec

=============================================================================
