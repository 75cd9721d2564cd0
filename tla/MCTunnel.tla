----------------------------- MODULE MCTunnel -----------------------------
(* Small instances of Tunnel for TLC. *)
EXTENDS Tunnel, TLC

CONSTANTS u1, u2    \* two URLs

MCTunnelUrls == {u1, u2}
============================================================================
