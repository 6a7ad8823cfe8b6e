------------------------------- MODULE MCProxy -------------------------------
(* Proxy for TLC: two calls, a ping, a request the proxy answers itself and *)
(* a notification.                                                           *)
EXTENDS Proxy

=============================================================================
