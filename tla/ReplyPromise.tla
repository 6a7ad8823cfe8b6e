---------------------------- MODULE ReplyPromise ----------------------------
(***************************************************************************)
(* What an MCP host may rely on, whoever serves it: a request it has       *)
(* written gets one reply, a message that is no request gets none.         *)
(***************************************************************************)
EXTENDS Naturals

CONSTANTS Messages, Requests

VARIABLES
  asked,     \* messages the host has written
  replies    \* replies it has got to each

vars == <<asked, replies>>

Init == asked = {} /\ replies = [m \in Messages |-> 0]

Ask(m) == asked' = asked \cup {m}

(* A reply may come in the very step that takes the message in. *)
Reply(m) == /\ m \in asked' \cap Requests /\ replies[m] = 0
            /\ replies'[m] = 1

Next == /\ \/ UNCHANGED asked
           \/ \E m \in Messages : Ask(m)
        /\ replies' \in [Messages -> 0..1]
        /\ \A m \in Messages : replies'[m] = replies[m] \/ Reply(m)

Spec == Init /\ [][Next]_vars
=============================================================================
