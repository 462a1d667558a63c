---------------------------- MODULE MCAgentLoop ----------------------------
(* The requests of the TLC instances of AgentLoop, named after their kinds. *)
EXTENDS AgentLoop

CONSTANTS p1, p2, p3, s1, i1, m1, h1, c1, l1

KindOf ==
  [r \in Req |->
     CASE r \in {p1, p2, p3} -> "prompt"
       [] r = s1 -> "steer"
       [] r = i1 -> "inject"
       [] r = m1 -> "message"
       [] r = h1 -> "stop_hook"
       [] r = c1 -> "continuation"
       [] r = l1 -> "landing"]
=============================================================================
