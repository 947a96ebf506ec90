--------------------------- MODULE MCAgentService ---------------------------
(* Instances of the run service small enough for TLC. *)
EXTENDS AgentServiceProperties, TLC

CONSTANTS s1, s2, w1, w2, t1, t2, r1, r2, b1, b2

\* Two threads of one process, or one thread in each of two processes.
OneProcess   == (w1 :> s1) @@ (w2 :> s1)
TwoProcesses == (w1 :> s1) @@ (w2 :> s2)

\* Runs, tools and the threads of one process are interchangeable.
RunSymmetry    == Permutations({r1, r2}) \cup Permutations({w1, w2})
ThreadSymmetry == Permutations({t1, t2}) \cup Permutations({w1, w2})
=============================================================================
