------------------------------ MODULE MCLlmClient ------------------------------
(* Instances of LlmClient for TLC: two clients and one limiter, as in the  *)
(* benchmark; what a scan job has is the part of it with one client.       *)
EXTENDS LlmClient, TLC

CONSTANTS c1, c2, p, l

OneLimiter == c1 :> l @@ c2 :> l

\* The second turn, whose prompt is longer, asks for more than the limit; the
\* bill of the first may be more than the estimate, which counts three characters
\* as a token.
LowEstimates == p :> <<1, 4>>

Estimates == p :> <<2, 4>>

=============================================================================
