------------------------ MODULE MCLimiterClients ---------------------------
(* Instances of LimiterClients for TLC.                                    *)
EXTENDS LimiterClients, TLC

\* The limiter does not tell its callers apart.
Workers == Permutations(Client)

=============================================================================
