---------------------------- MODULE MCDashboard -----------------------------
EXTENDS Dashboard

\* Two connections, with the two problems that the cleanup dialog tells apart.
DashRows == (1 :> "limited") @@ (2 :> "expired")

\* From the top of a list to where three full groups are passed.
DashTops == {15 * k : k \in 0..48}
=============================================================================
