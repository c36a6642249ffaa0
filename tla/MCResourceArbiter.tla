------------------------- MODULE MCResourceArbiter -------------------------
EXTENDS ResourceArbiter, TLC

CONSTANTS a1, a2, r1, r2, c1, c2, none

TwoAgents == {a1, a2}
TwoResources == {r1, r2}
TwoCalls == {c1, c2}
OneEach == c1 :> a1 @@ c2 :> a2
AllModes == {"Shared", "Exclusive"}
Timed == {TRUE}
=============================================================================
