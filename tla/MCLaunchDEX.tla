----------------------------- MODULE MCLaunchDEX -----------------------------
(* Small instances of LaunchDEX for TLC. *)
EXTENDS LaunchDEX, TLC

CONSTANTS u1, u2, t1, t2, MaxXel, MaxTokens, MaxTrades

MCSupply == [c \in Coins |-> IF c = XEL THEN MaxXel ELSE MaxTokens]
MCPerSide == [s \in Side |-> 8]
MCOnes == [s \in Side |-> 1]
MCBounds(min, max) == [minSeed |-> [x |-> 2, y |-> 2], minSwap |-> [s \in Side |-> min],
                       maxSwap |-> [s \in Side |-> max]]
MCDefaultBounds == MCBounds(1, 4)
MCFloorBounds == [MCDefaultBounds EXCEPT !.minSeed = [s \in Side |-> 4]]
MCBoundsArgs == {MCDefaultBounds, MCBounds(2, 3)}

\* One pool and two wallets, the parameters left alone.
OnePool == /\ config.admin = u1 /\ config.lpx \in {None, u1} /\ ~config.paused
           /\ ~Live(t2) /\ bal[t2] = 0 /\ bal[t1] <= Held(t1, "y")
           /\ bal[XEL] <= Held(t1, "x") /\ score[t1].tc <= MaxTrades
           /\ Live(t1) => ~pool[t1].bp
=============================================================================
