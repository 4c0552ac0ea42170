---------------------------- MODULE MCVaultLaunch ----------------------------
(* Small instances of VaultLaunch for TLC. *)
EXTENDS VaultLaunch, TLC

CONSTANTS u1, u2, u3, s1, s2, d1, MaxTrades

MCLow == [[f \in Names |-> 0] EXCEPT
            !.minLiq = 1, !.direct = 2, !.minPart = 1, !.approval = 3, !.duration = 1,
            !.mult = 2, !.delay = 1, !.vestMin = 1, !.vestMax = 1,
            !.recPart = 1, !.recRatio = 3]
MCHigh == [[f \in Names |-> 3] EXCEPT
            !.minLiq = 4, !.direct = 8, !.minPart = 3, !.tradeFee = 2, !.gradFee = 2,
            !.migFee = 2, !.approval = 5, !.recRatio = 5]

\* One vote decides, two reports of three distrust, recovery of a graduate
\* takes two voters; a buy grows the seed of 2 to the threshold of 4.
MCDefaults == [subFee |-> 1, budget |-> 1, minLiq |-> 2, tradeFee |-> 1,
               gradFee |-> 0, migFee |-> 1, direct |-> 4, minPart |-> 1,
               approval |-> 3, duration |-> 1, mult |-> 2, delay |-> 1,
               vestMin |-> 1, vestMax |-> 2, recFee |-> 1, recPart |-> 2,
               recRatio |-> 4, voteDep |-> 1]

\* A parameter is moved to its cap, two of them past it; direct listing goes down.
MCEdges == [f \in Names |->
              {IF f = "direct" THEN MCLow[f] ELSE MCHigh[f]}
                \cup {n \in {MCHigh[f] + 1} : f \in {"migFee", "vestMin"}}]

\* The DEX's sides: a seed and a swap of 1 to 6 units.
MCOnes == [s \in {"x", "y"} |-> 1]
MCSixes == [s \in {"x", "y"} |-> 6]
MCDefaultBounds == [minSeed |-> MCOnes, minSwap |-> MCOnes, maxSwap |-> MCSixes]
=============================================================================
