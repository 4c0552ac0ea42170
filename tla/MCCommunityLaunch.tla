-------------------------- MODULE MCCommunityLaunch --------------------------
(* Small instances of CommunityLaunch for TLC. *)
EXTENDS CommunityLaunch

CONSTANTS u1, d1, i1, s1, s2, MaxTrades

MCDefaults == [subFee |-> 1, budget |-> 1, curveFee |-> 2, gradFee |-> 1,
               migFee |-> 1, depth |-> 2, virtual |-> 4]

\* One coin, the parameters left alone.
OneCoin == /\ params = Defaults /\ config.admin = u1 /\ ~config.paused
           /\ config.dex \in {None, d1} /\ count <= 1 /\ books.ttc <= MaxTrades
           /\ xel <= books.tcx + books.pfe
           /\ \A i \in Ids : Launched(i) =>
                /\ coin[i].creator = u1 /\ coin[i].info = i1
                /\ tok[i] <= coin[i].yr + CreatorRemaining(coin[i])
=============================================================================
