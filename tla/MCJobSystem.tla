---------------------------- MODULE MCJobSystem ----------------------------
(* Instances of JobSystem for TLC.                                         *)
EXTENDS JobSystem, TLC

CONSTANTS j1, j2, j3, j4

(* The affinities of job_meta.h.                                           *)
Anywhere   == [hint |-> 0, stealable |-> TRUE, balance |-> TRUE]
AnyWorker  == [hint |-> 1, stealable |-> FALSE, balance |-> TRUE]
OnThread(h) == [hint |-> h, stealable |-> FALSE, balance |-> FALSE]

Edges(E) == [p \in Jobs |-> {k \in Jobs : <<p, k>> \in E}]

Diamond  == Edges({<<j1, j2>>, <<j1, j3>>, <<j2, j4>>, <<j3, j4>>})
Couple   == Edges({<<j1, j2>>})
Lonely   == Edges({})

OnlyDiamond  == {Diamond}
OnlyLonely   == {Lonely}
OnlyCouple   == {Couple}

(* Jobs that hop between threads: j1 runs on worker 1, j2 on the main      *)
(* thread, j3 anywhere, anything else on some worker.                      *)
Pinned ==
    [j \in Jobs |-> CASE j = j1 -> OnThread(1)
                      [] j = j2 -> OnThread(0)
                      [] j = j3 -> Anywhere
                      [] OTHER  -> AnyWorker]
AllAnywhere == [j \in Jobs |-> Anywhere]
SwapMiddle  == Permutations({j2, j3})
None == {}

(* The clients of the runs are careful ones.                               *)
ASSUME ClientAssumption == CarefulClient
=============================================================================
