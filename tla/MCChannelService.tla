-------------------------- MODULE MCChannelService --------------------------
(* Instances of ChannelService.                                            *)
EXTENDS ChannelService

MCRequests == 1..3

(* Requests differ in nothing but their number, so one order of their      *)
(* operations stands for all.                                              *)
Rank(kind) ==
  CHOOSE n \in 1..8 :
    <<"create", "start", "stop", "logout", "delete", "update", "merge", "reset">>[n] = kind
Sorted == \A r, s \in Requests : r < s => Rank(job[r].kind) <= Rank(job[s].kind)

MCInit == Init /\ Sorted
MCSpec == MCInit /\ [][Next]_vars /\ Fairness
=============================================================================
