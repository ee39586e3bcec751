--------------------------- MODULE MCMessageQueue ---------------------------
(* MessageQueue with two workers on one channel: two regular messages, a   *)
(* bulk one without recipient, a malformed one.                            *)
EXTENDS MessageQueue
CONSTANTS m1, m2, m3, m4, c1, w1, w2, none

MCMessages == {m1, m2, m3, m4}
MCChannels == {c1}
MCChannelOf == [m \in MCMessages |-> c1]
MCBulk == {m3}
MCNoRecipient == {m3}
MCMalformed == {m4}
MCWorkers == {w1, w2}
=============================================================================
