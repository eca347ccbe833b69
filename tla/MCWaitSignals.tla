---------------------------- MODULE MCWaitSignals ----------------------------
(***************************************************************************)
(* WaitSignals on a small instance: two signals, of one sender or two, that *)
(* succeed, fail or are malformed, and two conditions on the handle.       *)
(***************************************************************************)
EXTENDS WaitSignals

CONSTANTS p1, p2, a, b, w1, w2

TwoPosts  == {p1, p2}
TwoIds    == {a, b}
AnyStatus == WAIT_STATUSES \cup {"ODD"}
TwoConds  == {w1, w2}
=============================================================================
