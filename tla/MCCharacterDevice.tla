------------------------ MODULE MCCharacterDevice ------------------------
(* Small instances of CharacterDevice for TLC. *)
EXTENDS CharacterDevice, TLC

TimedReads == TimedOps
SoleOps    == AllOps \ {"flush"}

\* No timeout, one that is over at once, and one longer than a second; for poll,
\* 4 is negative and 8 is zero as a three-bit int.
PollTimeouts == {-1, 0, 3, 4, 8}

\* One timeout that can be waited for.
OneTimeout == {1}
=============================================================================
