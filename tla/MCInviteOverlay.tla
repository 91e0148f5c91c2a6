-------------------------- MODULE MCInviteOverlay --------------------------
(* Instances of InviteOverlay for TLC: two follows, of which the second may  *)
(* replace the first or be given its row, or an invitation of another kind;  *)
(* every second failed poll logs in again.                                   *)
EXTENDS InviteOverlay

TwoFollowsOrOneOther == {<<Follow, Follow>>, <<Private>>, <<Lobby>>, <<Restore>>}
=============================================================================
