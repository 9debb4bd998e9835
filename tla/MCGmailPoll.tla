---------------------------- MODULE MCGmailPoll ----------------------------
(* Small instances of GmailPoll for TLC. *)
EXTENDS GmailPoll

CONSTANTS p1, p2, w1

\* A message with an attachment, a body without.
TwoMessages == <<<<"body1", "attachment1">>, <<"body2">>>>
\* The API may list them to each poll in either order.
EitherOrder == [p \in Polls |-> {<<1, 2>>, <<2, 1>>}]

OneBody == <<<<"body1">>>>
TheMessage == [p \in Polls |-> {<<1>>}]
=============================================================================
