-------------------------- MODULE MCNotifications --------------------------
(* An instance of Notifications for TLC: two users, two sockets; a list that *)
(* is shorter than the number of notifications.                             *)
EXTENDS Notifications

CONSTANTS u1, u2, s1, s2, r1

TwoUsers == {u1, u2}
TwoSockets == {s1, s2}
OneRequest == {r1}

\* To two users; to nobody and then to one user.
SomeLetters == {<<{u1, u2}>>, <<{}, {u1}>>}
=============================================================================
