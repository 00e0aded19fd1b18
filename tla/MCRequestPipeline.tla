------------------------- MODULE MCRequestPipeline -------------------------
(* An instance of RequestPipeline for TLC.                                  *)
EXTENDS RequestPipeline

CONSTANTS u1, s1, s2, r1, r2

OneUser == {u1}
TwoSessions == {s1, s2}
\* Writers and readers of one user, of its tenant, of the list; a deletion;
\* editors; two sessions of one browser.
SomeWorkloads ==
  [ops : {{"get", "put"}, {"get", "tenant"}, {"get", "post"}, {"get", "delete"}, {"edit"}}, ids : {{s1}}]
  \cup [ops : {{"refresh", "logout"}}, ids : {{s1, s2}}]
TwoRequests == {r1, r2}
=============================================================================
