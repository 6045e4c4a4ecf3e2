--------------------------- MODULE MCAutoSubmission ---------------------------
(***************************************************************************)
(* Small instances of AutoSubmission for TLC.                              *)
(***************************************************************************)
EXTENDS AutoSubmission, TLC

CONSTANTS t1, t2, t3, x, y, z, a, b, p, q, j1, j2, j3, i1, i2, i3

\* Two candidates for x; y comes with the second one only.
MCRanked == (x :> <<a, b>>) @@ (y :> <<b>>)

\* And a third content with both.
MCRankedThree == MCRanked @@ (z :> <<a, b>>)

\* No files: what a download writes plays no part in its submission.
MCOwner == << >>

\* Bound: no deadline passes; attention is reached through CloudDrive2's answers.
BeforeDeadlines == overdue = {}

\* Bound: the poller does not come round.
BeforePolls == BeforeDeadlines /\ queue = {}

Only(contents) ==
  /\ \A t \in DOMAIN rows : rows[t].claim.content \in contents
  /\ \A i \in DOMAIN items : items[i].content \in contents

\* Bound: an offline task fails at once, or stays where it begins.
BeforeProgress == \A d \in Destinations : offline[d] # "downloading"

\* A run submits one content, while a user acts and the poller runs.
OneContent ==
  /\ BeforeDeadlines /\ BeforeProgress /\ Only({z})
  /\ Cardinality(DOMAIN rows) <= 2 /\ Cardinality(DOMAIN items) <= 1
  /\ work[j2] = Resting

\* Two runs submit the contents that share a candidate, without a user.
SharedContents == BeforePolls /\ Only({x, y}) /\ job[j3] = Idle

\* Bound: the one or the other.
OneOrShared == OneContent \/ SharedContents

\* Ids are interchangeable.
Symmetry == Permutations(Tasks) \union Permutations(Items)
==============================================================================
