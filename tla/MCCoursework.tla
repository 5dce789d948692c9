---------------------------- MODULE MCCoursework ----------------------------
(* Small instances of Coursework for TLC. *)
EXTENDS Coursework, TLC

CONSTANTS tab1, tab2, s1, s2, s3, f1, f2, t1

Tabs == {tab1, tab2}
ThreeSessions == {s1, s2, s3}
TwoWorks == {f1, f2}
OneText == {t1}

OnlyTeaching == {"publish", "unpublish"}

Ids == Permutations(Request) \cup Permutations(Session) \cup Permutations(Work)
=============================================================================
