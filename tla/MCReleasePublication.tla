---------------------- MODULE MCReleasePublication ----------------------
(***************************************************************************)
(* The instances TLC checks, and what the repository's documents and tests *)
(* say that the code does not keep.                                        *)
(***************************************************************************)
EXTENDS ReleasePublication

RC(n) == [ga |-> FALSE, n |-> n]
GA(n) == [ga |-> TRUE, n |-> n]

(* One line between its first release candidate and its first patch.       *)
OneLine == {1}
LineVersions == {RC(1), RC(2), GA(0)}
AfterRC1 == [l \in OneLine |-> {RC(1)}]

(* A patch of an old line and the first final release of a new one.        *)
TwoLines == {1, 2}
PatchAndFinal == {RC(1), GA(0), GA(1)}
OldAndNew == [l \in TwoLines |-> IF l = 1 THEN {RC(1), GA(0)} ELSE {RC(1)}]

(* The release shown as the latest is the highest final release
   (test_make_latest_uses_numeric_ga_release_order).                       *)
LatestIsHighest ==
  latest # None => \A r \in Finals(releases) : ~Higher(r, latest.line, latest.version)

(* "Once the notes PR has merged, and the merge commit is still the latest
   commit on the release branch, it starts Publish Release for that exact
   commit" (docs/release-automation.md).                                   *)
MergedHead(l, v) ==
  /\ issue[l][v] = "open"
  /\ [sha |-> branch[l].head, version |-> v] \in branch[l].merges

MergedHeadIsPublished ==
  \A l \in Lines, v \in Versions :
    <>[]MergedHead(l, v) => <>(\E i \in DOMAIN runs : runs[i].cand = branch[l].head)
=============================================================================
