------------------------------ MODULE MCUpdater ------------------------------
(* Constants for the runs of Updater. *)
EXTENDS Updater

CONSTANTS r1

Word(rank) == [num |-> FALSE, val |-> rank]

Version(major, minor, pre) ==
    [kind |-> "semver", major |-> major, minor |-> minor, patch |-> 0, pre |-> pre]

V10 == Version(1, 0, << >>)
V101 == [V10 EXCEPT !.patch = 1]
V11 == Version(1, 1, << >>)
V2rc == Version(2, 0, <<Word(3)>>)
V20 == Version(2, 0, << >>)

Release(tag) == [tag |-> tag, pre |-> tag.pre # << >>]

(* v1.1.0, v2.0.0-rc and v2.0.0 *)
ThreeReleases == {Release(V11), Release(V2rc), Release(V20)}
TwoReleases   == {Release(V11), Release(V20)}
BackportFirst == {Release(V101), Release(V20)}
TwoChannels   == {Release(V11), Release(V2rc)}

OneRequest == {r1}
NoRequest  == {}
BothChannels    == {"stable", "candidate"}
CandidateOnly   == {"candidate"}
StableOnly      == {"stable"}
Unforced   == {FALSE}
AnyForce   == BOOLEAN
=============================================================================
