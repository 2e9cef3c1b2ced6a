------------------------------ MODULE MCSemver ------------------------------
(***************************************************************************)
(* The order of Semver checked on every triple of tags over a few numbers  *)
(* and words: three tags x, y, z slide through the whole set.              *)
(***************************************************************************)
EXTENDS Semver

CONSTANTS MaxNumber, MaxWord, MaxIdents

VARIABLES x, y, z

vars == <<x, y, z>>

Idents == [num : {TRUE}, val : 0 .. MaxNumber] \cup [num : {FALSE}, val : 1 .. MaxWord]

Pres == UNION {[1 .. n -> Idents] : n \in 0 .. MaxIdents}

Versions ==
    {v \in [kind : {"semver"}, major : {2}, minor : {0, 1}, patch : {0, 1}, pre : Pres] :
        v.minor = 0 \/ v.patch = 0}

Init == /\ x \in Versions /\ x.pre = << >>
        /\ y = x /\ z = x

Next == \E v \in Versions : x' = y /\ y' = z /\ z' = v

Spec == Init /\ [][Next]_vars

-----------------------------------------------------------------------------
(* Reference: semver.org, rule 11.  Fields are compared from the left, a
   number is below a word, a shorter list of equal fields is below a longer
   one, and a pre-release is below its release. *)
FieldBelow(i, j) == (i.num /\ ~j.num) \/ (i.num = j.num /\ i.val < j.val)

PreBelow(a, b) ==
    \E n \in 0 .. Len(a) :
        /\ n < Len(b) /\ \A k \in 1 .. n : a[k] = b[k]
        /\ n = Len(a) \/ FieldBelow(a[n + 1], b[n + 1])

Below(v, w) ==
    \/ v.minor < w.minor
    \/ v.minor = w.minor /\ v.patch < w.patch
    \/ /\ v.minor = w.minor /\ v.patch = w.patch
       /\ \/ v.pre # << >> /\ w.pre = << >>
          \/ v.pre # << >> /\ w.pre # << >> /\ PreBelow(v.pre, w.pre)

(* updateAvailable offers exactly the versions that semantic versioning puts
   above the one that runs. *)
OffersNewer == UpdateAvailable(y, z) <=> Below(y, z)

(* The order never sends an agent round in a circle of updates: what is
   offered twice in a row is offered directly and is never undone. *)
NoCycle ==
    /\ ~(UpdateAvailable(x, y) /\ UpdateAvailable(y, x))
    /\ UpdateAvailable(x, y) /\ UpdateAvailable(y, z) => UpdateAvailable(x, z)
=============================================================================
