-------------------------- MODULE AgentServiceProofs --------------------------
(***************************************************************************)
(* Proofs about Updater and BackupInstall, the two services of the agent   *)
(* that outlive its process: the version order, what the updater installs, *)
(* and that the credentials of a node survive the migration and the fold.  *)
(* The two modules share no name, so that both can be extended here.       *)
(***************************************************************************)
EXTENDS Updater, BackupInstall, SequenceTheorems, WellFoundedInduction, TLAPS

(***************************************************************************)
(* The version order.                                                      *)
(***************************************************************************)
SemverTag == {v \in Tag : v.kind = "semver"}

(* semver.org, rule 11: fields are compared from the left, a number is below
   a word, a shorter list of equal fields is below a longer one, and a
   pre-release is below its release. *)
FieldBelow(i, j) == (i.num /\ ~j.num) \/ ((i.num <=> j.num) /\ i.val < j.val)

PreBelow(a, b) ==
    \E n \in 0 .. Len(a) :
        /\ n < Len(b) /\ \A k \in 1 .. n : a[k] = b[k]
        /\ n = Len(a) \/ FieldBelow(a[n + 1], b[n + 1])

PreReleaseBelow(a, b) ==
    \/ a # << >> /\ b = << >>
    \/ a # << >> /\ b # << >> /\ PreBelow(a, b)

Below(v, w) ==
    \/ v.major < w.major
    \/ v.major = w.major /\ v.minor < w.minor
    \/ v.major = w.major /\ v.minor = w.minor /\ v.patch < w.patch
    \/ /\ v.major = w.major /\ v.minor = w.minor /\ v.patch = w.patch
       /\ PreReleaseBelow(v.pre, w.pre)

(* Every set of numbers that is not empty has a least element. *)
LEMMA LeastExists ==
    ASSUME NEW T, T \subseteq Nat, T # {}
    PROVE  \E m \in T : \A n \in T : m <= n
<1>1. \E m \in T : \A n \in T : ~ (<<n, m>> \in OpToRel(<, Nat))
    BY NatLessThanWellFounded, WFMin
<1>2. PICK m \in T : \A n \in T : ~ (<<n, m>> \in OpToRel(<, Nat))
    BY <1>1
<1>3. \A n \in T : ~ (n < m)
    BY <1>2 DEF OpToRel
<1> QED
    BY <1>3

(* Identifiers are totally ordered (compareIdent, update.go). *)
LEMMA IdentOrder ==
    ASSUME NEW i \in Ident, NEW j \in Ident
    PROVE  /\ CompareIdent(i, j) < 0 <=> FieldBelow(i, j)
           /\ CompareIdent(i, j) \in Int
           /\ i = j \/ FieldBelow(i, j) \/ FieldBelow(j, i)
           /\ ~FieldBelow(i, i)
<1>1. i.num \in BOOLEAN /\ j.num \in BOOLEAN /\ i.val \in Nat /\ j.val \in Nat
    BY DEF Ident
<1>2. i.num = j.num /\ i.val = j.val => i = j
    BY DEF Ident
<1>3. (i.num <=> j.num) => i.num = j.num
    BY <1>1
<1> QED
    BY <1>1, <1>2, <1>3 DEF CompareIdent, CompareInt, FieldBelow

LEMMA IdentTransitive ==
    ASSUME NEW i \in Ident, NEW j \in Ident, NEW k \in Ident,
           FieldBelow(i, j), FieldBelow(j, k)
    PROVE  FieldBelow(i, k)
<1>1. i.val \in Nat /\ j.val \in Nat /\ k.val \in Nat
    BY DEF Ident
<1> QED
    BY <1>1 DEF FieldBelow

(* The identifier comparePrerelease decides by: the first that differs. *)
LEMMA FirstDifference ==
    ASSUME NEW a \in Seq(Ident), NEW b \in Seq(Ident), a # b
    PROVE  \E k \in Nat :
               /\ 1 <= k /\ (k <= Len(a) \/ k <= Len(b))
               /\ \A l \in 1 .. k - 1 : l <= Len(a) /\ l <= Len(b) /\ a[l] = b[l]
               /\ k <= Len(a) /\ k <= Len(b) => a[k] # b[k]
               /\ ComparePrerelease(a, b) =
                      IF k > Len(a) THEN -1
                      ELSE IF k > Len(b) THEN 1 ELSE CompareIdent(a[k], b[k])
<1> DEFINE differ == {k \in (1 .. Len(a)) \cup (1 .. Len(b)) :
                          k > Len(a) \/ k > Len(b) \/ a[k] # b[k]}
<1>1. Len(a) \in Nat /\ Len(b) \in Nat
    OBVIOUS
<1>2. differ \subseteq Nat
    BY <1>1
<1>3. differ # {}
    <2>1. CASE Len(a) # Len(b)
        BY <1>1, <2>1
    <2>2. CASE Len(a) = Len(b)
        <3>1. \E k \in 1 .. Len(a) : a[k] # b[k]
            BY <2>2, SeqEqual
        <3> QED
            BY <3>1
    <2> QED
        BY <2>1, <2>2
<1>4. PICK m \in differ : \A l \in differ : m <= l
    <2> HIDE DEF differ
    <2> QED
        BY <1>2, <1>3, LeastExists
<1>5. m = CHOOSE k \in differ : \A l \in differ : k <= l
    <2> HIDE DEF differ
    <2>1. \A k \in differ : (\A l \in differ : k <= l) => k = m
        BY <1>2, <1>4
    <2> QED
        BY <1>4, <2>1
<1>6. ComparePrerelease(a, b) =
          IF m > Len(a) THEN -1 ELSE IF m > Len(b) THEN 1 ELSE CompareIdent(a[m], b[m])
    BY <1>3, <1>5 DEF ComparePrerelease
<1>7. \A l \in 1 .. m - 1 : l <= Len(a) /\ l <= Len(b) /\ a[l] = b[l]
    <2> TAKE l \in 1 .. m - 1
    <2>1. l \notin differ
        BY <1>1, <1>4, <1>2
    <2>2. l \in 1 .. Len(a) \/ l \in 1 .. Len(b)
        BY <1>1, <1>4
    <2> QED
        BY <2>1, <2>2, <1>1
<1> QED
    BY <1>1, <1>4, <1>6, <1>7

(* comparePrerelease is the order of the rule. *)
LEMMA PrereleaseOrder ==
    ASSUME NEW a \in Seq(Ident), NEW b \in Seq(Ident)
    PROVE  /\ a # b => (ComparePrerelease(a, b) < 0 <=> PreBelow(a, b))
           /\ a = b \/ PreBelow(a, b) \/ PreBelow(b, a)
<1> SUFFICES ASSUME a # b
             PROVE  /\ ComparePrerelease(a, b) < 0 <=> PreBelow(a, b)
                    /\ PreBelow(a, b) \/ PreBelow(b, a)
    OBVIOUS
<1>1. Len(a) \in Nat /\ Len(b) \in Nat
    OBVIOUS
<1>2. PICK k \in Nat :
          /\ 1 <= k /\ (k <= Len(a) \/ k <= Len(b))
          /\ \A l \in 1 .. k - 1 : l <= Len(a) /\ l <= Len(b) /\ a[l] = b[l]
          /\ k <= Len(a) /\ k <= Len(b) => a[k] # b[k]
          /\ ComparePrerelease(a, b) =
                 IF k > Len(a) THEN -1
                 ELSE IF k > Len(b) THEN 1 ELSE CompareIdent(a[k], b[k])
    BY FirstDifference
<1>3. k - 1 \in 0 .. Len(a) /\ k - 1 \in 0 .. Len(b) /\ (k - 1) + 1 = k
    <2>1. CASE k = 1
        BY <2>1, <1>1
    <2>2. CASE k # 1
        <3>1. k - 1 \in 1 .. k - 1
            BY <1>2, <2>2
        <3> QED
            BY <3>1, <1>2, <1>1
    <2> QED
        BY <2>1, <2>2
<1>4. ASSUME NEW n \in 0 .. Len(a), n < Len(b), \A j \in 1 .. n : a[j] = b[j],
             n = Len(a) \/ FieldBelow(a[n + 1], b[n + 1])
      PROVE  n = k - 1
    <2>1. n < k
        <3> SUFFICES ASSUME k <= n PROVE FALSE
            BY <1>4
        <3>1. k \in 1 .. n /\ k <= Len(a) /\ k <= Len(b)
            BY <1>1, <1>2, <1>4
        <3> QED
            BY <3>1, <1>2, <1>4
    <2>2. n >= k - 1
        <3> SUFFICES ASSUME n < k - 1 PROVE FALSE
            BY <1>4
        <3>1. n + 1 \in 1 .. k - 1
            BY <1>4
        <3>2. a[n + 1] = b[n + 1] /\ n # Len(a) /\ n + 1 \in 1 .. Len(a)
            BY <3>1, <1>2, <1>1, <1>4
        <3>3. a[n + 1] \in Ident
            BY <3>2
        <3> QED
            BY <3>2, <3>3, <1>4, IdentOrder
    <2> QED
        BY <2>1, <2>2, <1>4
<1>5. PreBelow(a, b) <=>
          k - 1 < Len(b) /\ (k - 1 = Len(a) \/ FieldBelow(a[k], b[k]))
    <2>1. ASSUME PreBelow(a, b)
          PROVE  k - 1 < Len(b) /\ (k - 1 = Len(a) \/ FieldBelow(a[k], b[k]))
        <3>1. PICK n \in 0 .. Len(a) :
                  /\ n < Len(b) /\ \A j \in 1 .. n : a[j] = b[j]
                  /\ n = Len(a) \/ FieldBelow(a[n + 1], b[n + 1])
            BY <2>1 DEF PreBelow
        <3>2. n = k - 1
            BY <3>1, <1>4
        <3> QED
            BY <3>1, <3>2, <1>3
    <2>2. ASSUME k - 1 < Len(b), k - 1 = Len(a) \/ FieldBelow(a[k], b[k])
          PROVE  PreBelow(a, b)
        BY <2>2, <1>2, <1>3 DEF PreBelow
    <2> QED
        BY <2>1, <2>2
<1>6. k - 1 < Len(a) /\ (k - 1 = Len(b) \/ FieldBelow(b[k], a[k])) => PreBelow(b, a)
    <2> SUFFICES ASSUME k - 1 < Len(a), k - 1 = Len(b) \/ FieldBelow(b[k], a[k])
                 PROVE  PreBelow(b, a)
        OBVIOUS
    <2>1. \A j \in 1 .. k - 1 : b[j] = a[j]
        BY <1>2
    <2>2. k - 1 = Len(b) \/ FieldBelow(b[(k - 1) + 1], a[(k - 1) + 1])
        BY <1>3
    <2> QED
        BY <2>1, <2>2, <1>3 DEF PreBelow
<1>7. CASE k > Len(a)
    BY <1>7, <1>1, <1>2, <1>3, <1>5
<1>8. CASE k > Len(b)
    <2>1. ~(k > Len(a)) /\ ComparePrerelease(a, b) = 1
        BY <1>8, <1>1, <1>2
    <2> QED
        BY <2>1, <1>8, <1>1, <1>3, <1>5, <1>6
<1>9. CASE ~(k > Len(a)) /\ ~(k > Len(b))
    <2>1. k \in 1 .. Len(a) /\ k \in 1 .. Len(b)
        BY <1>9, <1>1, <1>2
    <2>2. a[k] \in Ident /\ b[k] \in Ident
        BY <2>1
    <2>3. ComparePrerelease(a, b) = CompareIdent(a[k], b[k]) /\ a[k] # b[k]
        BY <1>2, <1>9, <1>1
    <2>4. CompareIdent(a[k], b[k]) < 0 <=> FieldBelow(a[k], b[k])
        BY <2>2, IdentOrder
    <2>5. FieldBelow(a[k], b[k]) \/ FieldBelow(b[k], a[k])
        BY <2>2, <2>3, IdentOrder
    <2> QED
        BY <2>1, <2>3, <2>4, <2>5, <1>1, <1>5, <1>6
<1> QED
    BY <1>7, <1>8, <1>9

LEMMA PreTransitive ==
    ASSUME NEW a \in Seq(Ident), NEW b \in Seq(Ident), NEW c \in Seq(Ident),
           PreBelow(a, b), PreBelow(b, c)
    PROVE  PreBelow(a, c)
<1>1. Len(a) \in Nat /\ Len(b) \in Nat /\ Len(c) \in Nat
    OBVIOUS
<1>2. PICK m \in 0 .. Len(a) :
          /\ m < Len(b) /\ \A k \in 1 .. m : a[k] = b[k]
          /\ m = Len(a) \/ FieldBelow(a[m + 1], b[m + 1])
    BY DEF PreBelow
<1>3. PICK n \in 0 .. Len(b) :
          /\ n < Len(c) /\ \A k \in 1 .. n : b[k] = c[k]
          /\ n = Len(b) \/ FieldBelow(b[n + 1], c[n + 1])
    BY DEF PreBelow
<1>4. CASE m < n
    <2>1. m + 1 \in 1 .. n /\ \A k \in 1 .. m : a[k] = c[k]
        BY <1>1, <1>2, <1>3, <1>4
    <2>2. b[m + 1] = c[m + 1]
        BY <1>3, <2>1
    <2> QED
        BY <2>1, <2>2, <1>1, <1>2, <1>3, <1>4 DEF PreBelow
<1>5. CASE m = n
    <2>1. \A k \in 1 .. m : a[k] = c[k]
        BY <1>2, <1>3, <1>5
    <2>2. FieldBelow(b[m + 1], c[m + 1])
        BY <1>2, <1>3, <1>5
    <2>3. m # Len(a) => FieldBelow(a[m + 1], c[m + 1])
        <3> SUFFICES ASSUME m # Len(a) PROVE FieldBelow(a[m + 1], c[m + 1])
            OBVIOUS
        <3>1. m + 1 \in 1 .. Len(a) /\ m + 1 \in 1 .. Len(b) /\ m + 1 \in 1 .. Len(c)
            BY <1>1, <1>2, <1>3, <1>5
        <3>2. a[m + 1] \in Ident /\ b[m + 1] \in Ident /\ c[m + 1] \in Ident
            BY <3>1
        <3> QED
            BY <3>2, <2>2, <1>2, IdentTransitive
    <2> QED
        BY <2>1, <2>3, <1>2, <1>3, <1>5 DEF PreBelow
<1>6. CASE n < m
    <2>1. n + 1 \in 1 .. m /\ \A k \in 1 .. n : a[k] = c[k]
        BY <1>1, <1>2, <1>3, <1>6
    <2>2. a[n + 1] = b[n + 1] /\ n # Len(b) /\ n \in 0 .. Len(a)
        BY <1>1, <1>2, <1>6, <2>1
    <2> QED
        BY <2>1, <2>2, <1>3 DEF PreBelow
<1> QED
    BY <1>1, <1>2, <1>3, <1>4, <1>5, <1>6

LEMMA PreIrreflexive ==
    ASSUME NEW a \in Seq(Ident)
    PROVE  ~PreBelow(a, a)
<1> SUFFICES ASSUME NEW n \in 0 .. Len(a), n < Len(a), FieldBelow(a[n + 1], a[n + 1])
             PROVE  FALSE
    BY DEF PreBelow
<1>1. a[n + 1] \in Ident
    OBVIOUS
<1> QED
    BY <1>1, IdentOrder

(* compare is that order, and a total one (update.go:395-481). *)
LEMMA CompareIsBelow ==
    ASSUME NEW v \in Tag, NEW w \in Tag
    PROVE  Compare(v, w) < 0 <=> Below(v, w)
<1>1. /\ v.major \in Nat /\ v.minor \in Nat /\ v.patch \in Nat
      /\ w.major \in Nat /\ w.minor \in Nat /\ w.patch \in Nat
    BY DEF Tag
<1>2. v.pre \in Seq(Ident) /\ w.pre \in Seq(Ident)
    BY DEF Tag
<1>3. CASE v.major # w.major
    BY <1>1, <1>3 DEF Compare, CompareInt, Below
<1>4. CASE v.major = w.major /\ v.minor # w.minor
    BY <1>1, <1>4 DEF Compare, CompareInt, Below
<1>5. CASE v.major = w.major /\ v.minor = w.minor /\ v.patch # w.patch
    BY <1>1, <1>5 DEF Compare, CompareInt, Below
<1>6. CASE v.major = w.major /\ v.minor = w.minor /\ v.patch = w.patch
    <2>1. Below(v, w) <=> PreReleaseBelow(v.pre, w.pre)
        BY <1>1, <1>6 DEF Below
    <2>2. CASE v.pre = w.pre
        <3>1. Compare(v, w) = 0
            BY <1>6, <2>2 DEF Compare
        <3> QED
            BY <3>1, <2>1, <2>2, <1>2, PreIrreflexive DEF PreReleaseBelow
    <2>3. CASE v.pre = << >> /\ w.pre # << >>
        BY <1>6, <2>1, <2>3 DEF Compare, PreReleaseBelow
    <2>4. CASE v.pre # << >> /\ w.pre = << >>
        BY <1>6, <2>1, <2>4 DEF Compare, PreReleaseBelow
    <2>5. CASE v.pre # w.pre /\ v.pre # << >> /\ w.pre # << >>
        <3>1. Compare(v, w) = ComparePrerelease(v.pre, w.pre)
            BY <1>6, <2>5 DEF Compare
        <3>2. ComparePrerelease(v.pre, w.pre) < 0 <=> PreBelow(v.pre, w.pre)
            BY <1>2, <2>5, PrereleaseOrder
        <3> QED
            BY <3>1, <3>2, <2>1, <2>5 DEF PreReleaseBelow
    <2> QED
        BY <2>2, <2>3, <2>4, <2>5
<1> QED
    BY <1>3, <1>4, <1>5, <1>6

LEMMA BelowTransitive ==
    ASSUME NEW v \in Tag, NEW w \in Tag, NEW x \in Tag, Below(v, w), Below(w, x)
    PROVE  Below(v, x)
<1>1. /\ v.major \in Nat /\ v.minor \in Nat /\ v.patch \in Nat
      /\ w.major \in Nat /\ w.minor \in Nat /\ w.patch \in Nat
      /\ x.major \in Nat /\ x.minor \in Nat /\ x.patch \in Nat
    BY DEF Tag
<1>2. PreReleaseBelow(v.pre, w.pre) /\ PreReleaseBelow(w.pre, x.pre) =>
          PreReleaseBelow(v.pre, x.pre)
    <2>1. v.pre \in Seq(Ident) /\ w.pre \in Seq(Ident) /\ x.pre \in Seq(Ident)
        BY DEF Tag
    <2> QED
        BY <2>1, PreTransitive DEF PreReleaseBelow
<1> QED
    BY <1>1, <1>2 DEF Below

LEMMA BelowIrreflexive ==
    ASSUME NEW v \in Tag
    PROVE  ~Below(v, v)
<1>1. v.major \in Nat /\ v.minor \in Nat /\ v.patch \in Nat
    BY DEF Tag
<1>2. ~PreReleaseBelow(v.pre, v.pre)
    <2>1. v.pre \in Seq(Ident)
        BY DEF Tag
    <2> QED
        BY <2>1, PreIrreflexive DEF PreReleaseBelow
<1> QED
    BY <1>1, <1>2 DEF Below

LEMMA BelowTotal ==
    ASSUME NEW v \in SemverTag, NEW w \in SemverTag
    PROVE  v = w \/ Below(v, w) \/ Below(w, v)
<1>1. /\ v.major \in Nat /\ v.minor \in Nat /\ v.patch \in Nat
      /\ w.major \in Nat /\ w.minor \in Nat /\ w.patch \in Nat
    BY DEF SemverTag, Tag
<1>2. v.pre = w.pre \/ PreReleaseBelow(v.pre, w.pre) \/ PreReleaseBelow(w.pre, v.pre)
    <2>1. v.pre \in Seq(Ident) /\ w.pre \in Seq(Ident)
        BY DEF SemverTag, Tag
    <2> QED
        BY <2>1, PrereleaseOrder DEF PreReleaseBelow
<1>3. /\ v.major = w.major /\ v.minor = w.minor /\ v.patch = w.patch /\ v.pre = w.pre
      => v = w
    BY DEF SemverTag, Tag
<1> QED
    BY <1>1, <1>2, <1>3 DEF Below

(* updateAvailable offers exactly the versions that semantic versioning puts
   above the one that runs, however many fields they have; and the order never
   sends an agent round in a circle: what is offered twice in a row is offered
   directly, and is never undone (update.go:368-481). *)
THEOREM UpdatesGoUp ==
    ASSUME NEW v \in SemverTag, NEW w \in SemverTag, NEW x \in SemverTag
    PROVE  /\ UpdateAvailable(v, w) <=> Below(v, w)
           /\ ~(UpdateAvailable(v, w) /\ UpdateAvailable(w, v))
           /\ UpdateAvailable(v, w) /\ UpdateAvailable(w, x) => UpdateAvailable(v, x)
           /\ v = w \/ UpdateAvailable(v, w) \/ UpdateAvailable(w, v)
<1>1. ASSUME NEW a \in SemverTag, NEW b \in SemverTag
      PROVE  UpdateAvailable(a, b) <=> Below(a, b)
    <2>1. a \in Tag /\ b \in Tag /\ a.kind = "semver" /\ b.kind = "semver"
        BY DEF SemverTag
    <2>2. a = b => ~Below(a, b)
        BY <2>1, BelowIrreflexive
    <2>3. Compare(a, b) < 0 <=> Below(a, b)
        BY <2>1, CompareIsBelow
    <2> QED
        BY <2>1, <2>2, <2>3 DEF UpdateAvailable
<1>2. v \in Tag /\ w \in Tag /\ x \in Tag
    BY DEF SemverTag
<1>3. Below(v, w) /\ Below(w, x) => Below(v, x)
    BY <1>2, BelowTransitive
<1>4. ~(Below(v, w) /\ Below(w, v))
    BY <1>2, BelowTransitive, BelowIrreflexive
<1>5. v = w \/ Below(v, w) \/ Below(w, v)
    BY BelowTotal
<1> QED
    BY <1>1, <1>3, <1>4, <1>5

-----------------------------------------------------------------------------
(***************************************************************************)
(* Updater.                                                                *)
(***************************************************************************)
Listing == [tag : Tag, pre : BOOLEAN, asset : BOOLEAN]

(* UpdaterTypeOK as it is inductive: what GitHub lists is a sequence. *)
UpdaterTypes == UpdaterTypeOK /\ releases \in Seq(Listing)

LEMMA RemovedIsShorter ==
    ASSUME NEW S, NEW s \in Seq(S), NEW i \in 1 .. Len(s)
    PROVE  /\ RemoveAt(s, i) \in Seq(S) /\ Len(RemoveAt(s, i)) = Len(s) - 1
           /\ \A k \in 1 .. Len(s) - 1 :
                  RemoveAt(s, i)[k] = IF k < i THEN s[k] ELSE s[k + 1]
<1> DEFINE before == SubSeq(s, 1, i - 1)
           after  == SubSeq(s, i + 1, Len(s))
<1>1. Len(s) \in Nat /\ i \in Nat
    OBVIOUS
<1>2. /\ before \in Seq(S) /\ Len(before) = i - 1
      /\ \A k \in 1 .. i - 1 : before[k] = s[k]
    OBVIOUS
<1>3. /\ after \in Seq(S) /\ Len(after) = Len(s) - i
      /\ \A k \in 1 .. Len(s) - i : after[k] = s[i + k]
    OBVIOUS
<1>4. RemoveAt(s, i) = before \o after
    BY DEF RemoveAt
<1> HIDE DEF before, after
<1>5. /\ before \o after \in Seq(S) /\ Len(before \o after) = Len(s) - 1
      /\ \A k \in 1 .. Len(s) - 1 :
             (before \o after)[k] = IF k < i THEN before[k] ELSE after[k - (i - 1)]
    <2>1. /\ before \o after \in Seq(S) /\ Len(before \o after) = Len(before) + Len(after)
          /\ \A k \in 1 .. Len(before) + Len(after) :
                 (before \o after)[k] = IF k <= Len(before) THEN before[k]
                                         ELSE after[k - Len(before)]
        BY <1>2, <1>3, ConcatProperties
    <2>2. Len(before) + Len(after) = Len(s) - 1
        BY <1>1, <1>2, <1>3
    <2>3. \A k \in 1 .. Len(s) - 1 : k <= Len(before) <=> k < i
        BY <1>1, <1>2
    <2> QED
        BY <2>1, <2>2, <2>3, <1>2
<1>6. \A k \in 1 .. Len(s) - 1 : RemoveAt(s, i)[k] = IF k < i THEN s[k] ELSE s[k + 1]
    <2> TAKE k \in 1 .. Len(s) - 1
    <2>1. CASE k < i
        BY <2>1, <1>1, <1>2, <1>4, <1>5
    <2>2. CASE ~(k < i)
        <3>1. k - (i - 1) \in 1 .. Len(s) - i /\ i + (k - (i - 1)) = k + 1
            BY <2>2, <1>1
        <3> QED
            BY <2>2, <3>1, <1>3, <1>4, <1>5
    <2> QED
        BY <2>1, <2>2
<1> QED
    BY <1>4, <1>5, <1>6

(* A publication comes first in the list. *)
LEMMA PublishedIsLonger ==
    ASSUME NEW S, NEW s \in Seq(S), NEW e \in S
    PROVE  /\ <<e>> \o s \in Seq(S) /\ Len(<<e>> \o s) = Len(s) + 1
           /\ \A k \in 1 .. Len(s) + 1 :
                  (<<e>> \o s)[k] = IF k = 1 THEN e ELSE s[k - 1]
    OBVIOUS

(* latestRelease answers with the first candidate of the list. *)
LEMMA OfferedIsFirst ==
    ASSUME UpdaterTypes, NEW chan, Candidates(chan) # {}
    PROVE  \E i \in Candidates(chan) :
               /\ Offered(chan) = [tag |-> releases[i].tag, pre |-> releases[i].pre]
               /\ \A l \in Candidates(chan) : i <= l
<1>1. Candidates(chan) \subseteq Nat
    BY DEF Candidates, UpdaterTypes
<1>2. PICK m \in Candidates(chan) : \A l \in Candidates(chan) : m <= l
    BY <1>1, LeastExists
<1>3. \A k \in Candidates(chan) : (\A l \in Candidates(chan) : k <= l) => k = m
    BY <1>1, <1>2
<1>4. m = CHOOSE k \in Candidates(chan) : \A l \in Candidates(chan) : k <= l
    BY <1>2, <1>3
<1> QED
    BY <1>2, <1>4 DEF Offered

(* It is in the catalogue, and the channel admits it. *)
LEMMA OfferedIsAdmitted ==
    ASSUME UpdaterTypes, NEW chan, Candidates(chan) # {}
    PROVE  Offered(chan) \in Catalog /\ (chan = "stable" => ~Offered(chan).pre)
<1>1. PICK i \in Candidates(chan) :
          Offered(chan) = [tag |-> releases[i].tag, pre |-> releases[i].pre]
    BY OfferedIsFirst
<1>2. i \in 1 .. Len(releases) /\ (chan = "stable" => ~releases[i].pre)
    BY DEF Candidates
<1> QED
    BY <1>1, <1>2 DEF UpdaterTypes, UpdaterTypeOK

LEMMA UpdaterTypesInit == UpdaterInit => UpdaterTypes
<1> SUFFICES ASSUME UpdaterInit PROVE UpdaterTypes
    OBVIOUS
<1>1. Nobody \notin Workers
    BY RequestAssumption DEF Workers, Timer, Nobody
<1>2. releases \in Seq(Listing) /\ Len(releases) = 0
    BY DEF UpdaterInit
<1>3. force \in [Workers -> BOOLEAN]
    BY DEF UpdaterInit
<1>4. found \in [Workers -> Catalog \cup {NoRelease}]
    BY DEF UpdaterInit
<1> QED
    BY <1>1, <1>2, <1>3, <1>4, ChannelAssumption, UpdaterFlagAssumption
       DEF UpdaterInit, UpdaterTypes, UpdaterTypeOK, Idle

(* What GitHub does, the updater does not notice. *)
LEMMA GitHubTyped ==
    ASSUME UpdaterTypes,
           \/ \E release \in Catalog : Publish(release)
           \/ \E i \in 1 .. Len(releases) : Upload(i) \/ Withdraw(i)
    PROVE  UpdaterTypes'
<1>1. Catalog \subseteq [tag : Tag, pre : BOOLEAN]
    BY CatalogAssumption
<1> SUFFICES /\ releases' \in Seq(Listing) /\ published' \subseteq Catalog
             /\ \A i \in 1 .. Len(releases') :
                    [tag |-> releases'[i].tag, pre |-> releases'[i].pre] \in published'
    BY DEF UpdaterTypes, UpdaterTypeOK, Publish, Upload, Withdraw, locals
<1>2. /\ releases \in Seq(Listing) /\ published \subseteq Catalog /\ Len(releases) \in Nat
      /\ \A i \in 1 .. Len(releases) :
             /\ releases[i] \in Listing
             /\ [tag |-> releases[i].tag, pre |-> releases[i].pre] \in published
    BY DEF UpdaterTypes, UpdaterTypeOK
<1>3. ASSUME NEW release \in Catalog, Publish(release)
      PROVE  /\ releases' \in Seq(Listing) /\ published' \subseteq Catalog
             /\ \A i \in 1 .. Len(releases') :
                    [tag |-> releases'[i].tag, pre |-> releases'[i].pre] \in published'
    <2> DEFINE new == [tag |-> release.tag, pre |-> release.pre, asset |-> FALSE]
    <2>1. new \in Listing /\ [tag |-> new.tag, pre |-> new.pre] = release
        BY <1>1 DEF Listing
    <2>2. releases' = <<new>> \o releases /\ published' = published \cup {release}
        BY <1>3 DEF Publish
    <2> HIDE DEF new
    <2>3. /\ releases' \in Seq(Listing) /\ Len(releases') = Len(releases) + 1
          /\ \A k \in 1 .. Len(releases) + 1 :
                 releases'[k] = IF k = 1 THEN new ELSE releases[k - 1]
        BY <2>1, <2>2, <1>2, PublishedIsLonger
    <2>4. ASSUME NEW i \in 1 .. Len(releases')
          PROVE  [tag |-> releases'[i].tag, pre |-> releases'[i].pre] \in published'
        <3>1. CASE i = 1
            BY <3>1, <2>1, <2>2, <2>3, <2>4, <1>2
        <3>2. CASE i # 1
            <4>1. i - 1 \in 1 .. Len(releases) /\ releases'[i] = releases[i - 1]
                BY <3>2, <2>3, <2>4, <1>2
            <4> QED
                BY <4>1, <2>2, <1>2
        <3> QED
            BY <3>1, <3>2
    <2> QED
        BY <2>2, <2>3, <2>4, <1>2
<1>4. ASSUME NEW i \in 1 .. Len(releases), Upload(i)
      PROVE  /\ releases' \in Seq(Listing) /\ published' \subseteq Catalog
             /\ \A k \in 1 .. Len(releases') :
                    [tag |-> releases'[k].tag, pre |-> releases'[k].pre] \in published'
    <2>1. [releases[i] EXCEPT !.asset = TRUE] \in Listing
        BY <1>2 DEF Listing
    <2>2. /\ releases' = [releases EXCEPT ![i] = [releases[i] EXCEPT !.asset = TRUE]]
          /\ published' = published
        BY <1>4 DEF Upload
    <2>3. /\ releases' \in Seq(Listing) /\ Len(releases') = Len(releases)
          /\ \A k \in 1 .. Len(releases) :
                 releases'[k].tag = releases[k].tag /\ releases'[k].pre = releases[k].pre
        BY <2>1, <2>2, <1>2 DEF Listing
    <2> QED
        BY <2>2, <2>3, <1>2
<1>5. ASSUME NEW i \in 1 .. Len(releases), Withdraw(i)
      PROVE  /\ releases' \in Seq(Listing) /\ published' \subseteq Catalog
             /\ \A k \in 1 .. Len(releases') :
                    [tag |-> releases'[k].tag, pre |-> releases'[k].pre] \in published'
    <2>1. releases' = RemoveAt(releases, i) /\ published' = published
        BY <1>5 DEF Withdraw
    <2>2. /\ releases' \in Seq(Listing) /\ Len(releases') = Len(releases) - 1
          /\ \A k \in 1 .. Len(releases) - 1 :
                 releases'[k] = IF k < i THEN releases[k] ELSE releases[k + 1]
        BY <2>1, <1>2, RemovedIsShorter
    <2>3. \A k \in 1 .. Len(releases') :
              \E l \in 1 .. Len(releases) : releases'[k] = releases[l]
        BY <2>2, <1>2
    <2> QED
        BY <2>1, <2>2, <2>3, <1>2
<1> QED
    BY <1>3, <1>4, <1>5

(* A step of an Install, or of the timer or handler that begins it. *)
LEMMA WorkerTyped ==
    ASSUME UpdaterTypes,
           \/ Tick
           \/ \E w \in Requests, chan \in Channels, forced \in Forces : Apply(w, chan, forced)
           \/ \E w \in Workers : UpdateStep(w)
           \/ Crash
    PROVE  UpdaterTypes'
<1> USE CatalogAssumption, RequestAssumption, ChannelAssumption, UpdaterFlagAssumption
        DEF UpdaterTypes, UpdaterTypeOK, Proceed, locals, github
<1>1. Timer \in Workers /\ Requests \subseteq Workers /\ Nobody \notin Workers
    BY DEF Workers, Timer, Nobody
<1>2. CASE Tick
    BY <1>1, <1>2 DEF Tick
<1>3. ASSUME NEW w \in Requests, NEW chan \in Channels, NEW forced \in Forces,
             Apply(w, chan, forced)
      PROVE  UpdaterTypes'
    BY <1>1, <1>3 DEF Apply
<1>4. ASSUME NEW w \in Workers, Check(w)
      PROVE  UpdaterTypes'
    BY <1>1, <1>4 DEF Check, Failure
<1>5. ASSUME NEW w \in Workers, Refetch(w)
      PROVE  UpdaterTypes'
    <2>1. Candidates(channel[w]) # {} => Offered(channel[w]) \in Catalog
        BY OfferedIsAdmitted
    <2> QED
        BY <1>1, <1>5, <2>1 DEF Refetch, Failure
<1>6. ASSUME NEW w \in Workers, Download(w)
      PROVE  UpdaterTypes'
    <2> DEFINE Tags == {Start} \cup {release.tag : release \in Catalog}
    <2>1. found[w].tag \in Tags
        BY DEF NoRelease
    <2>2. {binary, running} \subseteq Tags
        OBVIOUS
    <2> HIDE DEF Tags
    <2>3. {binary', running'} \subseteq Tags
        BY <1>6, <2>1, <2>2 DEF Download
    <2>4. UNCHANGED <<releases, published, channel, force, found, requests>>
        BY <1>6 DEF Download
    <2>5. failures' \in 0 .. MaxFailures
        BY <1>6 DEF Download, Failure
    <2>6. /\ stage[w] = "download" /\ holder' = Nobody
          /\ \/ stage' = [stage EXCEPT ![w] = "restart"]
             \/ stage' = [stage EXCEPT ![w] = "idle"]
        BY <1>6 DEF Download
    <2>7. \A v \in Workers : (holder' = v) <=> stage'[v] \in {"refetch", "download"}
        BY <1>1, <2>6
    <2> QED
        BY <2>3, <2>4, <2>5, <2>6, <2>7 DEF Tags
<1>7. CASE Replaced /\ failures' \in 0 .. MaxFailures
    BY <1>1, <1>7 DEF Replaced, Idle
<1>8. ASSUME NEW w \in Workers, Restart(w)
      PROVE  UpdaterTypes'
    BY <1>1, <1>7, <1>8 DEF Restart, Failure
<1>9. CASE Crash
    BY <1>7, <1>9 DEF Crash, Failure
<1>10. ASSUME NEW w \in Workers, UpdateStep(w)
       PROVE  UpdaterTypes'
    BY <1>4, <1>5, <1>6, <1>8, <1>10 DEF UpdateStep
<1> QED
    BY <1>2, <1>3, <1>9, <1>10

LEMMA UpdaterTypesStep == UpdaterTypes /\ [UpdaterNext]_updaterVars => UpdaterTypes'
<1> SUFFICES ASSUME UpdaterTypes, [UpdaterNext]_updaterVars PROVE UpdaterTypes'
    OBVIOUS
<1>1. CASE UNCHANGED updaterVars
    BY <1>1 DEF UpdaterTypes, UpdaterTypeOK, updaterVars
<1>2. CASE UpdaterNext
    BY <1>2, GitHubTyped, WorkerTyped DEF UpdaterNext
<1> QED
    BY <1>1, <1>2

(* Type correctness of the updater, whatever is published and withdrawn
   meanwhile; part of it is that the mutex has one holder, the Install that is
   between its two queries and the new binary (update.go:148-179). *)
THEOREM UpdaterTypesHold == UpdaterSpec => []UpdaterTypeOK
<1>1. UpdaterTypes => UpdaterTypeOK
    BY DEF UpdaterTypes
<1> QED
    BY <1>1, UpdaterTypesInit, UpdaterTypesStep, PTL DEF UpdaterSpec

(* An Install keeps the channel it was asked for, in both its queries. *)
LEMMA StableStep ==
    UpdaterTypes /\ StableIsStable /\ [UpdaterNext]_updaterVars => StableIsStable'
<1> SUFFICES ASSUME UpdaterTypes, StableIsStable, [UpdaterNext]_updaterVars,
                    NEW v \in Workers, stage'[v] = "download", channel'[v] = "stable"
             PROVE  ~found'[v].pre
    BY DEF StableIsStable
<1>1. /\ stage \in [Workers -> {"idle", "lock", "refetch", "download", "restart"}]
      /\ channel \in [Workers -> {"stable", "candidate"}]
      /\ found \in [Workers -> Catalog \cup {NoRelease}]
    BY DEF UpdaterTypes, UpdaterTypeOK
<1>2. stage[v] = "download" /\ channel[v] = "stable" => ~found[v].pre
    BY DEF StableIsStable
<1> USE DEF Proceed, locals, github
<1>3. ASSUME NEW w \in Workers, Refetch(w)
      PROVE  ~found'[v].pre
    <2>1. CASE w = v /\ Candidates(channel[w]) # {} /\ found'[v] = Offered(channel[v])
        BY <2>1, <1>3, OfferedIsAdmitted DEF Refetch
    <2>2. CASE ~(w = v /\ Candidates(channel[w]) # {} /\ found'[v] = Offered(channel[v]))
        BY <2>2, <1>1, <1>2, <1>3 DEF Refetch
    <2> QED
        BY <2>1, <2>2
<1>4. ASSUME NEW w \in Workers, Check(w) \/ Download(w) \/ Restart(w)
      PROVE  ~found'[v].pre
    BY <1>1, <1>2, <1>4 DEF Check, Download, Restart, Replaced, Idle
<1>5. CASE Tick
    BY <1>1, <1>2, <1>5 DEF Tick
<1>6. ASSUME NEW w \in Requests, NEW chan \in Channels, NEW forced \in Forces,
             Apply(w, chan, forced)
      PROVE  ~found'[v].pre
    BY <1>1, <1>2, <1>6 DEF Apply
<1>7. CASE Crash
    BY <1>7 DEF Crash, Replaced, Idle
<1>8. ASSUME NEW release \in Catalog, Publish(release)
      PROVE  ~found'[v].pre
    BY <1>2, <1>8 DEF Publish
<1>9. ASSUME NEW i \in 1 .. Len(releases), Upload(i) \/ Withdraw(i)
      PROVE  ~found'[v].pre
    BY <1>2, <1>9 DEF Upload, Withdraw
<1>10. CASE UNCHANGED updaterVars
    BY <1>2, <1>10 DEF updaterVars
<1> QED
    BY <1>3, <1>4, <1>5, <1>6, <1>7, <1>8, <1>9, <1>10 DEF UpdaterNext, UpdateStep

(* A request for the stable channel installs no pre-release, whatever channel
   is configured, whatever is published or withdrawn between the two queries
   and however many Installs wait for the mutex (config.md:143,
   update.go:148-179). *)
THEOREM StableStaysStable == UpdaterSpec => []StableIsStable
<1>1. UpdaterInit => StableIsStable
    BY DEF UpdaterInit, StableIsStable, Idle
<1> QED
    BY <1>1, UpdaterTypesInit, UpdaterTypesStep, StableStep, PTL DEF UpdaterSpec

-----------------------------------------------------------------------------
(***************************************************************************)
(* Releases in the order of their versions.                                *)
(***************************************************************************)
(* What the updater relies on: nothing is withdrawn, and versions are
   published in ascending order. *)
InOrder ==
    Ascending /\ ~Withdrawals /\ \A release \in Catalog : release.tag \in SemverTag

(* Beyond that: one channel, and whoever forces an update does so on a node
   that is older than every release. *)
OneWay ==
    /\ InOrder /\ Channels \subseteq {Channel}
    /\ TRUE \notin Forces \/ \A release \in Catalog : UpdateAvailable(Start, release.tag)

NotOlder(s, t) == s = t \/ UpdateAvailable(s, t)

(* The versions a channel offers, or has offered. *)
Admitted(chan) == {releases[i].tag : i \in Candidates(chan)}

Sorted ==
    \A i, j \in 1 .. Len(releases) :
        i < j => UpdateAvailable(releases[j].tag, releases[i].tag)

(* What an Install without force is about to install is newer than the agent
   that runs. *)
Chosen(w) ==
    /\ stage[w] = "refetch" /\ ~force[w] =>
           \E t \in Admitted(channel[w]) : UpdateAvailable(running, t)
    /\ stage[w] = "download" /\ ~force[w] => UpdateAvailable(running, found[w].tag)

NewerInv == UpdaterTypes /\ Sorted /\ \A w \in Workers : Chosen(w)

(* The binary is a release of the channel, or nothing was installed yet; what
   is about to be installed is not older than it. *)
Installed == binary \in Admitted(Channel) \/ (binary = Start /\ running = Start)

Ahead(w) ==
    /\ channel[w] = Channel /\ (force[w] => TRUE \in Forces)
    /\ stage[w] = "refetch" =>
           \/ binary \in Admitted(Channel)
           \/ \E t \in Admitted(Channel) : UpdateAvailable(Start, t)
    /\ stage[w] = "download" =>
           found[w].tag \in Admitted(Channel) /\ NotOlder(binary, found[w].tag)

ForwardInv == UpdaterTypes /\ Sorted /\ Installed /\ \A w \in Workers : Ahead(w)

LEMMA NewerStill ==
    ASSUME NEW s \in Tag, NEW t \in SemverTag, NEW u \in SemverTag,
           UpdateAvailable(s, t), NotOlder(t, u)
    PROVE  UpdateAvailable(s, u)
<1>1. t.kind = "semver" /\ u.kind = "semver" /\ (s.kind = "semver" => s \in SemverTag)
    BY DEF SemverTag
<1>2. CASE s \in SemverTag
    BY <1>2, UpdatesGoUp DEF NotOlder
<1>3. CASE s \notin SemverTag
    BY <1>1, <1>3 DEF UpdateAvailable
<1> QED
    BY <1>2, <1>3

LEMMA ListedAreSemver ==
    ASSUME InOrder, UpdaterTypes, NEW i \in 1 .. Len(releases)
    PROVE  releases[i].tag \in SemverTag
<1>1. [tag |-> releases[i].tag, pre |-> releases[i].pre] \in Catalog
    BY DEF UpdaterTypes, UpdaterTypeOK
<1> QED
    BY <1>1 DEF InOrder

(* The first candidate of a sorted list is the newest. *)
LEMMA OfferedIsNewest ==
    ASSUME InOrder, UpdaterTypes, Sorted, NEW chan, Candidates(chan) # {}
    PROVE  /\ Offered(chan).tag \in Admitted(chan)
           /\ \A t \in Admitted(chan) : NotOlder(t, Offered(chan).tag)
<1>1. PICK i \in Candidates(chan) :
          /\ Offered(chan) = [tag |-> releases[i].tag, pre |-> releases[i].pre]
          /\ \A l \in Candidates(chan) : i <= l
    BY OfferedIsFirst
<1>2. Candidates(chan) \subseteq 1 .. Len(releases) /\ Len(releases) \in Nat
    BY DEF Candidates, UpdaterTypes
<1>3. ASSUME NEW l \in Candidates(chan)
      PROVE  NotOlder(releases[l].tag, releases[i].tag)
    <2>1. i = l \/ i < l
        BY <1>1, <1>2
    <2> QED
        BY <2>1, <1>2 DEF Sorted, NotOlder
<1> QED
    BY <1>1, <1>3 DEF Admitted

LEMMA AdmittedAreSemver ==
    ASSUME InOrder, UpdaterTypes, NEW chan
    PROVE  Admitted(chan) \subseteq SemverTag
    BY ListedAreSemver DEF Admitted, Candidates

(* A new release goes on top of the list, and an asset comes to stay: what a
   channel has once offered stays below what it offers. *)
LEMMA GitHubAscends ==
    ASSUME InOrder, UpdaterTypes, Sorted,
           \/ \E release \in Catalog : Publish(release)
           \/ \E i \in 1 .. Len(releases) : Upload(i) \/ Withdraw(i)
    PROVE  Sorted' /\ \A chan : \A t \in Admitted(chan) : t \in Admitted(chan)'
<1>1. /\ releases \in Seq(Listing) /\ Len(releases) \in Nat
      /\ \A i \in 1 .. Len(releases) :
             /\ releases[i] \in Listing
             /\ [tag |-> releases[i].tag, pre |-> releases[i].pre] \in published
    BY DEF UpdaterTypes, UpdaterTypeOK
<1>2. ASSUME NEW release \in Catalog, Publish(release)
      PROVE  Sorted' /\ \A chan : \A t \in Admitted(chan) : t \in Admitted(chan)'
    <2> DEFINE new == [tag |-> release.tag, pre |-> release.pre, asset |-> FALSE]
    <2>1. new \in Listing /\ new.tag = release.tag
        BY CatalogAssumption DEF Listing
    <2>2. releases' = <<new>> \o releases
        BY <1>2 DEF Publish
    <2> HIDE DEF new
    <2>3. /\ Len(releases') = Len(releases) + 1
          /\ \A k \in 1 .. Len(releases) + 1 :
                 releases'[k] = IF k = 1 THEN new ELSE releases[k - 1]
        BY <2>1, <2>2, <1>1, PublishedIsLonger
    <2>4. ASSUME NEW i \in 1 .. Len(releases)
          PROVE  UpdateAvailable(releases[i].tag, release.tag)
        <3>1. Compare(releases[i].tag, release.tag) < 0
            BY <1>1, <1>2 DEF Publish, InOrder
        <3>2. releases[i].tag \in SemverTag /\ release.tag \in SemverTag
            BY ListedAreSemver DEF InOrder
        <3>3. releases[i].tag \in Tag /\ release.tag \in Tag
            BY <3>2 DEF SemverTag
        <3> QED
            BY <3>1, <3>2, <3>3, CompareIsBelow, UpdatesGoUp
    <2>5. ASSUME NEW i \in 1 .. Len(releases'), NEW j \in 1 .. Len(releases'), i < j
          PROVE  UpdateAvailable(releases'[j].tag, releases'[i].tag)
        <3>1. j - 1 \in 1 .. Len(releases) /\ releases'[j] = releases[j - 1]
            BY <2>3, <2>5, <1>1
        <3>2. CASE i = 1
            BY <3>1, <3>2, <2>1, <2>3, <2>4, <2>5
        <3>3. CASE i # 1
            <4>1. i - 1 \in 1 .. Len(releases) /\ releases'[i] = releases[i - 1] /\ i - 1 < j - 1
                BY <2>3, <2>5, <3>3, <1>1
            <4> QED
                BY <3>1, <4>1 DEF Sorted
        <3> QED
            BY <3>2, <3>3
    <2>6. ASSUME NEW chan, NEW i \in Candidates(chan)
          PROVE  releases[i].tag \in Admitted(chan)'
        <3>1. i + 1 \in 1 .. Len(releases') /\ releases'[i + 1] = releases[i]
            BY <2>3, <1>1 DEF Candidates
        <3>2. i + 1 \in Candidates(chan)'
            BY <3>1 DEF Candidates
        <3> QED
            BY <3>1, <3>2 DEF Admitted
    <2> QED
        BY <2>5, <2>6 DEF Sorted, Admitted
<1>3. ASSUME NEW i \in 1 .. Len(releases), Upload(i)
      PROVE  Sorted' /\ \A chan : \A t \in Admitted(chan) : t \in Admitted(chan)'
    <2>1. releases' = [releases EXCEPT ![i] = [releases[i] EXCEPT !.asset = TRUE]]
        BY <1>3 DEF Upload
    <2>2. /\ Len(releases') = Len(releases)
          /\ \A k \in 1 .. Len(releases) :
                 /\ releases'[k].tag = releases[k].tag /\ releases'[k].pre = releases[k].pre
                 /\ releases[k].asset => releases'[k].asset
        BY <2>1, <1>1 DEF Listing
    <2>3. \A chan : Candidates(chan) \subseteq Candidates(chan)'
        BY <2>2 DEF Candidates
    <2>4. \A chan : \A k \in Candidates(chan) : k \in 1 .. Len(releases)
        BY DEF Candidates
    <2>5. \A chan : \A t \in Admitted(chan) : t \in Admitted(chan)'
        BY <2>2, <2>3, <2>4 DEF Admitted
    <2> QED
        BY <2>2, <2>5 DEF Sorted
<1>4. ~ \E i \in 1 .. Len(releases) : Withdraw(i)
    BY DEF Withdraw, InOrder
<1> QED
    BY <1>2, <1>3, <1>4

(* The releases that were offered stay offered, unless they are withdrawn. *)
LEMMA ReleasesAscend ==
    ASSUME InOrder, UpdaterTypes, Sorted, [UpdaterNext]_updaterVars
    PROVE  /\ Sorted' /\ \A chan : \A t \in Admitted(chan) : t \in Admitted(chan)'
           /\ releases' = releases \/ UNCHANGED <<binary, running, stage, channel, force, found>>
<1>1. ASSUME \/ \E release \in Catalog : Publish(release)
             \/ \E i \in 1 .. Len(releases) : Upload(i) \/ Withdraw(i)
      PROVE  /\ Sorted' /\ \A chan : \A t \in Admitted(chan) : t \in Admitted(chan)'
             /\ UNCHANGED <<binary, running, stage, channel, force, found>>
    BY <1>1, GitHubAscends DEF Publish, Upload, Withdraw, locals
<1>2. ASSUME releases' = releases
      PROVE  Sorted' /\ \A chan : \A t \in Admitted(chan) : t \in Admitted(chan)'
    BY <1>2 DEF Sorted, Admitted, Candidates
<1>3. ASSUME \/ Tick \/ Crash \/ UNCHANGED updaterVars
             \/ \E w \in Requests, chan \in Channels, forced \in Forces : Apply(w, chan, forced)
             \/ \E w \in Workers : UpdateStep(w)
      PROVE  releases' = releases
    BY <1>3 DEF Tick, Crash, updaterVars, Apply, UpdateStep, Check, Refetch, Download, Restart,
                Replaced, github
<1> QED
    BY <1>1, <1>2, <1>3 DEF UpdaterNext

(* What a step of the updater can do to an Install: it leaves it as it is, or
   moves it to one of its next places. *)
LEMMA InstallMoves ==
    ASSUME UpdaterTypes, [UpdaterNext]_updaterVars, NEW v \in Workers
    PROVE  \/ UNCHANGED <<running, stage[v], channel[v], force[v], found[v]>>
           \/ stage'[v] \in {"idle", "lock", "restart"}
           \/ /\ Wanted(v) /\ stage'[v] = "refetch"
              /\ UNCHANGED <<releases, binary, running, channel[v], force[v]>>
           \/ /\ stage[v] = "refetch" /\ stage'[v] = "download"
              /\ Candidates(channel[v]) # {} /\ found'[v] = Offered(channel[v])
              /\ UNCHANGED <<releases, binary, running, channel[v], force[v]>>
<1>1. /\ stage \in [Workers -> {"idle", "lock", "refetch", "download", "restart"}]
      /\ channel \in [Workers -> {"stable", "candidate"}] /\ force \in [Workers -> BOOLEAN]
      /\ found \in [Workers -> Catalog \cup {NoRelease}]
    BY DEF UpdaterTypes, UpdaterTypeOK
<1> USE DEF Proceed, locals, github
<1>2. ASSUME NEW w \in Workers, Check(w), w = v
      PROVE  \/ stage'[v] \in {"idle", "lock", "restart"}
             \/ /\ Wanted(v) /\ stage'[v] = "refetch"
                /\ UNCHANGED <<releases, binary, running, channel[v], force[v]>>
    BY <1>1, <1>2 DEF Check
<1>3. ASSUME NEW w \in Workers, Refetch(w), w = v
      PROVE  \/ stage'[v] \in {"idle", "lock", "restart"}
             \/ /\ stage[v] = "refetch" /\ stage'[v] = "download"
                /\ Candidates(channel[v]) # {} /\ found'[v] = Offered(channel[v])
                /\ UNCHANGED <<releases, binary, running, channel[v], force[v]>>
    BY <1>1, <1>3 DEF Refetch
<1>4. ASSUME NEW w \in Workers, Download(w) \/ Restart(w), w = v
      PROVE  stage'[v] \in {"idle", "lock", "restart"}
    BY <1>1, <1>4 DEF Download, Restart, Replaced, Idle
<1>5. ASSUME NEW w \in Workers, UpdateStep(w), w # v
      PROVE  \/ stage'[v] = "idle"
             \/ UNCHANGED <<running, stage[v], channel[v], force[v], found[v]>>
    BY <1>1, <1>5 DEF UpdateStep, Check, Refetch, Download, Restart, Replaced, Idle
<1>6. CASE Tick \/ \E w \in Requests, chan \in Channels, forced \in Forces :
                       Apply(w, chan, forced)
    BY <1>1, <1>6 DEF Tick, Apply
<1>7. CASE Crash
    BY <1>7 DEF Crash, Replaced, Idle
<1>8. CASE \/ \E release \in Catalog : Publish(release)
           \/ \E i \in 1 .. Len(releases) : Upload(i) \/ Withdraw(i)
           \/ UNCHANGED updaterVars
    BY <1>8 DEF Publish, Upload, Withdraw, updaterVars
<1>9. ASSUME NEW w \in Workers, UpdateStep(w)
      PROVE  \/ Check(w) \/ Refetch(w) \/ Download(w) \/ Restart(w)
    BY <1>9 DEF UpdateStep
<1> QED
    BY <1>2, <1>3, <1>4, <1>5, <1>6, <1>7, <1>8, <1>9, Zenon DEF UpdaterNext

LEMMA RunningIsTag ==
    ASSUME UpdaterTypes
    PROVE  running \in Tag /\ binary \in Tag
    BY CatalogAssumption DEF UpdaterTypes, UpdaterTypeOK

LEMMA NewerInit == UpdaterInit => NewerInv
<1> SUFFICES ASSUME UpdaterInit PROVE NewerInv
    OBVIOUS
<1>1. UpdaterTypes
    BY UpdaterTypesInit
<1>2. Len(releases) = 0 /\ \A w \in Workers : stage[w] = "idle"
    BY DEF UpdaterInit, Idle
<1> QED
    BY <1>1, <1>2 DEF NewerInv, Sorted, Chosen

LEMMA NewerStep == InOrder /\ NewerInv /\ [UpdaterNext]_updaterVars => NewerInv'
<1> SUFFICES ASSUME InOrder, NewerInv, [UpdaterNext]_updaterVars PROVE NewerInv'
    OBVIOUS
<1>1. UpdaterTypes /\ Sorted /\ UpdaterTypes'
    BY UpdaterTypesStep DEF NewerInv
<1>2. Sorted' /\ \A chan : \A t \in Admitted(chan) : t \in Admitted(chan)'
    BY <1>1, ReleasesAscend
<1>3. ASSUME NEW v \in Workers
      PROVE  Chosen(v)'
    <2>1. Chosen(v)
        BY DEF NewerInv
    <2>2. CASE UNCHANGED <<running, stage[v], channel[v], force[v], found[v]>>
        <3>1. ASSUME NEW t \in Admitted(channel[v])
              PROVE  t \in Admitted(channel[v])'
            <4>1. PICK chan : chan = channel[v]
                OBVIOUS
            <4>2. t \in Admitted(chan)'
                BY <4>1, <1>2
            <4> QED
                BY <4>1, <4>2, <2>2 DEF Admitted, Candidates
        <3> QED
            BY <2>1, <2>2, <3>1 DEF Chosen
    <2>3. CASE stage'[v] \in {"idle", "lock", "restart"}
        BY <2>3 DEF Chosen
    <2>4. CASE /\ Wanted(v) /\ stage'[v] = "refetch"
               /\ UNCHANGED <<releases, binary, running, channel[v], force[v]>>
        <3>1. Admitted(channel[v])' = Admitted(channel[v])
            BY <2>4 DEF Admitted, Candidates
        <3>2. Offered(channel[v]).tag \in Admitted(channel[v])
            BY <2>4, <1>1, OfferedIsNewest DEF Wanted
        <3> QED
            BY <2>4, <3>1, <3>2 DEF Chosen, Wanted
    <2>5. CASE /\ stage[v] = "refetch" /\ stage'[v] = "download"
               /\ Candidates(channel[v]) # {} /\ found'[v] = Offered(channel[v])
               /\ UNCHANGED <<releases, binary, running, channel[v], force[v]>>
        <3> SUFFICES ASSUME ~force[v]
                     PROVE  UpdateAvailable(running, Offered(channel[v]).tag)
            BY <2>5 DEF Chosen
        <3>1. PICK t \in Admitted(channel[v]) : UpdateAvailable(running, t)
            BY <2>1, <2>5 DEF Chosen
        <3>2. /\ NotOlder(t, Offered(channel[v]).tag)
              /\ Offered(channel[v]).tag \in Admitted(channel[v])
            BY <2>5, <1>1, OfferedIsNewest
        <3>3. t \in SemverTag /\ Offered(channel[v]).tag \in SemverTag
            BY <3>2, <1>1, AdmittedAreSemver
        <3> QED
            BY <3>1, <3>2, <3>3, <1>1, RunningIsTag, NewerStill
    <2> QED
        BY <2>2, <2>3, <2>4, <2>5, <1>1, InstallMoves
<1> QED
    BY <1>1, <1>2, <1>3 DEF NewerInv

(* Install without force replaces the agent that runs by a newer one, although
   it asks GitHub twice and compares only the first answer: as long as
   releases come in order and stay (config.md:142, update.go:148-166). *)
THEOREM InstallsAreNewer == InOrder => (UpdaterSpec => NewerOnly)
<1> SUFFICES ASSUME InOrder PROVE UpdaterSpec => NewerOnly
    OBVIOUS
<1>1. NewerInv /\ [UpdaterNext]_updaterVars => NewerInv'
    BY NewerStep
<1>2. NewerInv /\ [UpdaterNext]_updaterVars =>
          [\A w \in Workers :
              stage[w] = "download" /\ stage'[w] = "restart" /\ ~force[w] =>
                  UpdateAvailable(running, binary')]_updaterVars
    <2> SUFFICES ASSUME NewerInv, UpdaterNext, NEW w \in Workers,
                        stage[w] = "download", stage'[w] = "restart", ~force[w]
                 PROVE  UpdateAvailable(running, binary')
        OBVIOUS
    <2>1. UpdateAvailable(running, found[w].tag)
        BY DEF NewerInv, Chosen
    <2>2. /\ stage \in [Workers -> {"idle", "lock", "refetch", "download", "restart"}]
        BY DEF NewerInv, UpdaterTypes, UpdaterTypeOK
    <2>3. ASSUME NEW v \in Workers, UpdateStep(v)
          PROVE  binary' = found[w].tag
        BY <2>2, <2>3 DEF UpdateStep, Check, Refetch, Download, Restart, Replaced, Idle, Proceed
    <2>4. ~Tick /\ ~Crash
        BY <2>2 DEF Tick, Crash, Replaced, Idle, Proceed
    <2>5. ~ \E v \in Requests, chan \in Channels, forced \in Forces : Apply(v, chan, forced)
        BY <2>2 DEF Apply, Proceed
    <2>6. ~ \E release \in Catalog : Publish(release)
        BY DEF Publish
    <2>7. ~ \E i \in 1 .. Len(releases) : Upload(i) \/ Withdraw(i)
        BY DEF Upload, Withdraw
    <2> QED
        BY <2>1, <2>3, <2>4, <2>5, <2>6, <2>7 DEF UpdaterNext
<1> QED
    BY <1>1, <1>2, NewerInit, PTL DEF UpdaterSpec, NewerOnly

(* The binary is replaced only where an Install goes on to the restart. *)
LEMMA BinaryMoves ==
    ASSUME UpdaterTypes, [UpdaterNext]_updaterVars
    PROVE  \/ binary' = binary /\ (running' = running \/ running' = binary)
           \/ \E w \in Workers :
                  /\ stage[w] = "download" /\ binary' = found[w].tag
                  /\ \A v \in Workers : stage'[v] \notin {"refetch", "download"}
                  /\ UNCHANGED <<releases, running>>
<1>1. /\ stage \in [Workers -> {"idle", "lock", "refetch", "download", "restart"}]
      /\ \A w \in Workers : (holder = w) <=> stage[w] \in {"refetch", "download"}
    BY DEF UpdaterTypes, UpdaterTypeOK
<1> USE DEF Proceed, locals, github
<1>2. ASSUME NEW w \in Workers, Download(w)
      PROVE  \/ binary' = binary /\ running' = running
             \/ /\ stage[w] = "download" /\ binary' = found[w].tag
                /\ \A v \in Workers : stage'[v] \notin {"refetch", "download"}
                /\ UNCHANGED <<releases, running>>
    BY <1>1, <1>2 DEF Download
<1>3. ASSUME NEW w \in Workers, Check(w) \/ Refetch(w) \/ Restart(w)
      PROVE  binary' = binary /\ (running' = running \/ running' = binary)
    BY <1>3 DEF Check, Refetch, Restart, Replaced
<1>4. ASSUME \/ Tick \/ Crash \/ UNCHANGED updaterVars
             \/ \E w \in Requests, chan \in Channels, forced \in Forces : Apply(w, chan, forced)
             \/ \E release \in Catalog : Publish(release)
             \/ \E i \in 1 .. Len(releases) : Upload(i) \/ Withdraw(i)
      PROVE  binary' = binary /\ (running' = running \/ running' = binary)
    BY <1>4 DEF Tick, Crash, Replaced, updaterVars, Apply, Publish, Upload, Withdraw
<1> QED
    BY <1>2, <1>3, <1>4 DEF UpdaterNext, UpdateStep

(* A request names the one channel there is, and forces only if some may. *)
LEMMA OptionsStay ==
    ASSUME OneWay, UpdaterTypes, [UpdaterNext]_updaterVars, NEW v \in Workers,
           channel[v] = Channel, force[v] => TRUE \in Forces
    PROVE  channel'[v] = Channel /\ (force'[v] => TRUE \in Forces)
<1>1. channel \in [Workers -> {"stable", "candidate"}] /\ force \in [Workers -> BOOLEAN]
    BY DEF UpdaterTypes, UpdaterTypeOK
<1>2. CASE Tick
    BY <1>1, <1>2 DEF Tick
<1>3. ASSUME NEW w \in Requests, NEW chan \in Channels, NEW forced \in Forces,
             Apply(w, chan, forced)
      PROVE  channel'[v] = Channel /\ (force'[v] => TRUE \in Forces)
    <2>1. chan = Channel /\ (forced => TRUE \in Forces)
        BY UpdaterFlagAssumption DEF OneWay
    <2> QED
        BY <1>1, <1>3, <2>1 DEF Apply
<1>4. ASSUME \/ Crash \/ UNCHANGED updaterVars
             \/ \E w \in Workers : UpdateStep(w)
             \/ \E release \in Catalog : Publish(release)
             \/ \E i \in 1 .. Len(releases) : Upload(i) \/ Withdraw(i)
      PROVE  channel' = channel /\ force' = force
    BY <1>4 DEF Crash, Replaced, updaterVars, UpdateStep, Check, Refetch, Download, Restart,
                Publish, Upload, Withdraw, locals
<1> QED
    BY <1>2, <1>3, <1>4 DEF UpdaterNext

LEMMA ForwardInit == UpdaterInit => ForwardInv
<1> SUFFICES ASSUME UpdaterInit PROVE ForwardInv
    OBVIOUS
<1>1. UpdaterTypes
    BY UpdaterTypesInit
<1>2. Len(releases) = 0 /\ binary = Start /\ running = Start
    BY DEF UpdaterInit
<1>3. \A w \in Workers : stage[w] = "idle" /\ channel[w] = Channel /\ ~force[w]
    BY DEF UpdaterInit, Idle
<1>4. Sorted /\ Installed
    BY <1>2 DEF Sorted, Installed
<1>5. \A w \in Workers : Ahead(w)
    BY <1>3 DEF Ahead
<1> QED
    BY <1>1, <1>4, <1>5 DEF ForwardInv

(* Where the check lets an Install go on, there is something newer than the
   first agent, unless a release is installed already. *)
LEMMA WantedRises ==
    ASSUME OneWay, ForwardInv, NEW v \in Workers, Wanted(v)
    PROVE  \/ binary \in Admitted(Channel)
           \/ \E t \in Admitted(Channel) : UpdateAvailable(Start, t)
<1>1. channel[v] = Channel /\ (force[v] => TRUE \in Forces) /\ UpdaterTypes /\ Sorted
    BY DEF ForwardInv, Ahead
<1>2. Candidates(Channel) # {}
    BY <1>1 DEF Wanted
<1>3. Offered(Channel).tag \in Admitted(Channel) /\ Offered(Channel) \in Catalog
    BY <1>1, <1>2, OfferedIsNewest, OfferedIsAdmitted DEF OneWay
<1>4. CASE force[v]
    BY <1>1, <1>3, <1>4 DEF OneWay
<1>5. CASE ~force[v]
    <2>1. UpdateAvailable(running, Offered(Channel).tag)
        BY <1>1, <1>5 DEF Wanted
    <2> QED
        BY <2>1, <1>3 DEF ForwardInv, Installed
<1> QED
    BY <1>4, <1>5

(* Whatever the second query answers is not older than the binary. *)
LEMMA FetchedIsNotOlder ==
    ASSUME OneWay, ForwardInv, NEW v \in Workers, stage[v] = "refetch",
           Candidates(Channel) # {}
    PROVE  NotOlder(binary, Offered(Channel).tag)
<1>1. InOrder /\ UpdaterTypes /\ Sorted /\ Installed /\ Ahead(v)
    BY DEF ForwardInv, OneWay
<1>2. /\ Offered(Channel).tag \in Admitted(Channel)
      /\ \A t \in Admitted(Channel) : NotOlder(t, Offered(Channel).tag)
    BY <1>1, OfferedIsNewest
<1>3. CASE binary \in Admitted(Channel)
    BY <1>2, <1>3
<1>4. CASE binary \notin Admitted(Channel)
    <2>1. PICK t \in Admitted(Channel) : UpdateAvailable(Start, t)
        BY <1>1, <1>4 DEF Ahead
    <2>2. t \in SemverTag /\ Offered(Channel).tag \in SemverTag
        BY <2>1, <1>1, <1>2, AdmittedAreSemver
    <2>3. UpdateAvailable(Start, Offered(Channel).tag)
        BY <2>1, <2>2, <1>2, CatalogAssumption, NewerStill
    <2> QED
        BY <2>3, <1>1, <1>4 DEF Installed, NotOlder
<1> QED
    BY <1>3, <1>4

LEMMA ForwardStep == OneWay /\ ForwardInv /\ [UpdaterNext]_updaterVars => ForwardInv'
<1> SUFFICES ASSUME OneWay, ForwardInv, [UpdaterNext]_updaterVars PROVE ForwardInv'
    OBVIOUS
<1>1. InOrder /\ UpdaterTypes /\ Sorted /\ Installed /\ UpdaterTypes'
    BY UpdaterTypesStep DEF ForwardInv, OneWay
<1>2. /\ Sorted' /\ \A t \in Admitted(Channel) : t \in Admitted(Channel)'
      /\ releases' = releases \/ UNCHANGED <<binary, running, stage, channel, force, found>>
    BY <1>1, ReleasesAscend
<1>3. \A w \in Workers : Ahead(w)
    BY DEF ForwardInv
<1>4. Installed'
    <2>1. CASE binary' = binary /\ (running' = running \/ running' = binary)
        BY <2>1, <1>1, <1>2 DEF Installed
    <2>2. ASSUME NEW w \in Workers, stage[w] = "download", binary' = found[w].tag
          PROVE  Installed'
        BY <2>2, <1>2, <1>3 DEF Installed, Ahead
    <2> QED
        BY <2>1, <2>2, <1>1, BinaryMoves
<1>5. ASSUME NEW v \in Workers
      PROVE  Ahead(v)'
    <2>1. channel'[v] = Channel /\ (force'[v] => TRUE \in Forces)
        BY <1>1, <1>3, OptionsStay DEF Ahead
    <2>2. CASE \E w \in Workers :
                  /\ stage[w] = "download" /\ binary' = found[w].tag
                  /\ \A u \in Workers : stage'[u] \notin {"refetch", "download"}
                  /\ UNCHANGED <<releases, running>>
        BY <2>1, <2>2 DEF Ahead
    <2>3. ASSUME binary' = binary, UNCHANGED <<stage[v], found[v]>>
          PROVE  Ahead(v)'
        BY <2>1, <2>3, <1>2, <1>3 DEF Ahead
    <2>4. CASE stage'[v] \in {"idle", "lock", "restart"}
        BY <2>1, <2>4 DEF Ahead
    <2>5. CASE /\ Wanted(v) /\ stage'[v] = "refetch"
               /\ UNCHANGED <<releases, binary, running, channel[v], force[v]>>
        <3>1. \/ binary \in Admitted(Channel)
              \/ \E t \in Admitted(Channel) : UpdateAvailable(Start, t)
            BY <2>5, WantedRises
        <3> QED
            BY <3>1, <2>1, <2>5, <1>2 DEF Ahead
    <2>6. CASE /\ stage[v] = "refetch" /\ stage'[v] = "download"
               /\ Candidates(channel[v]) # {} /\ found'[v] = Offered(channel[v])
               /\ UNCHANGED <<releases, binary, running, channel[v], force[v]>>
        <3>1. channel[v] = Channel
            BY <1>3 DEF Ahead
        <3>2. Offered(Channel).tag \in Admitted(Channel)
            BY <2>6, <3>1, <1>1, OfferedIsNewest
        <3>3. NotOlder(binary, Offered(Channel).tag)
            BY <2>6, <3>1, FetchedIsNotOlder
        <3> QED
            BY <2>1, <2>6, <3>1, <3>2, <3>3, <1>2 DEF Ahead
    <2> QED
        BY <2>2, <2>3, <2>4, <2>5, <2>6, <1>1, InstallMoves, BinaryMoves
<1> QED
    BY <1>1, <1>2, <1>4, <1>5 DEF ForwardInv

(* Whatever the daily check and the requests do at once, forced or not, the
   binary is only ever replaced by a newer one (config.md:142, "installs newer
   releases"): on one channel, as long as releases come in order and stay, and
   an update is forced only where every release is newer than the first agent
   (update.go:148-179, handler/update.go:42-72). *)
THEOREM BinaryNeverGoesBack == OneWay => (UpdaterSpec => NeverBack)
<1> SUFFICES ASSUME OneWay PROVE UpdaterSpec => NeverBack
    OBVIOUS
<1>1. ForwardInv /\ [UpdaterNext]_updaterVars => ForwardInv'
    BY ForwardStep
<1>2. ForwardInv /\ [UpdaterNext]_updaterVars =>
          [binary' # binary => UpdateAvailable(binary, binary')]_updaterVars
    <2> SUFFICES ASSUME ForwardInv, [UpdaterNext]_updaterVars, binary' # binary
                 PROVE  UpdateAvailable(binary, binary')
        OBVIOUS
    <2>1. PICK w \in Workers : stage[w] = "download" /\ binary' = found[w].tag
        BY BinaryMoves DEF ForwardInv
    <2> QED
        BY <2>1 DEF ForwardInv, Ahead, NotOlder
<1> QED
    BY <1>1, <1>2, ForwardInit, PTL DEF UpdaterSpec, NeverBack

-----------------------------------------------------------------------------
(***************************************************************************)
(* BackupInstall, for every kind of node, set of faults and number of      *)
(* them.                                                                   *)
(***************************************************************************)
USE DEF disk, server, memory, ghosts, Goto

(* A fault stays within the bound on faults. *)
LEMMA FaultCounted ==
    ASSUME NEW kind, faults \in 0 .. MaxFaults, Fault(kind)
    PROVE  faults' \in 0 .. MaxFaults
    BY FlagAssumption DEF Fault

(* The agent starts well typed (Init, NewBackupManager). *)
LEMMA InstallTypeInit == Init => TypeOK
<1> SUFFICES ASSUME Init PROVE TypeOK
    OBVIOUS
<1>1. faults \in 0 .. MaxFaults
    BY FlagAssumption DEF Init
<1>2. legacy \subseteq LegacyFiles
    BY DEF Init
<1>3. stateFile \in {"absent", "broken", "ok"} /\ configFile \in {"none", "broken", "complete"}
    BY DEF Init
<1>4. repo \in {"missing", "empty", "full"} /\ known \in BOOLEAN
    BY Zenon DEF Init
<1> QED
    BY <1>1, <1>2, <1>3, <1>4, Zenon DEF Init, TypeOK

(* A step of the boot sequence keeps the types (main, MigrateLegacy,
   SyncStateIntoConfig, Run). *)
LEMMA BootTyped == TypeOK /\ BootStep => TypeOK'
<1> SUFFICES ASSUME TypeOK, BootStep PROVE TypeOK'
    OBVIOUS
<1> USE FaultCounted DEF TypeOK
<1>1. CASE Boot             BY <1>1 DEF Boot
<1>2. CASE MigrateLegacy    BY <1>2 DEF MigrateLegacy
<1>3. CASE MigrateWrite
    <2>1. faults' \in 0 .. MaxFaults
        BY <1>3 DEF MigrateWrite
    <2>2. state' \in BOOLEAN /\ enabled' \in BOOLEAN
        BY <1>3, Zenon DEF MigrateWrite
    <2> QED
        BY <2>1, <2>2, <1>3 DEF MigrateWrite
<1>4. CASE UninstallLegacy  BY <1>4 DEF UninstallLegacy
<1>5. CASE SaveMigrated     BY <1>5 DEF SaveMigrated, SaveConfig
<1>6. CASE WriteMigrated    BY <1>6 DEF WriteMigrated, WriteConfig
<1>7. CASE SkipFold         BY <1>7 DEF SkipFold
<1>8. CASE Fold             BY <1>8 DEF Fold, SaveConfig
<1>9. CASE WriteFold        BY <1>9 DEF WriteFold, WriteConfig
<1>10. CASE RetireState     BY <1>10 DEF RetireState
<1>11. CASE Run
    <2>1. loop' \in BOOLEAN /\ unserved' \in BOOLEAN
        BY <1>11, Zenon DEF Run, Unserved
    <2> QED
        BY <2>1, <1>11 DEF Run
<1> QED
    BY <1>1, <1>2, <1>3, <1>4, <1>5, <1>6, <1>7, <1>8, <1>9, <1>10, <1>11 DEF BootStep

(* A step of an install keeps the types (Install and what it calls). *)
LEMMA InstallTyped == TypeOK /\ InstallStep => TypeOK'
<1> SUFFICES ASSUME TypeOK, InstallStep PROVE TypeOK'
    OBVIOUS
<1> USE FaultCounted DEF TypeOK
<1>1. CASE Install            BY <1>1 DEF Install
<1>2. CASE CreateRepo
    <2>1. faults' \in 0 .. MaxFaults
        BY <1>2 DEF CreateRepo
    <2> QED
        BY <2>1, <1>2 DEF CreateRepo, Fault
<1>3. CASE InitialPush
    <2>1. faults' \in 0 .. MaxFaults
        BY <1>3 DEF InitialPush
    <2>2. unpushed' \in BOOLEAN
        BY <1>3, Zenon DEF InitialPush
    <2> QED
        BY <2>1, <2>2, <1>3 DEF InitialPush
<1>4. CASE RestoreExisting
    <2>1. faults' \in 0 .. MaxFaults
        BY <1>4 DEF RestoreExisting
    <2>2. unpushed' \in BOOLEAN /\ discarded' \in BOOLEAN
        BY <1>4, Zenon DEF RestoreExisting
    <2> QED
        BY <2>1, <2>2, <1>4 DEF RestoreExisting
<1>5. CASE OverwriteExisting
    <2>1. faults' \in 0 .. MaxFaults
        BY <1>5 DEF OverwriteExisting
    <2>2. unpushed' \in BOOLEAN
        BY <1>5, Zenon DEF OverwriteExisting
    <2> QED
        BY <2>1, <2>2, <1>5 DEF OverwriteExisting
<1>6. CASE KeepState
    <2>1. faults' \in 0 .. MaxFaults
        BY <1>6 DEF KeepState
    <2> QED
        BY <2>1, <1>6 DEF KeepState, Fault
<1>7. CASE WriteState
    <2>1. faults' \in 0 .. MaxFaults
        BY <1>7 DEF WriteState
    <2>2. known' \in BOOLEAN
        BY <1>7, Zenon DEF WriteState
    <2> QED
        BY <2>1, <2>2, <1>7 DEF WriteState
<1> QED
    BY <1>1, <1>2, <1>3, <1>4, <1>5, <1>6, <1>7 DEF InstallStep

(* Every step of the backup manager keeps the types. *)
LEMMA InstallTypeStep == TypeOK /\ [Next]_vars => TypeOK'
<1> SUFFICES ASSUME TypeOK, [Next]_vars PROVE TypeOK'
    OBVIOUS
<1>1. CASE BootStep     BY <1>1, BootTyped
<1>2. CASE InstallStep  BY <1>2, InstallTyped
<1>3. CASE Bootstrap    BY <1>3 DEF TypeOK, Bootstrap
<1>4. CASE SyncTick     BY <1>4 DEF TypeOK, SyncTick, Sync
<1>5. CASE SyncRequest  BY <1>5 DEF TypeOK, SyncRequest, Sync
<1>6. CASE LocalEdit    BY <1>6 DEF TypeOK, LocalEdit
<1>7. CASE AgentRestart      BY <1>7, FaultCounted DEF TypeOK, AgentRestart
<1>8. ASSUME NEW action \in Actions, InstallRequest(action) PROVE TypeOK'
    BY <1>8, ActionAssumption DEF TypeOK, InstallRequest
<1>9. CASE UNCHANGED vars  BY <1>9 DEF TypeOK, vars
<1> QED
    BY <1>1, <1>2, <1>3, <1>4, <1>5, <1>6, <1>7, <1>8, <1>9 DEF Next

(* Type correctness of the backup manager and of its disk and server. *)
THEOREM InstallTypeCorrect == Spec => []TypeOK
    BY InstallTypeInit, InstallTypeStep, PTL DEF Spec

-----------------------------------------------------------------------------
(* The node starts with the credentials it is known by (NewBackupManager). *)
LEMMA CredentialsInit == Init => CredentialsInv
<1> SUFFICES ASSUME Init PROVE CredentialsInv
    OBVIOUS
<1>1. StateIsOnDisk
    BY DEF Init, StateIsOnDisk
<1>2. CredentialsKept
    <2>1. PICK node \in Nodes :
              /\ stateFile = IF node = "installed" THEN "ok" ELSE "absent"
              /\ configFile = IF node \in {"moved", "preset"} THEN "complete" ELSE "none"
              /\ legacy = IF node = "legacy" THEN LegacyFiles ELSE {}
              /\ known = (node # "fresh")
        BY Zenon DEF Init
    <2>2. CASE node = "fresh"
        BY <2>1, <2>2, Zenon DEF CredentialsKept
    <2>3. CASE node # "fresh"
        BY <2>1, <2>3, NodeAssumption DEF CredentialsKept, LegacyFiles
    <2> QED
        BY <2>2, <2>3
<1> QED
    BY <1>1, <1>2 DEF CredentialsInv

(* The boot sequence never gives up the last copy: the old configuration goes
   after backup.yaml is written, backup.yaml after config.yaml is. *)
LEMMA BootKeepsCredentials ==
    TypeOK /\ CredentialsInv /\ BootStep => CredentialsInv'
<1> SUFFICES ASSUME TypeOK, CredentialsInv, BootStep PROVE CredentialsInv'
    OBVIOUS
<1> USE DEF TypeOK, CredentialsInv, CredentialsKept, StateIsOnDisk
<1>1. CASE Boot             BY <1>1 DEF Boot
<1>2. CASE MigrateLegacy    BY <1>2 DEF MigrateLegacy
<1>3. CASE MigrateWrite     BY <1>3 DEF MigrateWrite
<1>4. CASE UninstallLegacy  BY <1>4 DEF UninstallLegacy
<1>5. CASE SaveMigrated     BY <1>5 DEF SaveMigrated, SaveConfig
<1>6. CASE WriteMigrated    BY <1>6 DEF WriteMigrated, WriteConfig
<1>7. CASE SkipFold         BY <1>7 DEF SkipFold
<1>8. CASE Fold             BY <1>8 DEF Fold, SaveConfig
<1>9. CASE WriteFold        BY <1>9 DEF WriteFold, WriteConfig
<1>10. CASE RetireState     BY <1>10 DEF RetireState
<1>11. CASE Run             BY <1>11 DEF Run
<1> QED
    BY <1>1, <1>2, <1>3, <1>4, <1>5, <1>6, <1>7, <1>8, <1>9, <1>10, <1>11 DEF BootStep

(* An install touches the credentials only when it writes backup.yaml
   (Install, writeState). *)
LEMMA InstallKeepsCredentials ==
    TypeOK /\ CredentialsInv /\ InstallStep => CredentialsInv'
<1> SUFFICES ASSUME TypeOK, CredentialsInv, InstallStep PROVE CredentialsInv'
    OBVIOUS
<1> USE DEF CredentialsInv, CredentialsKept, StateIsOnDisk
<1>1. CASE Install            BY <1>1 DEF TypeOK, Install
<1>2. CASE CreateRepo         BY <1>2 DEF CreateRepo
<1>3. CASE InitialPush        BY <1>3 DEF InitialPush
<1>4. CASE RestoreExisting    BY <1>4 DEF RestoreExisting
<1>5. CASE OverwriteExisting  BY <1>5 DEF OverwriteExisting
<1>6. CASE KeepState          BY <1>6 DEF KeepState
<1>7. CASE WriteState         BY <1>7 DEF WriteState
<1> QED
    BY <1>1, <1>2, <1>3, <1>4, <1>5, <1>6, <1>7 DEF InstallStep

(* Every step of the backup manager keeps the credentials. *)
LEMMA CredentialsStep ==
    TypeOK /\ CredentialsInv /\ [Next]_vars => CredentialsInv'
<1> SUFFICES ASSUME TypeOK, CredentialsInv, [Next]_vars PROVE CredentialsInv'
    OBVIOUS
<1>1. CASE BootStep     BY <1>1, BootKeepsCredentials
<1>2. CASE InstallStep  BY <1>2, InstallKeepsCredentials
<1> USE DEF CredentialsInv, CredentialsKept, StateIsOnDisk
<1>3. CASE Bootstrap    BY <1>3 DEF Bootstrap
<1>4. CASE SyncTick     BY <1>4 DEF SyncTick, Sync
<1>5. CASE SyncRequest  BY <1>5 DEF SyncRequest, Sync
<1>6. CASE LocalEdit    BY <1>6 DEF LocalEdit
<1>7. CASE AgentRestart      BY <1>7 DEF AgentRestart
<1>8. ASSUME NEW action \in Actions, InstallRequest(action) PROVE CredentialsInv'
    BY <1>8 DEF InstallRequest
<1>9. CASE UNCHANGED vars  BY <1>9 DEF vars
<1> QED
    BY <1>1, <1>2, <1>3, <1>4, <1>5, <1>6, <1>7, <1>8, <1>9 DEF Next

(* Credentials once safely on disk are never lost by the migration of a shell
   installation, by the fold into config.yaml or by a crash inside either. *)
THEOREM CredentialsAlwaysKept == Spec => []CredentialsKept
<1>1. CredentialsInv => CredentialsKept
    BY DEF CredentialsInv
<1> QED
    BY <1>1, CredentialsInit, CredentialsStep, InstallTypeCorrect, PTL DEF Spec
=============================================================================
