------------------------------- MODULE Semver -------------------------------
(***************************************************************************)
(* The version order of the agent's updater (service/update.go).  A tag is *)
(* a record: "kind" tells a development build, a tag parseSemver accepts   *)
(* and any other string apart, and "pre" is the dot-separated pre-release. *)
(* An identifier is a number or a word; words are ranked as they sort.     *)
(***************************************************************************)
EXTENDS Integers, Sequences

Ident == [num : BOOLEAN, val : Nat]

Tag == [kind : {"dev", "semver", "other"}, major : Nat, minor : Nat, patch : Nat,
        pre : Seq(Ident)]

CompareInt(a, b) == IF a < b THEN -1 ELSE IF a > b THEN 1 ELSE 0

WordsFirst(i, j) ==  \* mutation: the two mixed cases of the switch swapped
    CASE i.num /\ ~j.num -> 1
      [] ~i.num /\ j.num -> -1
      [] OTHER           -> CompareInt(i.val, j.val)

NumberFirst(i, j) ==  \* mutation: the case of two numbers lost
    IF i.num THEN -1 ELSE IF j.num THEN 1 ELSE CompareInt(i.val, j.val)

(* A number sorts before a word. *)
CompareIdent(i, j) ==
    CASE i.num /\ ~j.num -> -1
      [] ~i.num /\ j.num -> 1
      [] OTHER           -> CompareInt(i.val, j.val)

(* The first identifier that differs decides; a prefix sorts first. *)
ComparePrerelease(a, b) ==
    LET differ == {k \in (1 .. Len(a)) \cup (1 .. Len(b)) :
                       k > Len(a) \/ k > Len(b) \/ a[k] # b[k]}
        i == CHOOSE k \in differ : \A l \in differ : k <= l
    IN  CASE differ = {} -> 0
          [] differ # {} /\ i > Len(a) -> -1
          [] differ # {} /\ i > Len(b) -> 1
          [] OTHER -> CompareIdent(a[i], b[i])

(* A release sorts after its pre-releases. *)
Compare(v, w) ==
    CASE v.major # w.major -> CompareInt(v.major, w.major)
      [] v.major = w.major /\ v.minor # w.minor -> CompareInt(v.minor, w.minor)
      [] v.major = w.major /\ v.minor = w.minor /\ v.patch # w.patch ->
            CompareInt(v.patch, w.patch)
      [] OTHER -> CASE v.pre = w.pre -> 0
                    [] v.pre = << >> /\ w.pre # << >> -> 1
                    [] v.pre # << >> /\ w.pre = << >> -> -1
                    [] OTHER -> ComparePrerelease(v.pre, w.pre)

(* Anything replaces a development build; tags that are no versions are only
   compared for equality. *)
UpdateAvailable(current, latest) ==
    \/ current.kind = "dev"
    \/ /\ current # latest
       /\ current.kind = "semver" /\ latest.kind = "semver" => Compare(current, latest) < 0
=============================================================================
