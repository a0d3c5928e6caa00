------------------------------- MODULE Semver -------------------------------
(***************************************************************************)
(* Version numbers and version requests of the package manager             *)
(* (src/package_manager.cpp).  A version is three numbers; a request is    *)
(* exact, a caret range, a tilde range or "any".  Matches is what the code *)
(* computes, from upper bounds; Compatible says what the two kinds of      *)
(* range are for, from the components a range fixes, and is the reference  *)
(* that Matches is proved and checked against.  The numbers are unbounded  *)
(* here: the code parses them into an int and does not look for overflow.  *)
(***************************************************************************)
EXTENDS Integers

Version == [major : Nat, minor : Nat, patch : Nat]

V(x, y, z) == [major |-> x, minor |-> y, patch |-> z]

Kinds == {"any", "exact", "caret", "tilde"}

Request == [kind : Kinds, base : Version]

(* compareSemverVersion(v, w) < 0. *)
Before(v, w) ==
    \/ v.major < w.major
    \/ v.major = w.major /\ v.minor < w.minor
    \/ v.major = w.major /\ v.minor = w.minor /\ v.patch < w.patch

MutCaretIgnoresMinor(b) ==
    IF b.major > 0 THEN V(b.major + 1, 0, 0) ELSE V(1, 0, 0)

NextCaretUpperBound(b) ==
    IF b.major > 0 THEN V(b.major + 1, 0, 0)
    ELSE IF b.minor > 0 THEN V(0, b.minor + 1, 0)
    ELSE V(0, 0, b.patch + 1)

NextTildeUpperBound(b) == V(b.major, b.minor + 1, 0)

Matches(v, r) ==
    \/ r.kind = "any"
    \/ r.kind = "exact" /\ v = r.base
    \/ r.kind = "caret" /\ ~Before(v, r.base) /\ Before(v, NextCaretUpperBound(r.base))
    \/ r.kind = "tilde" /\ ~Before(v, r.base) /\ Before(v, NextTildeUpperBound(r.base))

-----------------------------------------------------------------------------
(* A caret range lets everything right of the leftmost component that is   *)
(* not zero grow; a tilde range lets only the patch grow.                   *)
SameUpToLeftmost(v, b) ==
    IF b.major > 0 THEN v.major = b.major
    ELSE IF b.minor > 0 THEN v.major = 0 /\ v.minor = b.minor
    ELSE v = b

Compatible(v, r) ==
    \/ r.kind = "any"
    \/ r.kind = "exact" /\ v = r.base
    \/ r.kind = "caret" /\ SameUpToLeftmost(v, r.base) /\ ~Before(v, r.base)
    \/ r.kind = "tilde" /\ v.major = r.base.major /\ v.minor = r.base.minor
                        /\ v.patch >= r.base.patch

(* The newest of a non-empty set of versions. *)
Newest(S) == CHOOSE v \in S : \A w \in S : ~Before(v, w)
=============================================================================
