---------------------------- MODULE VersionOrder ----------------------------
(***************************************************************************)
(* The order of versions: Ord for Version and compare_prerelease of        *)
(* emela-pome/src/version.rs.  VersionSelection, which takes versions for  *)
(* numbers, and every "largest version" of the package manager rest on it  *)
(* being a total order.                                                    *)
(*                                                                         *)
(* A character is a number that is ordered like its byte; 0 is '-', which  *)
(* is below the digits, 1..NDigits are the digits, and what is above is a  *)
(* letter.  An identifier is a sequence of characters.                     *)
(***************************************************************************)
EXTENDS Integers, Sequences

CONSTANTS NDigits, NLetters

ASSUME CharsAssumption == NDigits \in Nat \ {0} /\ NLetters \in Nat

Digits == 1..NDigits
Chars == 0..(NDigits + NLetters)

(* is_numeric: digits without a leading zero.                              *)
IsNumeric(s) ==
  /\ s # <<>> /\ \A i \in DOMAIN s : s[i] \in Digits
  /\ s = <<1>> \/ s[1] # 1

(* is_alphanumeric_id: with at least one character that is not a digit.    *)
IsAlphanumeric(s) == s # <<>> /\ \E i \in DOMAIN s : s[i] \notin Digits

(* The comparisons answer "less", "equal" or "greater".                    *)
Compare(a, b) == IF a < b THEN "less" ELSE IF a > b THEN "greater" ELSE "equal"
Then(o, next) == IF o = "equal" THEN next ELSE o

(* The order of str: the first difference decides, else the length.        *)
CompareText(x, y) ==
  LET short == IF Len(x) < Len(y) THEN Len(x) ELSE Len(y)
      differ == {i \in 1..short : x[i] # y[i]}
  IN  IF differ = {} THEN Compare(Len(x), Len(y))
      ELSE LET i == CHOOSE i \in differ : \A j \in differ : i <= j
           IN  Compare(x[i], y[i])

(* Mutant: numbers compared as text.                                       *)
CompareAsText(x, y) ==
  IF IsNumeric(x) = IsNumeric(y) THEN CompareText(x, y)
  ELSE IF IsNumeric(x) THEN "less" ELSE "greater"

(* One pair of identifiers of compare_prerelease.                          *)
CompareIds(x, y) ==
  IF IsNumeric(x) /\ IsNumeric(y) THEN Then(Compare(Len(x), Len(y)), CompareText(x, y))
  ELSE IF IsNumeric(x) THEN "less"
  ELSE IF IsNumeric(y) THEN "greater"
  ELSE CompareText(x, y)

(* compare_prerelease: a release is above its prereleases; the first pair  *)
(* of identifiers that differs decides, else their number.                 *)
ComparePrerelease(a, b) ==
  LET short == IF Len(a) < Len(b) THEN Len(a) ELSE Len(b)
      differ == {i \in 1..short : CompareIds(a[i], b[i]) # "equal"}
  IN  IF a = <<>> \/ b = <<>> THEN Compare(Len(b), Len(a))
      ELSE IF differ = {} THEN Compare(Len(a), Len(b))
      ELSE LET i == CHOOSE i \in differ : \A j \in differ : i <= j
           IN  CompareIds(a[i], b[i])

(* Version::cmp.  core stands for the three numbers, compared in order.    *)
CompareVersions(v, w) ==
  Then(Compare(v.core, w.core), ComparePrerelease(v.pre, w.pre))

-----------------------------------------------------------------------------
(* The number that a numeric identifier is written for.                    *)
Value(s) ==
  LET value[k \in 0..Len(s)] == IF k = 0 THEN 0 ELSE NDigits * value[k - 1] + (s[k] - 1)
  IN  value[Len(s)]

(* On a set of versions, cmp is a total order that agrees with equality,   *)
(* and numeric identifiers are ordered by their value although only their  *)
(* digits are compared.                                                    *)
TotalOrderOn(V) ==
  /\ \A v \in V, w \in V :
       /\ CompareVersions(v, w) = "equal" <=> v = w
       /\ CompareVersions(v, w) = "less" <=> CompareVersions(w, v) = "greater"
  /\ \A u \in V, v \in V : CompareVersions(u, v) = "less" =>
       \A w \in V : CompareVersions(v, w) = "less" => CompareVersions(u, w) = "less"
NumericByValue(Ids) ==
  \A x \in Ids, y \in Ids :
    IsNumeric(x) /\ IsNumeric(y) => CompareIds(x, y) = Compare(Value(x), Value(y))
=============================================================================
