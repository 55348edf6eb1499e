------------------------- MODULE MCVersionSelection -------------------------
(* Instances of VersionSelection for TLC: Pomes 1 and 2 have two versions, *)
(* Pome 3 one, and a version may require any versions of the other Pomes,  *)
(* so that cycles, raised versions and requirements of versions that are   *)
(* not selected all occur.                                                 *)
EXTENDS VersionSelection, VersionOrder

MCPomes == 1..3
MCNodes == {<<1, 1>>, <<1, 2>>, <<2, 1>>, <<2, 2>>, <<3, 1>>}

(* What a Pome.toml may require: at most one version of each other Pome,   *)
(* in the order of the paths.                                              *)
Choice(p) == {<<>>} \cup {<<n>> : n \in {m \in MCNodes : m[1] = p}}
Requirements(S) ==
  {a \o b \o c : a \in IF 1 \in S THEN Choice(1) ELSE {<<>>},
                 b \in IF 2 \in S THEN Choice(2) ELSE {<<>>},
                 c \in IF 3 \in S THEN Choice(3) ELSE {<<>>}}
MCGraphs ==
  {[n \in MCNodes |->
      CASE n = <<1, 1>> -> a [] n = <<1, 2>> -> b [] n = <<2, 1>> -> c
        [] n = <<2, 2>> -> d [] n = <<3, 1>> -> e] :
     a \in Requirements({2, 3}), b \in Requirements({2, 3}),
     c \in Requirements({1, 3}), d \in Requirements({1, 3}),
     e \in Requirements({1, 2})}

(* One dependency, and one that is for the tests only.                     *)
MCRoots == {<< <<<<1, 1>>>>, <<<<2, 2>>>> >>, << <<<<2, 1>>>>, <<<<3, 1>>>> >>}

-----------------------------------------------------------------------------
(* Identifiers of one or two characters: numbers up to two digits, text    *)
(* that begins, ends or does not with a digit.                             *)
Ids == {s \in {<<c>> : c \in Chars} \cup (Chars \X Chars) : IsNumeric(s) \/ IsAlphanumeric(s)}
SomeIds == {s \in Ids : Len(s) = 1 \/ s[1] # 0}
SomeVersions ==
  [core : 1..2, pre : {<<>>} \cup {<<i>> : i \in SomeIds}]
    \cup [core : {1}, pre : {<<i, j>> : i \in {<<1>>, <<2, 1>>, <<4>>}, j \in SomeIds}]

TotalOrder == TotalOrderOn(SomeVersions) /\ NumericByValue(Ids)

(* The largest version that a resolution selects is one and the same,      *)
(* however requirements are compared: Ord for Version is a total order,    *)
(* also between prereleases, numbers and text (compare_prerelease).        *)
LargestIsUnique == phase = "done" => TotalOrder
=============================================================================
