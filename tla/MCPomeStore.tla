---------------------------- MODULE MCPomeStore ----------------------------
(* An instance of PomeStore for TLC: each version of Pome a requires the   *)
(* same version of b, until its tag moves to content that requires the     *)
(* other version; the second version of b requires the first of a.         *)
EXTENDS PomeStore, TLC

CommandsSymmetry == Permutations(Commands)

MCManifest ==
  [k \in Keys |-> [x \in Contents |->
    IF k[1] = "a" THEN {<<"b", IF x = First THEN k[2] ELSE 1 + MaxVersion - k[2]>>}
    ELSE IF k[2] = MaxVersion THEN {<<"a", 1>>} ELSE {}]]
=============================================================================
