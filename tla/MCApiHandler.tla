--------------------------- MODULE MCApiHandler ---------------------------
(* Names and their std::stoi for model checking ApiHandler. *)
EXTENDS ApiHandler

T == INSTANCE TLC

\* "x" makes std::stoi throw, "01" is a second spelling of 1.
MCStoiOf(n) ==
    CASE n = "0" -> 0 [] n = "1" -> 1 [] n = "01" -> 1 [] n = "2" -> 2
      [] OTHER -> NotANumber

MCStoi == [n \in Name |-> MCStoiOf(n)]
MCToString == [i \in 1..MaxId |-> IF i = 1 THEN "1" ELSE "2"]

\* An entity by name, and one called by the number of one of its files.
MCEntities == {"shoes", "1"}
MCOneEntity == {"shoes"}

MCFiles == {"1", "2", "x"}
MCNumericFiles == {"0", "1", "2"}
MCTwoSpellings == {"1", "01"}

\* Nothing tells two entities called by model values apart, nor two bodies.
MCSymmetry == T!Permutations(EntityName) \cup T!Permutations(Body)
=============================================================================
