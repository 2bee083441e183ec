----------------------------- MODULE MCApiSteps -----------------------------
(* Names and their std::stoi for model checking ApiSteps. *)
EXTENDS ApiSteps

T == INSTANCE TLC

MCStoiOf(n) == CASE n = "1" -> 1 [] n = "2" -> 2 [] n = "9" -> 9 [] OTHER -> NotANumber

MCStoi == [n \in Name |-> MCStoiOf(n)]
MCToString == [i \in 1..MaxId |-> IF i = 1 THEN "1" ELSE "2"]

MCOneEntity == {"shoes"}
\* An entity by name, and one called by a number that is no file's id.
MCTwoEntities == {"shoes", "9"}

\* Bound: with one runner the entities are looked at one at a time.
OneDirectory == \A d, e \in dirs : d = e

MCFiles == {"1", "2", "x"}
MCNumericFiles == {"1", "2"}

\* Nothing tells two threads apart.
MCSymmetry == T!Permutations(Runner)
=============================================================================
