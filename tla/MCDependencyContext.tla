-------------------------- MODULE MCDependencyContext --------------------------
(* Two npm packages of one repository on GitHub and an artifact of Maven     *)
(* Central.                                                                *)
EXTENDS DependencyContext

CONSTANTS a, b

MCRepoOf == [n \in NpmNames |-> "acme/mono"]

MCPublished == {Places(a, "1")[3]}

Symmetry == Permutations({a, b})
=============================================================================
