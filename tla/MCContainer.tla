------------------------------ MODULE MCContainer ------------------------------
(* Two files and chunks of one and two units, so that a hole may be split, *)
(* outgrown or shared.  Names are interchangeable.                         *)
EXTENDS Container, TLC

CONSTANTS fileA, fileB

MCNames == {fileA, fileB}
NameSymmetry == Permutations(MCNames)
==============================================================================
