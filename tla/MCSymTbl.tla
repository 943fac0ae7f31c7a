------------------------------- MODULE MCSymTbl --------------------------------
(***************************************************************************)
(* An instance of Lookup, and with it SymTbl, for TLC.  Characters keep the *)
(* order of their codes: '+' is 1, the digits are 2, '@' is 3, the letters  *)
(* are 4 and 5.                                                             *)
(***************************************************************************)
EXTENDS Lookup, TLC

CONSTANTS h1, h2, h3

\* The names of the run are as NamesFound wants them.
ASSUME NamesUnshadowed == Unshadowed

Plus == <<1>>
\* a, a@b, aa
LetterNames == {<<4>>, <<4, 3, 5>>, <<4, 4>>}
ThreeAddresses == {1, 2, 3}
ThreeRecords == {h1, h2, h3}
\* Nothing tells one address of a record from another.
RecordSymmetry == Permutations(ThreeRecords)
\* Segments below and above the middle.
TwoChunks == {{1, 2}, {3}}
\* "^a@|^aa"
Longer == {<<4, 3, 5>>, <<4, 4>>}
=============================================================================
