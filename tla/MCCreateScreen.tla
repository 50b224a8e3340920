--------------------------- MODULE MCCreateScreen ---------------------------
(* One word that is the beginning of the other ("act" and "action"), so     *)
(* that a cell can be right, half typed and wrong; one and two words to     *)
(* write down, so that a grid shrinks and grows between two seeds.          *)
EXTENDS CreateScreen

CONSTANTS a, x

MCLetters == {a}
MCLexicon == {<<a>>, <<a, a>>}
MCWordCounts == {1, 2}
MCCharacters == {x}
=============================================================================
