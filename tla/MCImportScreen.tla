--------------------------- MODULE MCImportScreen ---------------------------
(* Two words of which one is the beginning of the other, with a letter row  *)
(* between them that is no word; rows of one and of two words of which some *)
(* have a checksum that adds up.                                            *)
EXTENDS ImportScreen

CONSTANTS a, x

MCLetters == {a}
MCLexicon == {<<a>>, <<a, a, a>>}
MCMnemonics == {<< <<a>> >>, << <<a>>, <<a, a, a>> >>, << <<a, a, a>>, <<a>> >>}
MCWordCounts == {1, 2}
MCCharacters == {x}
=============================================================================
