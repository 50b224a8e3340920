--------------------------- MODULE MCSecureString ---------------------------
(* Two letters and an array of six characters: every text of up to five,    *)
(* so that every operation meets a full buffer and three cells.             *)
EXTENDS SecureString

CONSTANTS a, b

MCLetters == {a, b}
MCWords == {<<a>>, <<a, b>>, <<b, b, a, a, b, a>>}
=============================================================================
