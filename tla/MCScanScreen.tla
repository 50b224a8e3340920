---------------------------- MODULE MCScanScreen ----------------------------
(***************************************************************************)
(* ScanScreen with volumes of up to two files, out of two transactions, a  *)
(* result and a hidden file that came on the stick, and what the kiosk     *)
(* saves, under a name of every kind that sanitiseFileName() tells apart,  *)
(* or under one of two that are proposed.                                  *)
(***************************************************************************)
EXTENDS ScanScreen

MCForeignNames ==
    {<<"a", ".", "psbt">>, <<"c", ".", "psbt">>, <<"signed_", "a", ".", "psbt">>,
     <<".", "a", ".", "psbt">>}

MCCandidates == <<<<"signed_", ".", "psbt">>, <<"signed_", "-2", ".", "psbt">>>>

MCTexts ==
    {<<"b">>, <<"b", ".", "psbt">>, <<" ", ".", "b", ".", " ">>, <<"b", ".", "txt">>,
     <<"/", "/">>, <<"?", " ", ".", "b">>,
     <<"/", " ", "?", ".", "b">>}

MCRank ==
    LET Order == <<<<".", "a", ".", "psbt">>, <<".", "b">>, <<".", "b", ".", "psbt">>,
                   <<"a", ".", "psbt">>, <<"b", ".", "psbt">>,
                   <<"b", ".", "txt">>, <<"b", ".", "txt", ".", "psbt">>,
                   <<"c", ".", "psbt">>, <<"signed_", "-2", ".", "psbt">>,
                   <<"signed_", ".", "psbt">>, <<"signed_", "a", ".", "psbt">>>>
    IN  [n \in ToSet(Order) |-> CHOOSE i \in DOMAIN Order : Order[i] = n]
=============================================================================
