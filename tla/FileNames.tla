----------------------------- MODULE FileNames -----------------------------
(***************************************************************************)
(* Names on the data partition (core/psbt_engine.cpp): the one a file gets *)
(* for what the operator typed, the one that is proposed, and which files  *)
(* the list shows, in which order.                                         *)
(*                                                                         *)
(* A name is a sequence of marks.  A mark is a character of its own where  *)
(* the code looks for it; anything else is a mark for itself, letters and  *)
(* digits that stay together as one.                                       *)
(***************************************************************************)
EXTENDS Naturals, SequencesExt, Ordering

Slash == "/"
Dot == "."
Blank == " "
Unwanted == {"\\", ":", "*", "?", "\"", "<", ">", "|"}
PsbtSuffix == <<Dot, "psbt">>
SignedPrefix == "signed_"

(* What is left of s when marks of M are taken off its front, off its back, *)
(* or wherever they are.                                                    *)
DropFront(s, M) ==
    LET keep == {i \in DOMAIN s : s[i] \notin M}
    IN  IF keep = {} THEN <<>> ELSE SubSeq(s, Min(keep), Len(s))
DropBack(s, M) ==
    LET keep == {i \in DOMAIN s : s[i] \notin M}
    IN  IF keep = {} THEN <<>> ELSE SubSeq(s, 1, Max(keep))
Without(s, M) == AtPlaces(s, {i \in DOMAIN s : s[i] \notin M})

HasSuffix(name, suffix) ==
    /\ Len(name) > Len(suffix)
    /\ SubSeq(name, Len(name) - Len(suffix) + 1, Len(name)) = suffix

AfterLastSlash(s) == SubSeq(s, SelectLastInSeq(s, LAMBDA c : c = Slash) + 1, Len(s))

(* QString::trimmed(), which the save-as page applies to what was typed.    *)
Trimmed(s) == DropFront(DropBack(s, {Blank}), {Blank})

(* sanitiseFileName() up to the suffix.                                     *)
Cleaned(text) ==
    LET base == Without(AfterLastSlash(text), Unwanted)
        dotless == DropFront(base, {Dot})
    IN  DropFront(DropBack(dotless, {Blank, Dot}), {Blank})

(* A mutant of Sanitised: the suffix is only added to a name without a dot. *)
SanitisedLoosely(text, suffix) ==
    LET out == Cleaned(text)
    IN  IF out = <<>> \/ Dot \in ToSet(out) THEN out ELSE out \o suffix

(* sanitiseFileName(): nothing, if nothing usable is left.                  *)
Sanitised(text, suffix) ==
    LET out == Cleaned(text)
    IN  IF out = <<>> \/ HasSuffix(out, suffix) THEN out ELSE out \o suffix

(* freeFileName(): the first of the candidates that is not taken; the last  *)
(* one is not looked at.                                                    *)
FreeName(candidates, taken) ==
    LET free == {i \in 1..Len(candidates) - 1 : candidates[i] \notin taken}
    IN  candidates[IF free = {} THEN Len(candidates) ELSE Min(free)]

(* listPsbtFiles()                                                          *)
IsPsbtName(name) == name # <<>> /\ Head(name) # Dot /\ HasSuffix(name, PsbtSuffix)

IsSignerOutput(name) == Head(name) = SignedPrefix

(* Inputs first, then the newest; the rest is the alphabet's.               *)
Listed(files, rank) ==
    LET shown == {n \in DOMAIN files : IsPsbtName(n)}
        Before(m, n) ==
            \/ ~IsSignerOutput(m) /\ IsSignerOutput(n)
            \/ /\ IsSignerOutput(m) = IsSignerOutput(n)
               /\ \/ files[m] > files[n]
                  \/ files[m] = files[n] /\ rank[m] < rank[n]
    IN  InOrder(shown, {p \in shown \X shown : Before(p[1], p[2])})
=============================================================================
