-------------------------- MODULE OutputOwnership --------------------------
(***************************************************************************)
(* core/psbt_engine.cpp, ownershipForScript(): whether an output pays a    *)
(* public key the device has derived, or commits to a script that names    *)
(* it, whatever the file says of it.                                       *)
(*                                                                         *)
(* A script is its form followed by what it is made of, so that two        *)
(* scripts are equal exactly when their bytes are; a hash is a term, which *)
(* is the assumption that nobody finds a collision.  A multisig script is  *)
(* one form among those that hold public keys verbatim.                    *)
(***************************************************************************)
EXTENDS Naturals, Sequences

CONSTANTS Scripts,    \* every script the files hold or hash
          NoScript    \* the file supplies no such script (nullptr)

Hash(x) == <<"hash", x>>

(* p2pkhFor(), p2wpkhFor(), p2trFor(), p2wshOf(), p2shOf().                 *)
P2pkh(pub) == <<"p2pkh", Hash(pub)>>
P2wpkh(pub) == <<"p2wpkh", Hash(pub)>>
P2tr(pub) == <<"p2tr", pub>>
P2wsh(script) == <<"p2wsh", Hash(script)>>
P2sh(script) == <<"p2sh", Hash(script)>>

(* What wally_scriptpubkey_get_type() tells from the script alone.          *)
Form(script) == IF script = <<>> THEN "none" ELSE script[1]

(* containsBytes(): the public key stands in the script.                    *)
Names(script, pub) == \E i \in 2 .. Len(script) : script[i] = pub

Decided(ours) == IF ours THEN "Verified" ELSE "Mismatch"

(* A mutant of WitnessVerdict: the script the file supplies is looked into  *)
(* without asking whether the output commits to it.                         *)
WitnessVerdictUnhashed(pub, program, witness) ==
    IF witness = NoScript THEN "Unverifiable" ELSE Decided(Names(witness, pub))

(* A version 0 witness program and the script the file says is behind it.   *)
WitnessVerdict(pub, program, witness) ==
    IF witness = NoScript THEN "Unverifiable"
    ELSE Decided(program = P2wsh(witness) /\ Names(witness, pub))

(* A script hash and the redeem script the file says is behind it.  Without *)
(* one, a p2wpkh nested in it is the only form that can be rebuilt.         *)
RedeemVerdict(pub, script, redeem, witness) ==
    IF redeem = NoScript
    THEN IF script = P2sh(P2wpkh(pub)) THEN "Verified" ELSE "Unverifiable"
    ELSE IF script # P2sh(redeem) THEN "Mismatch"
    ELSE IF Form(redeem) = "p2wsh" THEN WitnessVerdict(pub, redeem, witness)
    ELSE Decided(redeem = P2wpkh(pub) \/ Names(redeem, pub))

(* The verdict on output o for the key pub.  A taproot output with a script *)
(* tree commits to more than a key, so there "not rebuilt" proves nothing.  *)
OwnershipForScript(pub, o) ==
    CASE Form(o.script) = "p2pkh"  -> Decided(o.script = P2pkh(pub))
      [] Form(o.script) = "p2wpkh" -> Decided(o.script = P2wpkh(pub))
      [] Form(o.script) = "p2tr"   ->
            IF o.tree /\ o.script # P2tr(pub) THEN "Unverifiable"
            ELSE Decided(o.script = P2tr(pub))
      [] Form(o.script) = "p2wsh"  -> WitnessVerdict(pub, o.script, o.witness)
      [] Form(o.script) = "p2sh"   ->
            RedeemVerdict(pub, o.script, o.redeem, o.witness)
      [] OTHER -> "Unverifiable"

-----------------------------------------------------------------------------
(* The reference, which looks at nothing the file says.                     *)

(* Whoever spends this has to have the private key of pub.                  *)
PaysKey(pub, script) ==
    script \in {P2pkh(pub), P2wpkh(pub), P2tr(pub), P2sh(P2wpkh(pub))}

(* Whoever spends this has to show s and satisfy it.                        *)
CommitsTo(script, s) == script \in {P2wsh(s), P2sh(s), P2sh(P2wsh(s))}

(* The most that can be said of an output labelled Verified.  In a script   *)
(* pub may be one key of several, of which another is enough, or be dropped *)
(* again: containsBytes() does not ask what the script does with it.        *)
PaysOrNames(pub, script) ==
    \/ PaysKey(pub, script)
    \/ \E s \in Scripts : Names(s, pub) /\ CommitsTo(script, s)

(* The other way round: o pays or names pub, and the file supplies what it  *)
(* takes to see it.                                                         *)
DescribedFully(pub, o) ==
    \/ o.script \in {P2pkh(pub), P2wpkh(pub), P2tr(pub)}
    \/ o.script = P2sh(P2wpkh(pub)) /\ o.redeem \in {NoScript, P2wpkh(pub)}
    \/ /\ o.witness # NoScript /\ Names(o.witness, pub)
       /\ \/ o.script = P2wsh(o.witness)
          \/ /\ o.redeem # NoScript /\ o.redeem = P2wsh(o.witness)
             /\ o.script = P2sh(o.redeem)
    \/ /\ o.redeem # NoScript /\ Names(o.redeem, pub) /\ Form(o.redeem) # "p2wsh"
       /\ o.script = P2sh(o.redeem)
=============================================================================
