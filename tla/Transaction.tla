---------------------------- MODULE Transaction ----------------------------
(***************************************************************************)
(* A PSBT as the signing engine holds it: the part of the parsed file its  *)
(* decisions depend on.                                                    *)
(*                                                                         *)
(* Amounts and addresses are abstracted to what they decide: an input's    *)
(* amount is present or missing, the totals overspend or do not.  A public *)
(* key is the pair of the master and the path it is derived from.          *)
(***************************************************************************)
EXTENDS OutputOwnership

CONSTANTS Masters,   \* the BIP32 master keys, each with a fingerprint of its own
          NoKey,     \* the empty master key slot; also the empty fingerprint
          NoPsbt,    \* psbt_ == nullptr
          Paths,     \* the derivation paths the files name
          BadPath,   \* a keypath that cannot be read or derived along
          Files      \* the PSBTs that may be on the stick, as parsed

ASSUME KeyAssumption == NoKey \notin Masters

(***************************************************************************)
(* An input.  named: the masters its keypaths name.  owners: the masters   *)
(* that really derive the key the input asks for.  sigs: the masters whose *)
(* signature it carries.                                                   *)
(***************************************************************************)
Inputs == [known : BOOLEAN, named : SUBSET Masters,
           owners : SUBSET Masters, sigs : SUBSET Masters]

(***************************************************************************)
(* An output.  data: it is an OP_RETURN.  script, redeem, witness, tree:   *)
(* its scriptPubKey, the scripts the file supplies for it and whether it   *)
(* has a taproot tree.  claims: its keypaths in order, the ordinary ones   *)
(* and then those of its taproot leaves.                                   *)
(***************************************************************************)
Verdicts == {"Verified", "Mismatch", "Unverifiable"}

Claims == [fp : Masters, path : Paths \cup {BadPath}]

Outputs == [data : BOOLEAN, script : Scripts, tree : BOOLEAN,
            redeem : Scripts \cup {NoScript}, witness : Scripts \cup {NoScript},
            claims : Seq(Claims)]

Psbts == [complete : BOOLEAN, finalised : BOOLEAN, overspends : BOOLEAN,
          inputs : Seq(Inputs), outputs : Seq(Outputs)]

ASSUME FileAssumption == Files \subseteq Psbts /\ NoPsbt \notin Psbts

(* What following one keypath with its master resident shows.               *)
VerdictOf(o, c) ==
    IF c.path = BadPath THEN "Unverifiable"
    ELSE OwnershipForScript(<<c.fp, c.path>>, o)

(* The verdicts the keypaths of output o that name k lead to.               *)
VerdictsFor(o, k) ==
    {VerdictOf(o, o.claims[j]) : j \in {n \in DOMAIN o.claims : o.claims[n].fp = k}}

(* A mutant of WithSignatures: the signature is not filed under its key.    *)
WithAnonymousSignatures(p, k, S) ==
    [p EXCEPT !.inputs = [i \in DOMAIN p.inputs |->
        IF i \in S THEN [p.inputs[i] EXCEPT !.sigs = @ \cup {NoKey}] ELSE p.inputs[i]]]

(* p with a signature by k on every input in S.                             *)
WithSignatures(p, k, S) ==
    [p EXCEPT !.inputs = [i \in DOMAIN p.inputs |->
        IF i \in S THEN [p.inputs[i] EXCEPT !.sigs = @ \cup {k}] ELSE p.inputs[i]]]
=============================================================================
