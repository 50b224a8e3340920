---------------------------- MODULE MCSignScreen ----------------------------
(***************************************************************************)
(* The signing flow with two masters, a stick with a payment that a signs, *)
(* one that both sign and one with a forged change label, two seeds of     *)
(* which one has a passphrase wallet, and a text that derives nothing.     *)
(***************************************************************************)
EXTENDS SignScreen

CONSTANTS a, b, seed, other, p1, p2

MCMasters == {a, b}
MCTexts == {seed, other}
MCPassphrases == {p1, p2}

(* seed alone is the master a, with the passphrase p1 it is b.  other is    *)
(* no mnemonic, but as an extended private key it is b.                     *)
MCMasterOf ==
    [x \in {"mnemonic", "xprv"} \X MCTexts \X (MCPassphrases \cup {Empty}) |->
        CASE x[1] = "mnemonic" /\ x[2] = seed /\ x[3] = Empty -> a
          [] x[1] = "mnemonic" /\ x[2] = seed /\ x[3] = p1 -> b
          [] x[1] = "xprv" /\ x[2] = other -> b
          [] OTHER -> NoKey]

MCPaths == {"change"}
MCScripts == {P2wpkh(<<k, "change">>) : k \in MCMasters}

Spends(M) == [known |-> TRUE, named |-> M, owners |-> M, sigs |-> {}]
Pays(k, claims) == [data |-> FALSE, script |-> P2wpkh(<<k, "change">>), tree |-> FALSE,
                    redeem |-> NoScript, witness |-> NoScript, claims |-> claims]
Tx(ins, outs) == [complete |-> TRUE, finalised |-> FALSE, overspends |-> FALSE,
                  inputs |-> ins, outputs |-> outs]

(* Change that is a's, and change that says it is b's and is not.           *)
MCFiles ==
    {Tx(<<Spends({a})>>,
        <<Pays(b, <<>>), Pays(a, <<[fp |-> a, path |-> "change"]>>)>>),
     Tx(<<Spends({a}), Spends({a, b})>>,
        <<Pays(b, <<>>), Pays(a, <<[fp |-> b, path |-> "change"]>>)>>)}
=============================================================================
