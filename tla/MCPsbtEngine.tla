---------------------------- MODULE MCPsbtEngine ----------------------------
(***************************************************************************)
(* The engine with two master keys, two paths and a stick that holds PSBTs *)
(* of each kind its decisions tell apart, with outputs of every form of    *)
(* script, honestly and dishonestly described.                             *)
(***************************************************************************)
EXTENDS PsbtEngine

CONSTANTS a, b

MCMasters == {a, b}
MCPaths == {"receive", "change"}

Pub(k) == <<k, "change">>
Claim(k) == [fp |-> k, path |-> "change"]
Both == <<"multisig", Pub(a), Pub(b)>>
Others == <<"multisig", Pub(b)>>

MCScripts ==
    {<<>>, <<"return">>, Both, Others, P2tr(<<a, "tree">>)}
    \cup UNION {{P2pkh(Pub(k)), P2wpkh(Pub(k)), P2tr(Pub(k)), P2sh(P2wpkh(Pub(k)))} :
                   k \in MCMasters}
    \cup UNION {{P2wsh(s), P2sh(s), P2sh(P2wsh(s))} : s \in {Both, Others}}

(* An output of a script the file supplies nothing for, and one it does.    *)
Pays(script, claims) ==
    [data |-> FALSE, script |-> script, tree |-> FALSE,
     redeem |-> NoScript, witness |-> NoScript, claims |-> claims]
PaysScript(script, redeem, witness, claims) ==
    [Pays(script, claims) EXCEPT !.redeem = redeem, !.witness = witness]

Spends(M) == [known |-> TRUE, named |-> M, owners |-> M, sigs |-> {}]
Tx(ins, outs) == [complete |-> TRUE, finalised |-> FALSE, overspends |-> FALSE,
                  inputs |-> ins, outputs |-> outs]

(* A payment of a's coins to b, with change back to a.                      *)
Payment ==
    Tx(<<Spends({a})>>,
       <<Pays(P2pkh(Pub(b)), <<>>), Pays(P2wpkh(Pub(a)), <<Claim(a)>>)>>)

(* The same with change of the other forms, each with what it takes to tell. *)
HonestChange ==
    {Tx(<<Spends({a})>>, <<Pays(P2pkh(Pub(b)), <<>>), change>>) :
        change \in {Pays(P2pkh(Pub(a)), <<Claim(a)>>), Pays(P2tr(Pub(a)), <<Claim(a)>>),
                    PaysScript(P2sh(Both), Both, NoScript, <<Claim(a)>>),
                    PaysScript(P2sh(P2wpkh(Pub(a))), P2wpkh(Pub(a)), NoScript, <<Claim(a)>>)}}

(* The same with change labels that are not true: the key is another one's, *)
(* or the script that names it is not the one the output commits to.        *)
ForgedChange ==
    {Tx(<<Spends({a})>>, <<Pays(P2pkh(Pub(b)), <<>>), change>>) :
        change \in {Pays(P2wpkh(Pub(b)), <<Claim(a)>>),
                    PaysScript(P2wsh(Others), NoScript, Both, <<Claim(a)>>),
                    PaysScript(P2sh(Others), Both, NoScript, <<Claim(a)>>)}}

(* Two cosigners, one of whom signed elsewhere; change names both, once     *)
(* along a path that cannot be followed, and one output holds data.         *)
Multisig ==
    Tx(<<Spends({a, b}), [Spends({a, b}) EXCEPT !.sigs = {b}]>>,
       <<PaysScript(P2wsh(Both), NoScript, Both,
                    <<[fp |-> b, path |-> BadPath], Claim(a)>>),
         PaysScript(P2sh(P2wsh(Both)), P2wsh(Both), Both, <<Claim(a), Claim(b)>>),
         [Pays(<<"return">>, <<>>) EXCEPT !.data = TRUE]>>)

(* Inputs of two wallets; one output lies about the path first, and others  *)
(* cannot be told.                                                          *)
Joint ==
    Tx(<<Spends({a}), Spends({b}), [Spends({}) EXCEPT !.named = {b}]>>,
       <<Pays(P2sh(P2wpkh(Pub(b))), <<[fp |-> b, path |-> "receive"], Claim(b)>>),
         Pays(P2sh(Both), <<Claim(a)>>),
         [Pays(P2tr(<<a, "tree">>), <<Claim(b)>>) EXCEPT !.tree = TRUE]>>)

Refused ==
    {[Payment EXCEPT !.complete = FALSE], [Payment EXCEPT !.finalised = TRUE],
     [Payment EXCEPT !.overspends = TRUE], [Payment EXCEPT !.outputs = <<>>],
     [Payment EXCEPT !.inputs = <<>>],
     [Payment EXCEPT !.inputs = <<[Spends({a}) EXCEPT !.known = FALSE]>>],
     [Payment EXCEPT !.inputs = <<Spends({})>>]}

MCFiles == {Payment, Multisig, Joint} \cup HonestChange \cup ForgedChange \cup Refused
=============================================================================
