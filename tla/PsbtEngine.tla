----------------------------- MODULE PsbtEngine -----------------------------
(***************************************************************************)
(* core/psbt_engine.cpp: the one PSBT in memory, the one master key slot   *)
(* and the summary the screens read and sign() decides from.               *)
(*                                                                         *)
(* The three change at different moments.  load() and unload() leave the   *)
(* key alone, clearKey() leaves the PSBT alone and rewrites part of the    *)
(* summary by hand, and a failed sign() may have added signatures without  *)
(* recomputing it.                                                         *)
(***************************************************************************)
EXTENDS Transaction

VARIABLES psbt,      \* psbt_: the PSBT in memory, or NoPsbt
          key,       \* masterKey(): the resident master key, or NoKey
          summary    \* summary_

vars == <<psbt, key, summary>>

-----------------------------------------------------------------------------
(***************************************************************************)
(* TxSummary.  canSign: the inputs with that flag.  signable,              *)
(* verifiedChange and leaving: the inputs and outputs those totals count.  *)
(***************************************************************************)
Ownerships == {"ThirdParty", "Claimed"} \cup Verdicts

BlockReasons == {"incomplete", "no inputs", "no outputs", "finalised",
                 "missing UTXO", "outputs exceed inputs",
                 "no derivation paths", "forged change"}

Findings == BlockReasons \cup {"nothing to sign", "unproved change", "no change"}

Labels == [ownership : Ownerships, claimed : Masters \cup {NoKey}]

Summaries ==
    [canSign : SUBSET Nat, signable : SUBSET Nat, outputs : Seq(Labels),
     verifiedChange : SUBSET Nat, leaving : SUBSET Nat,
     ownershipChecked : BOOLEAN, safeToSign : BOOLEAN, findings : SUBSET Findings]

EmptySummary ==
    [canSign |-> {}, signable |-> {}, outputs |-> <<>>,
     verifiedChange |-> {}, leaving |-> {},
     ownershipChecked |-> FALSE, safeToSign |-> FALSE, findings |-> {}]

(* The inputs a key of k can still sign: it owns them and has not signed.   *)
SignableBy(p, k) ==
    {i \in DOMAIN p.inputs : k \in p.inputs[i].owners \ p.inputs[i].sigs}

(* What the file claims about an output, before there is a key.             *)
ClaimOnly(o) ==
    [ownership |-> IF o.data \/ o.claims = <<>> THEN "ThirdParty" ELSE "Claimed",
     claimed   |-> IF o.data \/ o.claims = <<>> THEN NoKey ELSE o.claims[1].fp]

(* The first of these verdicts that some keypath naming the key leads to.   *)
Strongest(V) ==
    IF "Verified" \in V THEN "Verified"
    ELSE IF "Mismatch" \in V THEN "Mismatch"
    ELSE IF "Unverifiable" \in V THEN "Unverifiable"
    ELSE "ThirdParty"

(* What the device knows about an output with key k resident.               *)
Label(o, k) ==
    IF k = NoKey \/ o.data THEN ClaimOnly(o)
    ELSE [ownership |-> Strongest(VerdictsFor(o, k)),
          claimed   |-> IF VerdictsFor(o, k) = {} THEN ClaimOnly(o).claimed ELSE k]

LabelsOf(p, k) == [j \in DOMAIN p.outputs |-> Label(p.outputs[j], k)]

(* The indices of the outputs labelled own.                                 *)
Labelled(labels, own) == {j \in DOMAIN labels : labels[j].ownership = own}

(* The refusals of deriveFindings().                                        *)
Blocks(p, labels) ==
    {r \in BlockReasons :
        \/ r = "no inputs" /\ p.inputs = <<>>
        \/ r = "no outputs" /\ p.outputs = <<>>
        \/ r = "finalised" /\ p.finalised
        \/ r = "missing UTXO" /\ \E i \in DOMAIN p.inputs : ~p.inputs[i].known
        \/ /\ r = "outputs exceed inputs"
           /\ p.overspends /\ \A i \in DOMAIN p.inputs : p.inputs[i].known
        \/ /\ r = "no derivation paths"
           /\ p.inputs # <<>> /\ \A i \in DOMAIN p.inputs : p.inputs[i].named = {}
        \/ r = "forged change" /\ Labelled(labels, "Mismatch") # {}}

(* The findings that speak of the resident key without refusing.            *)
KeyFindings(p, k, labels) ==
    {f \in Findings :
        /\ k # NoKey
        /\ \/ f = "nothing to sign" /\ SignableBy(p, k) = {}
           \/ f = "unproved change" /\ Labelled(labels, "Unverifiable") # {}
           \/ /\ f = "no change"
              /\ Labelled(labels, "Verified") = {} /\ Len(p.outputs) > 1}

(* resummarise(): the summary of p with k resident.  A PSBT no transaction  *)
(* can be built from gets one finding and nothing else, key or no key.      *)
Summarise(p, k) ==
    IF ~p.complete
    THEN [EmptySummary EXCEPT !.findings = {"incomplete"}]
    ELSE LET labels   == LabelsOf(p, k)
             verified == Labelled(labels, "Verified")
             ours     == IF k = NoKey THEN {} ELSE SignableBy(p, k)
         IN  [canSign |-> ours, signable |-> ours, outputs |-> labels,
              verifiedChange |-> verified,
              leaving |-> DOMAIN labels \ verified,
              ownershipChecked |-> k # NoKey,
              safeToSign |-> Blocks(p, labels) = {},
              findings |-> Blocks(p, labels) \cup KeyFindings(p, k, labels)]

(* A mutant of Forgotten: without the totals.                               *)
ForgottenButCounted(s) ==
    [s EXCEPT !.canSign = {}, !.signable = {},
              !.outputs = [j \in DOMAIN s.outputs |->
                  [s.outputs[j] EXCEPT !.ownership =
                      IF s.outputs[j].claimed = NoKey THEN "ThirdParty" ELSE "Claimed"]],
              !.ownershipChecked = FALSE]

(* clearKey(): the labels go back to claims, the totals to "all of it       *)
(* leaves"; safeToSign, the findings and the claimed fingerprints stay.     *)
Forgotten(s) ==
    [s EXCEPT !.canSign = {}, !.signable = {},
              !.outputs = [j \in DOMAIN s.outputs |->
                  [s.outputs[j] EXCEPT !.ownership =
                      IF s.outputs[j].claimed = NoKey THEN "ThirdParty" ELSE "Claimed"]],
              !.verifiedChange = {},
              !.leaving = DOMAIN s.outputs,
              !.ownershipChecked = FALSE]

-----------------------------------------------------------------------------

Init == psbt = NoPsbt /\ key = NoKey /\ summary = EmptySummary

(* A mutant of Load: the key that outlives unload() is not looked at.       *)
LoadAsIfKeyless(f) ==
    /\ psbt' = f
    /\ summary' = Summarise(f, NoKey)
    /\ UNCHANGED key

(* load() of a file that parses.                                            *)
Load(f) ==
    /\ psbt' = f
    /\ summary' = Summarise(f, key)
    /\ UNCHANGED key

(* unload(); also load() of a file that cannot be read or parsed, which     *)
(* unloads first and returns false.                                         *)
Unload ==
    /\ psbt' = NoPsbt
    /\ summary' = EmptySummary
    /\ UNCHANGED key

(* setKeyFromMnemonic(), setKeyFromXprv() with text that derives k.         *)
SetKey(k) ==
    /\ key' = k
    /\ summary' = IF psbt = NoPsbt THEN Forgotten(summary) ELSE Summarise(psbt, k)
    /\ UNCHANGED psbt

(* clearKey(); also the two above with text that derives no private key,    *)
(* which clear first and return false.                                      *)
ClearKey ==
    /\ key' = NoKey
    /\ summary' = Forgotten(summary)
    /\ UNCHANGED psbt

(* A mutant of MaySign: the hard gate of the summary is not consulted.      *)
MaySignAnything ==
    /\ psbt # NoPsbt
    /\ key # NoKey
    /\ summary.signable # {}

(* What sign() checks before it touches the PSBT.                           *)
MaySign ==
    /\ psbt # NoPsbt
    /\ key # NoKey
    /\ summary.safeToSign
    /\ summary.signable # {}

(* libwally signs every input the key owns, and at least one signature is new. *)
Sign ==
    /\ MaySign
    /\ SignableBy(psbt, key) # {}
    /\ psbt' = WithSignatures(psbt, key, SignableBy(psbt, key))
    /\ summary' = Summarise(psbt', key)
    /\ UNCHANGED key

(* libwally gives up part of the way: the signatures made so far stay in    *)
(* the PSBT, sign() returns false and the summary is not recomputed.        *)
SignRejected ==
    /\ MaySign
    /\ \E S \in SUBSET SignableBy(psbt, key) :
          psbt' = WithSignatures(psbt, key, S)
    /\ UNCHANGED <<key, summary>>

Next ==
    \/ \E f \in Files : Load(f)
    \/ Unload
    \/ \E k \in Masters : SetKey(k)
    \/ ClearKey
    \/ Sign
    \/ SignRejected

Spec == Init /\ [][Next]_vars

-----------------------------------------------------------------------------

(***************************************************************************)
(* Properties                                                              *)
(***************************************************************************)

(* Types of the variables; with them, that every signature in the PSBT is   *)
(* filed under a master key.                                                *)
TypeOK ==
    /\ psbt \in Psbts \cup {NoPsbt}
    /\ key \in Masters \cup {NoKey}
    /\ summary \in Summaries

(* An output is labelled Verified, the one label a screen may colour green, *)
(* only while a key is resident that, derived along a path the file claims, *)
(* its script pays or commits to a script with: no order of loading,        *)
(* keying, clearing and signing lets the label outlive the key or the file  *)
(* that earned it, and no combination of supplied scripts earns it for an   *)
(* output that does not commit to the key (ownershipForScript(),            *)
(* resummarise(), clearKey()).                                              *)
VerifiedIsEarned ==
    \A j \in DOMAIN summary.outputs :
        summary.outputs[j].ownership = "Verified" =>
            /\ psbt # NoPsbt
            /\ key # NoKey
            /\ ~psbt.outputs[j].data
            /\ \E path \in Paths :
                  PaysOrNames(<<key, path>>, psbt.outputs[j].script)

(* The two totals the operator reads before signing agree with the labels   *)
(* next to the outputs: change counts exactly the outputs labelled          *)
(* Verified, and everything else is counted as leaving the wallet.          *)
TotalsFollowLabels ==
    /\ summary.verifiedChange = Labelled(summary.outputs, "Verified")
    /\ summary.leaving = DOMAIN summary.outputs \ summary.verifiedChange

(* With a PSBT and a key resident, the cached summary says of the outputs   *)
(* and of the refusals what a fresh one would, and offers no fewer inputs   *)
(* for signing than the key can still sign.  A sign() that failed half way  *)
(* has not recomputed it, which is why the last part is an inclusion: every *)
(* input it names is still one the key owns, and a retry is never refused   *)
(* while there is something left to sign.                                   *)
SummaryIsCurrent ==
    psbt # NoPsbt /\ key # NoKey /\ psbt.complete =>
        /\ summary.ownershipChecked
        /\ summary.outputs = LabelsOf(psbt, key)
        /\ summary.safeToSign <=> Blocks(psbt, summary.outputs) = {}
        /\ SignableBy(psbt, key) \subseteq summary.signable
        /\ summary.canSign = summary.signable
        /\ \A i \in summary.signable :
              i \in DOMAIN psbt.inputs /\ key \in psbt.inputs[i].owners

(* The engine implements the device that has no cache: whatever sign()      *)
(* signs from its summary passes every check made at that moment.           *)
Device == INSTANCE SigningDevice

ImplementsDevice == Device!Spec
=============================================================================
