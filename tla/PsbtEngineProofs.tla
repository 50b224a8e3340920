-------------------------- MODULE PsbtEngineProofs --------------------------
(***************************************************************************)
(* The signing engine's properties for every set of keys and files.        *)
(***************************************************************************)
EXTENDS PsbtEngine, TLAPS

Slot == Masters \cup {NoKey}

-----------------------------------------------------------------------------
(***************************************************************************)
(* What ownershipForScript() proves about an output.                       *)
(***************************************************************************)

(* Whatever redeem and witness scripts the file supplies, honest or not, a  *)
(* key is only told that an output is its own when the output pays that key *)
(* and nobody else, or commits to a script the file supplied in which the   *)
(* key stands.  Of the second kind no more can be said: whether that script *)
(* can be satisfied without the key, ownershipForScript() does not ask.     *)
THEOREM VerdictIsSound ==
    ASSUME NEW pub, NEW o \in Outputs, OwnershipForScript(pub, o) = "Verified"
    PROVE  \/ PaysKey(pub, o.script)
           \/ \E s \in {o.redeem, o.witness} \ {NoScript} :
                 Names(s, pub) /\ CommitsTo(o.script, s)
<1>1. CASE Form(o.script) \in {"p2pkh", "p2wpkh", "p2tr"}
  BY <1>1 DEF OwnershipForScript, Decided, PaysKey
<1>2. CASE Form(o.script) = "p2wsh"
  <2>1. WitnessVerdict(pub, o.script, o.witness) = "Verified"
    BY <1>2 DEF OwnershipForScript
  <2> QED
    BY <2>1 DEF WitnessVerdict, Decided, CommitsTo
<1>3. CASE Form(o.script) = "p2sh"
  <2>1. RedeemVerdict(pub, o.script, o.redeem, o.witness) = "Verified"
    BY <1>3 DEF OwnershipForScript
  <2>2. CASE o.redeem = NoScript
    BY <2>1, <2>2 DEF RedeemVerdict, PaysKey
  <2>3. CASE o.redeem # NoScript
    <3>1. o.script = P2sh(o.redeem)
      BY <2>1, <2>3 DEF RedeemVerdict
    <3>2. CASE Form(o.redeem) = "p2wsh"
      <4>1. WitnessVerdict(pub, o.redeem, o.witness) = "Verified"
        BY <2>1, <2>3, <3>1, <3>2 DEF RedeemVerdict
      <4> QED
        BY <3>1, <4>1 DEF WitnessVerdict, Decided, CommitsTo
    <3>3. CASE Form(o.redeem) # "p2wsh"
      <4>1. o.redeem = P2wpkh(pub) \/ Names(o.redeem, pub)
        BY <2>1, <2>3, <3>1, <3>3 DEF RedeemVerdict, Decided
      <4> QED
        BY <2>3, <3>1, <4>1 DEF PaysKey, CommitsTo
    <3> QED
      BY <3>2, <3>3
  <2> QED
    BY <2>2, <2>3
<1>4. CASE Form(o.script) \notin {"p2pkh", "p2wpkh", "p2tr", "p2wsh", "p2sh"}
  BY <1>4 DEF OwnershipForScript
<1> QED
  BY <1>1, <1>2, <1>3, <1>4

(* The supplied scripts forgotten.                                          *)
LEMMA VerdictIsEarned ==
    ASSUME NEW pub, NEW o \in Outputs, OwnershipForScript(pub, o) = "Verified"
    PROVE  PaysOrNames(pub, o.script)
<1>1. o.redeem \in Scripts \cup {NoScript} /\ o.witness \in Scripts \cup {NoScript}
  BY DEF Outputs
<1> QED
  BY <1>1, VerdictIsSound DEF PaysOrNames

(* And it is told so whenever the output pays or names it and the file      *)
(* supplies the scripts behind the hashes: own change is never reported as  *)
(* a stranger's.                                                            *)
THEOREM OwnChangeIsRecognised ==
    ASSUME NEW pub, NEW o \in Outputs, DescribedFully(pub, o)
    PROVE  OwnershipForScript(pub, o) = "Verified"
<1>0. /\ Form(P2pkh(pub)) = "p2pkh" /\ Form(P2wpkh(pub)) = "p2wpkh"
      /\ Form(P2tr(pub)) = "p2tr"
      /\ \A s : Form(P2wsh(s)) = "p2wsh" /\ Form(P2sh(s)) = "p2sh"
  BY DEF Form, P2pkh, P2wpkh, P2tr, P2wsh, P2sh
<1>1. CASE o.script \in {P2pkh(pub), P2wpkh(pub), P2tr(pub)}
  BY <1>0, <1>1 DEF OwnershipForScript, Decided
<1>2. CASE o.script = P2sh(P2wpkh(pub)) /\ o.redeem \in {NoScript, P2wpkh(pub)}
  <2>1. RedeemVerdict(pub, o.script, o.redeem, o.witness) = "Verified"
    BY <1>0, <1>2 DEF RedeemVerdict, Decided
  <2> QED
    BY <1>0, <1>2, <2>1 DEF OwnershipForScript
<1>3. CASE o.witness # NoScript /\ Names(o.witness, pub) /\ o.script = P2wsh(o.witness)
  <2>1. WitnessVerdict(pub, o.script, o.witness) = "Verified"
    BY <1>3 DEF WitnessVerdict, Decided
  <2> QED
    BY <1>0, <1>3, <2>1 DEF OwnershipForScript
<1>4. CASE /\ o.witness # NoScript /\ Names(o.witness, pub)
           /\ o.redeem # NoScript /\ o.redeem = P2wsh(o.witness) /\ o.script = P2sh(o.redeem)
  <2>1. WitnessVerdict(pub, o.redeem, o.witness) = "Verified"
    BY <1>4 DEF WitnessVerdict, Decided
  <2>2. RedeemVerdict(pub, o.script, o.redeem, o.witness) = "Verified"
    BY <1>0, <1>4, <2>1 DEF RedeemVerdict
  <2> QED
    BY <1>0, <1>4, <2>2 DEF OwnershipForScript
<1>5. CASE /\ o.redeem # NoScript /\ Names(o.redeem, pub)
           /\ Form(o.redeem) # "p2wsh" /\ o.script = P2sh(o.redeem)
  <2>1. RedeemVerdict(pub, o.script, o.redeem, o.witness) = "Verified"
    BY <1>5 DEF RedeemVerdict, Decided
  <2> QED
    BY <1>0, <1>5, <2>1 DEF OwnershipForScript
<1> QED
  BY <1>1, <1>2, <1>3, <1>4, <1>5 DEF DescribedFully

-----------------------------------------------------------------------------
(* A function on an initial segment of the naturals is a sequence.          *)
LEMMA FunctionIsSeq ==
    ASSUME NEW T, NEW n \in Nat, NEW f \in [1 .. n -> T]
    PROVE  f \in Seq(T) /\ Len(f) = n
OBVIOUS

(***************************************************************************)
(* The summary is well typed however it is computed.                       *)
(***************************************************************************)

(* What the device says about one output is one of the five labels, with a  *)
(* fingerprint or none (Label, resummarise() and evaluateSignability()).    *)
LEMMA LabelType ==
    ASSUME NEW o \in Outputs, NEW k \in Slot
    PROVE  Label(o, k) \in Labels
<1>1. ClaimOnly(o) \in Labels
  <2>1. CASE o.data \/ o.claims = <<>>
    BY <2>1 DEF ClaimOnly, Labels, Ownerships
  <2>2. CASE ~(o.data \/ o.claims = <<>>)
    <3>1. o.claims \in Seq(Claims) /\ o.claims # <<>>
      BY <2>2 DEF Outputs
    <3>2. o.claims[1] \in Claims
      BY <3>1
    <3>3. o.claims[1].fp \in Masters
      BY <3>2 DEF Claims
    <3> QED
      BY <2>2, <3>3 DEF ClaimOnly, Labels, Ownerships
  <2> QED
    BY <2>1, <2>2
<1>2. Strongest(VerdictsFor(o, k)) \in Ownerships
  BY DEF Strongest, Ownerships, Verdicts
<1> QED
  BY <1>1, <1>2 DEF Label, Labels, Slot

(* One label per output of the file.                                        *)
LEMMA LabelsOfType ==
    ASSUME NEW p \in Psbts, NEW k \in Slot
    PROVE  /\ LabelsOf(p, k) \in Seq(Labels)
           /\ DOMAIN LabelsOf(p, k) = DOMAIN p.outputs
           /\ \A j \in DOMAIN p.outputs : LabelsOf(p, k)[j] = Label(p.outputs[j], k)
<1>1. p.outputs \in Seq(Outputs)
  BY DEF Psbts
<1>2. \A j \in 1 .. Len(p.outputs) : Label(p.outputs[j], k) \in Labels
  BY <1>1, LabelType
<1>3. DOMAIN p.outputs = 1 .. Len(p.outputs) /\ Len(p.outputs) \in Nat
  BY <1>1
<1> QED
  BY <1>2, <1>3 DEF LabelsOf

(* The summary of nothing.                                                  *)
LEMMA EmptySummaryType == EmptySummary \in Summaries
<1>1. <<>> \in Seq(Labels)
  OBVIOUS
<1> QED
  BY <1>1 DEF EmptySummary, Summaries

(* resummarise() returns a summary.                                         *)
LEMMA SummariseType ==
    ASSUME NEW p \in Psbts, NEW k \in Slot
    PROVE  Summarise(p, k) \in Summaries
<1> DEFINE labels == LabelsOf(p, k)
<1>1. CASE ~p.complete
  <2>1. Summarise(p, k) = [EmptySummary EXCEPT !.findings = {"incomplete"}]
    BY <1>1 DEF Summarise
  <2>2. EmptySummary \in Summaries
    BY EmptySummaryType
  <2>3. {"incomplete"} \in SUBSET Findings
    BY DEF Findings, BlockReasons
  <2> QED
    BY <2>1, <2>2, <2>3 DEF Summaries
<1>2. CASE p.complete
  <2>1. labels \in Seq(Labels)
    BY LabelsOfType
  <2>2. DOMAIN labels \subseteq Nat
    BY <2>1
  <2>3. \A own : Labelled(labels, own) \subseteq Nat
    BY <2>2 DEF Labelled
  <2>4. SignableBy(p, k) \subseteq Nat
    BY DEF SignableBy, Psbts
  <2>5. /\ Blocks(p, labels) \subseteq Findings
        /\ KeyFindings(p, k, labels) \subseteq Findings
    BY DEF Blocks, KeyFindings, Findings
  <2>6. (k # NoKey) \in BOOLEAN /\ (Blocks(p, labels) = {}) \in BOOLEAN
    OBVIOUS
  <2> HIDE DEF labels
  <2>7. Summarise(p, k) =
          [canSign |-> IF k = NoKey THEN {} ELSE SignableBy(p, k),
           signable |-> IF k = NoKey THEN {} ELSE SignableBy(p, k),
           outputs |-> labels,
           verifiedChange |-> Labelled(labels, "Verified"),
           leaving |-> DOMAIN labels \ Labelled(labels, "Verified"),
           ownershipChecked |-> k # NoKey,
           safeToSign |-> Blocks(p, labels) = {},
           findings |-> Blocks(p, labels) \cup KeyFindings(p, k, labels)]
    BY <1>2 DEF Summarise, labels
  <2> QED
    BY <2>1, <2>2, <2>3, <2>4, <2>5, <2>6, <2>7 DEF Summaries
<1> QED
  BY <1>1, <1>2 DEF Psbts

(* clearKey() returns a summary without a Verified output, whose totals say *)
(* that everything leaves.                                                  *)
LEMMA ForgottenType ==
    ASSUME NEW s \in Summaries
    PROVE  /\ Forgotten(s) \in Summaries
           /\ DOMAIN Forgotten(s).outputs = DOMAIN s.outputs
           /\ Labelled(Forgotten(s).outputs, "Verified") = {}
           /\ Forgotten(s).verifiedChange = {}
           /\ Forgotten(s).leaving = DOMAIN s.outputs
<1> DEFINE outs == [j \in DOMAIN s.outputs |->
                      [s.outputs[j] EXCEPT !.ownership =
                         IF s.outputs[j].claimed = NoKey THEN "ThirdParty" ELSE "Claimed"]]
<1>1. s.outputs \in Seq(Labels)
  BY DEF Summaries
<1>2. \A j \in DOMAIN s.outputs : s.outputs[j] \in Labels
  BY <1>1
<1>3. \A j \in DOMAIN s.outputs :
        outs[j] \in Labels /\ outs[j].ownership \in {"ThirdParty", "Claimed"}
  BY <1>2 DEF Labels, Ownerships
<1>4. DOMAIN s.outputs = 1 .. Len(s.outputs) /\ Len(s.outputs) \in Nat
  BY <1>1
<1>5. outs \in Seq(Labels)
  <2>1. outs \in [1 .. Len(s.outputs) -> Labels]
    BY <1>3, <1>4
  <2> QED
    BY <1>4, <2>1, FunctionIsSeq
<1>6. Labelled(outs, "Verified") = {}
  BY <1>3 DEF Labelled
<1>7. Forgotten(s) = [s EXCEPT !.canSign = {}, !.signable = {}, !.outputs = outs,
                               !.verifiedChange = {}, !.leaving = DOMAIN s.outputs,
                               !.ownershipChecked = FALSE]
  BY DEF Forgotten
<1>8. DOMAIN outs = DOMAIN s.outputs
  OBVIOUS
<1> HIDE DEF outs
<1>9. DOMAIN s.outputs \subseteq Nat
  BY <1>4
<1>10. Forgotten(s) =
         [canSign |-> {}, signable |-> {}, outputs |-> outs, verifiedChange |-> {},
          leaving |-> DOMAIN s.outputs, ownershipChecked |-> FALSE,
          safeToSign |-> s.safeToSign, findings |-> s.findings]
  BY <1>7 DEF Summaries
<1>11. s.safeToSign \in BOOLEAN /\ s.findings \in SUBSET Findings
  BY DEF Summaries
<1>12. Forgotten(s) \in Summaries
  BY <1>5, <1>9, <1>10, <1>11 DEF Summaries
<1>13. /\ Forgotten(s).outputs = outs
       /\ Forgotten(s).verifiedChange = {}
       /\ Forgotten(s).leaving = DOMAIN s.outputs
  BY <1>10
<1> QED
  BY <1>6, <1>8, <1>12, <1>13

(* Signing changes the signatures of a PSBT and nothing else.               *)
LEMMA WithSignaturesType ==
    ASSUME NEW p \in Psbts, NEW k \in Masters, NEW S,
           NEW q, q = WithSignatures(p, k, S)
    PROVE  /\ q \in Psbts
           /\ q.outputs = p.outputs /\ q.complete = p.complete
           /\ q.finalised = p.finalised /\ q.overspends = p.overspends
           /\ Len(q.inputs) = Len(p.inputs)
           /\ DOMAIN q.inputs = DOMAIN p.inputs
           /\ \A i \in DOMAIN p.inputs :
                 /\ q.inputs[i].known = p.inputs[i].known
                 /\ q.inputs[i].named = p.inputs[i].named
                 /\ q.inputs[i].owners = p.inputs[i].owners
                 /\ p.inputs[i].sigs \subseteq q.inputs[i].sigs
<1> DEFINE ins == [i \in DOMAIN p.inputs |->
                     IF i \in S THEN [p.inputs[i] EXCEPT !.sigs = @ \cup {k}]
                     ELSE p.inputs[i]]
<1>1. p.inputs \in Seq(Inputs)
  BY DEF Psbts
<1>2. \A i \in DOMAIN p.inputs : p.inputs[i] \in Inputs
  BY <1>1
<1>3. DOMAIN p.inputs = 1 .. Len(p.inputs) /\ Len(p.inputs) \in Nat
  BY <1>1
<1>4. \A i \in DOMAIN p.inputs :
        /\ ins[i] \in Inputs
        /\ ins[i].known = p.inputs[i].known
        /\ ins[i].named = p.inputs[i].named
        /\ ins[i].owners = p.inputs[i].owners
        /\ p.inputs[i].sigs \subseteq ins[i].sigs
  BY <1>2 DEF Inputs
<1>5. ins \in Seq(Inputs) /\ Len(ins) = Len(p.inputs) /\ DOMAIN ins = DOMAIN p.inputs
  <2>1. ins \in [1 .. Len(p.inputs) -> Inputs]
    BY <1>3, <1>4
  <2> QED
    BY <1>3, <2>1, FunctionIsSeq
<1>6. q = [p EXCEPT !.inputs = ins]
  BY DEF WithSignatures
<1> HIDE DEF ins
<1>7. q =
        [complete |-> p.complete, finalised |-> p.finalised,
         overspends |-> p.overspends, inputs |-> ins, outputs |-> p.outputs]
  BY <1>6 DEF Psbts
<1>8. q \in Psbts
  BY <1>5, <1>7 DEF Psbts
<1>9. q.inputs = ins
  BY <1>7
<1> QED
  BY <1>4, <1>5, <1>7, <1>8, <1>9

-----------------------------------------------------------------------------
(***************************************************************************)
(* The inductive invariant                                                 *)
(***************************************************************************)

(* A summary with nothing in it that a screen or sign() could act on.       *)
Blank(s) ==
    /\ DOMAIN s.outputs = {}
    /\ ~s.safeToSign
    /\ s.verifiedChange = {}
    /\ s.leaving = {}

(* The properties, and what carries them from step to step: without a       *)
(* complete PSBT the summary is blank, without a key no label is Verified.  *)
IInv ==
    /\ TypeOK
    /\ psbt = NoPsbt \/ ~psbt.complete => Blank(summary)
    /\ key = NoKey => Labelled(summary.outputs, "Verified") = {}
    /\ TotalsFollowLabels
    /\ SummaryIsCurrent

(* What a freshly computed summary satisfies (resummarise()).               *)
LEMMA SummariseFacts ==
    ASSUME NEW p \in Psbts, NEW k \in Slot, NEW s, s = Summarise(p, k)
    PROVE  /\ ~p.complete => Blank(s)
           /\ k = NoKey => Labelled(s.outputs, "Verified") = {}
           /\ s.verifiedChange = Labelled(s.outputs, "Verified")
           /\ s.leaving = DOMAIN s.outputs \ s.verifiedChange
           /\ p.complete => s.outputs = LabelsOf(p, k)
           /\ p.complete => (s.safeToSign <=> Blocks(p, LabelsOf(p, k)) = {})
           /\ p.complete /\ k # NoKey =>
                /\ s.ownershipChecked
                /\ s.signable = SignableBy(p, k)
                /\ s.canSign = SignableBy(p, k)
<1>1. CASE ~p.complete
  <2>1. s = [EmptySummary EXCEPT !.findings = {"incomplete"}]
    BY <1>1 DEF Summarise
  <2>2. /\ s.outputs = <<>> /\ ~s.safeToSign
        /\ s.verifiedChange = {} /\ s.leaving = {}
    BY <2>1 DEF EmptySummary
  <2>3. DOMAIN s.outputs = {}
    BY <2>2
  <2>4. Labelled(s.outputs, "Verified") = {}
    BY <2>3 DEF Labelled
  <2> QED
    BY <1>1, <2>2, <2>3, <2>4 DEF Blank
<1>2. CASE p.complete
  <2> DEFINE labels == LabelsOf(p, k)
             ours == IF k = NoKey THEN {} ELSE SignableBy(p, k)
  <2> HIDE DEF labels, ours
  <2>1. s = [canSign |-> ours, signable |-> ours, outputs |-> labels,
             verifiedChange |-> Labelled(labels, "Verified"),
             leaving |-> DOMAIN labels \ Labelled(labels, "Verified"),
             ownershipChecked |-> k # NoKey,
             safeToSign |-> Blocks(p, labels) = {},
             findings |-> Blocks(p, labels) \cup KeyFindings(p, k, labels)]
    BY <1>2 DEF Summarise, labels, ours
  <2>2. /\ s.outputs = labels
        /\ s.verifiedChange = Labelled(labels, "Verified")
        /\ s.leaving = DOMAIN labels \ Labelled(labels, "Verified")
        /\ s.ownershipChecked = (k # NoKey)
        /\ s.safeToSign = (Blocks(p, labels) = {})
        /\ s.signable = ours /\ s.canSign = ours
    BY <2>1
  <2>3. k = NoKey => Labelled(labels, "Verified") = {}
    <3> SUFFICES ASSUME k = NoKey PROVE Labelled(labels, "Verified") = {}
      OBVIOUS
    <3>0. \A o : Label(o, k) = ClaimOnly(o)
      BY DEF Label
    <3>1. \A j \in DOMAIN labels : labels[j] = ClaimOnly(p.outputs[j])
      BY <3>0, LabelsOfType DEF labels
    <3>2. \A j \in DOMAIN labels : labels[j].ownership # "Verified"
      BY <3>1 DEF ClaimOnly
    <3> QED
      BY <3>2 DEF Labelled
  <2>4. k # NoKey => ours = SignableBy(p, k)
    BY DEF ours
  <2>5. s.outputs = LabelsOf(p, k)
    BY <2>2 DEF labels
  <2>6. s.safeToSign <=> Blocks(p, LabelsOf(p, k)) = {}
    BY <2>2 DEF labels
  <2> QED
    BY <1>2, <2>2, <2>3, <2>4, <2>5, <2>6
<1> QED
  BY <1>1, <1>2 DEF Psbts

(* A summary just computed for the PSBT and the key satisfies the invariant.*)
LEMMA FreshSummary ==
    ASSUME psbt' \in Psbts, key' \in Slot, summary' = Summarise(psbt', key')
    PROVE  IInv'
<1>1. summary' \in Summaries
  BY SummariseType
<1>2. TypeOK'
  BY <1>1 DEF TypeOK, Slot
<1>3. (psbt = NoPsbt \/ ~psbt.complete => Blank(summary))'
  BY FileAssumption, SummariseFacts
<1>4. (key = NoKey => Labelled(summary.outputs, "Verified") = {})'
  BY SummariseFacts
<1>5. TotalsFollowLabels'
  BY SummariseFacts DEF TotalsFollowLabels
<1>6. SummaryIsCurrent'
  <2> SUFFICES ASSUME key' # NoKey, psbt'.complete
               PROVE  /\ (summary.ownershipChecked)'
                      /\ (summary.outputs = LabelsOf(psbt, key))'
                      /\ (summary.safeToSign <=> Blocks(psbt, summary.outputs) = {})'
                      /\ (SignableBy(psbt, key) \subseteq summary.signable)'
                      /\ (summary.canSign = summary.signable)'
                      /\ (\A i \in summary.signable :
                              i \in DOMAIN psbt.inputs /\ key \in psbt.inputs[i].owners)'
    BY DEF SummaryIsCurrent
  <2>1. /\ summary'.ownershipChecked
        /\ summary'.signable = SignableBy(psbt', key')
        /\ summary'.canSign = SignableBy(psbt', key')
    BY SummariseFacts
  <2>2. summary'.outputs = LabelsOf(psbt', key')
    BY SummariseFacts
  <2>3. summary'.safeToSign <=> Blocks(psbt', LabelsOf(psbt', key')) = {}
    BY SummariseFacts
  <2>4. \A i \in SignableBy(psbt', key') :
           i \in DOMAIN psbt'.inputs /\ key' \in psbt'.inputs[i].owners
    BY DEF SignableBy
  <2> QED
    BY <2>1, <2>2, <2>3, <2>4
<1> QED
  BY <1>2, <1>3, <1>4, <1>5, <1>6 DEF IInv

(* A summary rewritten by clearKey(), with no key left, satisfies it too.   *)
LEMMA ClearedSummary ==
    ASSUME IInv, psbt' = psbt, key' = NoKey, summary' = Forgotten(summary)
    PROVE  IInv'
<1>1. summary \in Summaries
  BY DEF IInv, TypeOK
<1>2. /\ summary' \in Summaries
      /\ DOMAIN summary'.outputs = DOMAIN summary.outputs
      /\ Labelled(summary'.outputs, "Verified") = {}
      /\ summary'.verifiedChange = {}
      /\ summary'.leaving = DOMAIN summary.outputs
  BY <1>1, ForgottenType
<1>3. summary'.safeToSign = summary.safeToSign
  BY <1>1 DEF Forgotten, Summaries
<1>4. TypeOK'
  BY <1>2 DEF IInv, TypeOK
<1>5. (psbt = NoPsbt \/ ~psbt.complete => Blank(summary))'
  BY <1>2, <1>3 DEF IInv, Blank
<1>6. TotalsFollowLabels'
  BY <1>2 DEF TotalsFollowLabels
<1>7. SummaryIsCurrent'
  BY DEF SummaryIsCurrent
<1> QED
  BY <1>2, <1>4, <1>5, <1>6, <1>7 DEF IInv

(* Signatures change neither what the outputs are labelled nor what is      *)
(* refused, and leave no input signable that was not.                       *)
LEMMA SignaturesChangeNoVerdict ==
    ASSUME NEW p \in Psbts, NEW k \in Masters, NEW S,
           NEW q, q = WithSignatures(p, k, S), NEW L
    PROVE  /\ LabelsOf(q, k) = LabelsOf(p, k)
           /\ Blocks(q, L) = Blocks(p, L)
           /\ SignableBy(q, k) \subseteq SignableBy(p, k)
<1>1. /\ q \in Psbts /\ q.outputs = p.outputs
      /\ q.finalised = p.finalised /\ q.overspends = p.overspends
      /\ Len(q.inputs) = Len(p.inputs) /\ DOMAIN q.inputs = DOMAIN p.inputs
      /\ \A i \in DOMAIN p.inputs :
            /\ q.inputs[i].known = p.inputs[i].known
            /\ q.inputs[i].named = p.inputs[i].named
            /\ q.inputs[i].owners = p.inputs[i].owners
            /\ p.inputs[i].sigs \subseteq q.inputs[i].sigs
  BY WithSignaturesType
<1>2. LabelsOf(q, k) = LabelsOf(p, k)
  BY <1>1 DEF LabelsOf
<1>3. (q.inputs = <<>>) <=> (p.inputs = <<>>)
  BY <1>1 DEF Psbts
<1>4. Blocks(q, L) = Blocks(p, L)
  BY <1>1, <1>3 DEF Blocks
<1>5. SignableBy(q, k) \subseteq SignableBy(p, k)
  BY <1>1 DEF SignableBy
<1> QED
  BY <1>2, <1>4, <1>5

(* Every step of the engine keeps the invariant.                            *)
LEMMA InvariantStep == IInv /\ [Next]_vars => IInv'
<1> SUFFICES ASSUME IInv, [Next]_vars PROVE IInv'
  OBVIOUS
<1>1. psbt \in Psbts \cup {NoPsbt} /\ key \in Slot /\ summary \in Summaries
  BY DEF IInv, TypeOK, Slot
<1>2. ASSUME NEW f \in Files, Load(f) PROVE IInv'
  <2>1. psbt' \in Psbts /\ key' \in Slot /\ summary' = Summarise(psbt', key')
    BY <1>1, <1>2, FileAssumption DEF Load
  <2> QED
    BY <2>1, FreshSummary
<1>3. CASE Unload
  <2>1. /\ psbt' = NoPsbt /\ key' \in Slot /\ summary' = EmptySummary
    BY <1>1, <1>3 DEF Unload
  <2>2. /\ summary'.outputs = <<>> /\ ~summary'.safeToSign
        /\ summary'.verifiedChange = {} /\ summary'.leaving = {}
    BY <2>1 DEF EmptySummary
  <2>3. DOMAIN summary'.outputs = {}
    BY <2>2
  <2>4. Labelled(summary'.outputs, "Verified") = {}
    BY <2>3 DEF Labelled
  <2>5. TypeOK'
    BY <2>1, EmptySummaryType DEF TypeOK, Slot
  <2> QED
    BY <2>1, <2>2, <2>3, <2>4, <2>5 DEF IInv, Blank, TotalsFollowLabels, SummaryIsCurrent
<1>4. ASSUME NEW k \in Masters, SetKey(k) PROVE IInv'
  <2>1. CASE psbt # NoPsbt
    <3>1. psbt' \in Psbts /\ key' \in Slot /\ summary' = Summarise(psbt', key')
      BY <1>1, <1>4, <2>1 DEF SetKey, Slot
    <3> QED
      BY <3>1, FreshSummary
  <2>2. CASE psbt = NoPsbt
    <3>1. psbt' = NoPsbt /\ key' = k /\ summary' = Forgotten(summary)
      BY <1>4, <2>2 DEF SetKey
    <3>2. Blank(summary)
      BY <2>2 DEF IInv
    <3>3. /\ summary' \in Summaries
          /\ DOMAIN summary'.outputs = DOMAIN summary.outputs
          /\ Labelled(summary'.outputs, "Verified") = {}
          /\ summary'.verifiedChange = {}
          /\ summary'.leaving = DOMAIN summary.outputs
      BY <1>1, <3>1, ForgottenType
    <3>4. summary'.safeToSign = summary.safeToSign
      BY <1>1, <3>1 DEF Forgotten, Summaries
    <3>5. TypeOK'
      BY <3>1, <3>3 DEF TypeOK
    <3>6. Blank(summary)'
      BY <3>2, <3>3, <3>4 DEF Blank
    <3>7. TotalsFollowLabels'
      BY <3>3 DEF TotalsFollowLabels
    <3>8. SummaryIsCurrent'
      BY <3>1 DEF SummaryIsCurrent
    <3> QED
      BY <3>3, <3>5, <3>6, <3>7, <3>8 DEF IInv
  <2> QED
    BY <2>1, <2>2
<1>5. CASE ClearKey
  BY <1>5, ClearedSummary DEF ClearKey
<1>6. CASE Sign
  <2>1. psbt \in Psbts /\ key \in Masters
    BY <1>1, <1>6 DEF Sign, MaySign, Slot
  <2>2. psbt' \in Psbts
    BY <1>6, <2>1, WithSignaturesType DEF Sign
  <2> QED
    BY <1>1, <1>6, <2>2, FreshSummary DEF Sign
<1>7. CASE SignRejected
  <2>1. psbt \in Psbts /\ key \in Masters /\ summary.safeToSign
    BY <1>1, <1>7 DEF SignRejected, MaySign, Slot
  <2>2. PICK S : psbt' = WithSignatures(psbt, key, S)
    BY <1>7 DEF SignRejected
  <2>3. key' = key /\ summary' = summary
    BY <1>7 DEF SignRejected
  <2>4. /\ psbt' \in Psbts /\ psbt'.complete = psbt.complete
        /\ DOMAIN psbt'.inputs = DOMAIN psbt.inputs
        /\ \A i \in DOMAIN psbt.inputs : psbt'.inputs[i].owners = psbt.inputs[i].owners
    BY <2>1, <2>2, WithSignaturesType
  <2>5. /\ LabelsOf(psbt', key) = LabelsOf(psbt, key)
        /\ Blocks(psbt', summary.outputs) = Blocks(psbt, summary.outputs)
        /\ SignableBy(psbt', key) \subseteq SignableBy(psbt, key)
    BY <2>1, <2>2, SignaturesChangeNoVerdict
  <2>6. psbt.complete
    BY <2>1 DEF IInv, Blank
  <2>7. TypeOK'
    BY <2>3, <2>4 DEF IInv, TypeOK
  <2>8. SummaryIsCurrent'
    <3>1. /\ psbt # NoPsbt /\ key # NoKey
      BY <2>1, FileAssumption, KeyAssumption
    <3>2. /\ summary.ownershipChecked
          /\ summary.outputs = LabelsOf(psbt, key)
          /\ summary.safeToSign <=> Blocks(psbt, summary.outputs) = {}
          /\ SignableBy(psbt, key) \subseteq summary.signable
          /\ summary.canSign = summary.signable
          /\ \A i \in summary.signable :
                i \in DOMAIN psbt.inputs /\ key \in psbt.inputs[i].owners
      BY <2>6, <3>1 DEF IInv, SummaryIsCurrent
    <3> QED
      BY <2>3, <2>4, <2>5, <3>2 DEF SummaryIsCurrent
  <2> QED
    BY <2>1, <2>3, <2>4, <2>6, <2>7, <2>8, FileAssumption, KeyAssumption
    DEF IInv, TotalsFollowLabels
<1>8. CASE UNCHANGED vars
  BY <1>8 DEF vars, IInv, TypeOK, TotalsFollowLabels, SummaryIsCurrent
<1> QED
  BY <1>2, <1>3, <1>4, <1>5, <1>6, <1>7, <1>8 DEF Next

(* Nothing is loaded and no key resident at first.                          *)
LEMMA EngineInit == Init => IInv
<1> SUFFICES ASSUME Init PROVE IInv
  OBVIOUS
<1>1. /\ summary.outputs = <<>> /\ ~summary.safeToSign
      /\ summary.verifiedChange = {} /\ summary.leaving = {}
  BY DEF Init, EmptySummary
<1>2. DOMAIN summary.outputs = {}
  BY <1>1
<1>3. Labelled(summary.outputs, "Verified") = {}
  BY <1>2 DEF Labelled
<1>4. TypeOK
  BY EmptySummaryType DEF Init, TypeOK
<1> QED
  BY <1>1, <1>2, <1>3, <1>4
  DEF Init, IInv, Blank, TotalsFollowLabels, SummaryIsCurrent

(* The invariant holds in every reachable state.                            *)
THEOREM Invariance == Spec => []IInv
BY EngineInit, InvariantStep, PTL DEF Spec

-----------------------------------------------------------------------------
(***************************************************************************)
(* What follows from it                                                    *)
(***************************************************************************)

(* The variables keep their types (TypeOK).                                 *)
THEOREM TypeCorrect == Spec => []TypeOK
<1>1. IInv => TypeOK
  BY DEF IInv
<1> QED
  BY <1>1, Invariance, PTL

(* The totals always agree with the labels beside the outputs.              *)
THEOREM TotalsCorrect == Spec => []TotalsFollowLabels
<1>1. IInv => TotalsFollowLabels
  BY DEF IInv
<1> QED
  BY <1>1, Invariance, PTL

(* The cached summary decides as a fresh one would.                         *)
THEOREM SummaryCorrect == Spec => []SummaryIsCurrent
<1>1. IInv => SummaryIsCurrent
  BY DEF IInv
<1> QED
  BY <1>1, Invariance, PTL

(* Some claimed path leads to a key of the master that the output pays or   *)
(* names.                                                                   *)
LEMMA VerifiedPays ==
    ASSUME NEW o \in Outputs, NEW k, "Verified" \in VerdictsFor(o, k)
    PROVE  \E path \in Paths : PaysOrNames(<<k, path>>, o.script)
<1>1. PICK n \in DOMAIN o.claims :
          o.claims[n].fp = k /\ VerdictOf(o, o.claims[n]) = "Verified"
  BY DEF VerdictsFor
<1>2. o.claims[n] \in Claims
  BY <1>1 DEF Outputs
<1>3. o.claims[n].path \in Paths
  BY <1>1, <1>2 DEF VerdictOf, Claims
<1>4. OwnershipForScript(<<k, o.claims[n].path>>, o) = "Verified"
  BY <1>1 DEF VerdictOf
<1> QED
  BY <1>3, <1>4, VerdictIsEarned

(* In a state that satisfies the invariant every Verified label is earned.  *)
LEMMA LabelsAreEarned == IInv => VerifiedIsEarned
<1> SUFFICES ASSUME IInv, NEW j \in DOMAIN summary.outputs,
                    summary.outputs[j].ownership = "Verified"
             PROVE  /\ psbt # NoPsbt
                    /\ key # NoKey
                    /\ ~psbt.outputs[j].data
                    /\ \E path \in Paths :
                          PaysOrNames(<<key, path>>, psbt.outputs[j].script)
  BY DEF VerifiedIsEarned
<1>1. psbt # NoPsbt /\ psbt.complete
  BY DEF IInv, Blank
<1>2. key # NoKey
  BY DEF IInv, Labelled
<1>3. psbt \in Psbts /\ key \in Slot
  BY <1>1 DEF IInv, TypeOK, Slot
<1>4. summary.outputs = LabelsOf(psbt, key)
  BY <1>1, <1>2 DEF IInv, SummaryIsCurrent
<1>5. Label(psbt.outputs[j], key).ownership = "Verified"
  BY <1>3, <1>4, LabelsOfType
<1>6. ~psbt.outputs[j].data
  BY <1>5 DEF Label, ClaimOnly
<1>7. Strongest(VerdictsFor(psbt.outputs[j], key)) = "Verified"
  BY <1>2, <1>5, <1>6 DEF Label
<1>8. "Verified" \in VerdictsFor(psbt.outputs[j], key)
  BY <1>7 DEF Strongest
<1>9. j \in DOMAIN psbt.outputs
  BY <1>3, <1>4, LabelsOfType, <1>1
<1>10. psbt.outputs[j] \in Outputs
  BY <1>1, <1>3, <1>9 DEF Psbts
<1>11. PICK path \in Paths : PaysOrNames(<<key, path>>, psbt.outputs[j].script)
  BY <1>8, <1>10, VerifiedPays
<1> QED
  BY <1>1, <1>2, <1>6, <1>11

(* A Verified label never outlives the key or the file that earned it.      *)
THEOREM VerifiedCorrect == Spec => []VerifiedIsEarned
BY LabelsAreEarned, Invariance, PTL

(* The abstract device reads an output as the engine does.                  *)
LEMMA SameVerdicts ==
    ASSUME NEW o, NEW k
    PROVE  Device!VerdictsFor(o, k) = VerdictsFor(o, k)
<1>1. ASSUME NEW pub PROVE Device!OwnershipForScript(pub, o) = OwnershipForScript(pub, o)
  <2>1. ASSUME NEW s PROVE /\ Device!Form(s) = Form(s)
                           /\ Device!Hash(s) = Hash(s)
                           /\ Device!Names(s, pub) = Names(s, pub)
    BY DEF Form, Hash, Names, Device!Form, Device!Hash, Device!Names
  <2>2. ASSUME NEW s PROVE /\ Device!P2pkh(s) = P2pkh(s) /\ Device!P2wpkh(s) = P2wpkh(s)
                           /\ Device!P2tr(s) = P2tr(s) /\ Device!P2wsh(s) = P2wsh(s)
                           /\ Device!P2sh(s) = P2sh(s)
    BY <2>1 DEF P2pkh, P2wpkh, P2tr, P2wsh, P2sh, Hash, Device!Hash,
                Device!P2pkh, Device!P2wpkh, Device!P2tr, Device!P2wsh, Device!P2sh
  <2>3. ASSUME NEW program, NEW w
        PROVE  Device!WitnessVerdict(pub, program, w) = WitnessVerdict(pub, program, w)
    BY <2>1, <2>2 DEF WitnessVerdict, Decided, Device!WitnessVerdict, Device!Decided
  <2>4. ASSUME NEW s, NEW r, NEW w
        PROVE  Device!RedeemVerdict(pub, s, r, w) = RedeemVerdict(pub, s, r, w)
    BY <2>1, <2>2, <2>3 DEF RedeemVerdict, Decided, Device!RedeemVerdict, Device!Decided
  <2> QED
    BY <2>1, <2>2, <2>3, <2>4
    DEF OwnershipForScript, Decided, Device!OwnershipForScript, Device!Decided
<1>2. ASSUME NEW c PROVE Device!VerdictOf(o, c) = VerdictOf(o, c)
  BY <1>1 DEF VerdictOf, Device!VerdictOf
<1> QED
  BY <1>2 DEF VerdictsFor, Device!VerdictsFor

(* A PSBT without refusals is one the device may authorise: the findings of *)
(* deriveFindings() cover every condition of the abstract specification.    *)
LEMMA NoBlocksMeansAuthorisable ==
    ASSUME NEW p \in Psbts, NEW k \in Masters,
           p.complete, Blocks(p, LabelsOf(p, k)) = {}
    PROVE  Device!Authorisable(p, k)
<1>1. /\ p.inputs # <<>> /\ p.outputs # <<>> /\ ~p.finalised
      /\ \A i \in DOMAIN p.inputs : p.inputs[i].known
  BY DEF Blocks, BlockReasons
<1>2. ~p.overspends /\ \E i \in DOMAIN p.inputs : p.inputs[i].named # {}
  BY <1>1 DEF Blocks, BlockReasons
<1>3. Labelled(LabelsOf(p, k), "Mismatch") = {}
  BY DEF Blocks, BlockReasons
<1>4. ASSUME NEW j \in DOMAIN p.outputs PROVE ~Device!Forged(p.outputs[j], k)
  <2> DEFINE o == p.outputs[j]
  <2>1. Label(o, k).ownership # "Mismatch"
    BY <1>3, LabelsOfType DEF Labelled, Slot
  <2>2. SUFFICES ASSUME ~o.data, "Mismatch" \in VerdictsFor(o, k),
                        "Verified" \notin VerdictsFor(o, k)
                 PROVE  FALSE
    BY SameVerdicts DEF Device!Forged
  <2>3. Strongest(VerdictsFor(o, k)) = "Mismatch"
    BY <2>2 DEF Strongest
  <2>4. Label(o, k).ownership = "Mismatch"
    BY <2>2, <2>3, KeyAssumption DEF Label
  <2> QED
    BY <2>1, <2>4
<1> QED
  BY <1>1, <1>2, <1>4 DEF Device!Authorisable

(* What lets sign() start from the cached summary is what the device would  *)
(* check at that moment.                                                    *)
LEMMA MaySignIsAuthorised ==
    ASSUME IInv, MaySign
    PROVE  Device!Authorisable(psbt, key)
<1>1. psbt \in Psbts /\ key \in Masters /\ summary.safeToSign
  BY DEF MaySign, IInv, TypeOK
<1>2. psbt.complete
  BY <1>1 DEF IInv, Blank
<1>3. Blocks(psbt, LabelsOf(psbt, key)) = {}
  BY <1>1, <1>2 DEF MaySign, IInv, SummaryIsCurrent
<1> QED
  BY <1>1, <1>2, <1>3, NoBlocksMeansAuthorisable

(* The engine implements the cacheless device: sign() never adds a          *)
(* signature the device would not have authorised at that moment.           *)
THEOREM Refinement == Spec => ImplementsDevice
<1>1. Init => Device!Init
  BY DEF Init, Device!Init
<1>2. IInv /\ [Next]_vars => [Device!Next]_(Device!vars)
  <2> SUFFICES ASSUME IInv, [Next]_vars PROVE [Device!Next]_(Device!vars)
    OBVIOUS
  <2> USE DEF Device!Next, Device!vars
  <2>1. ASSUME NEW f \in Files, Load(f) PROVE Device!Open
    BY <2>1 DEF Load, Device!Open
  <2>2. CASE Unload
    BY <2>2 DEF Unload, Device!Close
  <2>3. ASSUME NEW k \in Masters, SetKey(k) PROVE Device!Enter
    BY <2>3 DEF SetKey, Device!Enter
  <2>4. CASE ClearKey
    BY <2>4 DEF ClearKey, Device!Forget
  <2>5. ASSUME MaySign PROVE Device!Authorisable(psbt, key)
    BY <2>5, MaySignIsAuthorised
  <2>6. ASSUME MaySign, UNCHANGED key, NEW S \in SUBSET SignableBy(psbt, key),
               psbt' = WithSignatures(psbt, key, S)
        PROVE  Device!Sign
    <3>1. /\ S \in SUBSET DOMAIN psbt.inputs
          /\ \A i \in S : key \in psbt.inputs[i].owners
      BY <2>6 DEF SignableBy
    <3> QED
      BY <2>5, <2>6, <3>1
      DEF MaySign, Device!Sign, Device!WithSignatures, WithSignatures
  <2>7. CASE Sign
    BY <2>6, <2>7 DEF Sign
  <2>8. CASE SignRejected
    BY <2>6, <2>8 DEF SignRejected
  <2>9. CASE UNCHANGED vars
    BY <2>9 DEF vars
  <2> QED
    BY <2>1, <2>2, <2>3, <2>4, <2>7, <2>8, <2>9 DEF Next
<1> QED
  BY <1>1, <1>2, Invariance, PTL DEF Spec, ImplementsDevice, Device!Spec
=============================================================================
