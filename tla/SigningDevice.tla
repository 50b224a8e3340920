--------------------------- MODULE SigningDevice ---------------------------
(***************************************************************************)
(* What the signing engine promises, without its cache: at most one PSBT   *)
(* and one key at a time, and a signature is added only with the resident  *)
(* key, on inputs that key owns, of a transaction that passes every check  *)
(* at the moment of signing.  The engine decides from a summary computed   *)
(* earlier; PsbtEngine is shown to implement this all the same.            *)
(***************************************************************************)
EXTENDS Transaction

VARIABLES psbt,   \* the PSBT in memory, or NoPsbt
          key     \* the resident master key, or NoKey

vars == <<psbt, key>>

(* An output that names k as its owner and that k demonstrably does not own. *)
Forged(o, k) ==
    /\ ~o.data
    /\ "Mismatch" \in VerdictsFor(o, k)
    /\ "Verified" \notin VerdictsFor(o, k)

(* The transaction is one the device may put a signature by k on. *)
Authorisable(p, k) ==
    /\ p.complete
    /\ ~p.finalised
    /\ ~p.overspends
    /\ p.inputs # <<>> /\ p.outputs # <<>>
    /\ \A i \in DOMAIN p.inputs : p.inputs[i].known
    /\ \E i \in DOMAIN p.inputs : p.inputs[i].named # {}
    /\ \A j \in DOMAIN p.outputs : ~Forged(p.outputs[j], k)

Init == psbt = NoPsbt /\ key = NoKey

Open == psbt' \in Files /\ UNCHANGED key

Close == psbt' = NoPsbt /\ UNCHANGED key

Enter == key' \in Masters /\ UNCHANGED psbt

Forget == key' = NoKey /\ UNCHANGED psbt

Sign ==
    /\ psbt # NoPsbt
    /\ key # NoKey
    /\ Authorisable(psbt, key)
    /\ \E S \in SUBSET DOMAIN psbt.inputs :
          /\ \A i \in S : key \in psbt.inputs[i].owners
          /\ psbt' = WithSignatures(psbt, key, S)
    /\ UNCHANGED key

Next == Open \/ Close \/ Enter \/ Forget \/ Sign

Spec == Init /\ [][Next]_vars
=============================================================================
