--------------------------- MODULE VaultContents ---------------------------
(***************************************************************************)
(* What a vault promises about its sealed records, with no protocol in     *)
(* sight: records are uploaded under some key generation, deleted all at   *)
(* once, or re-encrypted.  Re-encryption is ONE step that moves every      *)
(* record to a fresh generation, and the salts and the recovery blob with  *)
(* it; it neither loses, adds, merges nor changes a document.              *)
(* VaultRekey, the begin / stage / commit protocol of app.py, implements   *)
(* this specification.                                                     *)
(***************************************************************************)
EXTENDS Naturals

CONSTANTS Docs,     \* what the user stores: one document per record id
          Vals,     \* what a document can say
          NoVal,    \* no record under this blind index
          MaxGen    \* key generations, a bound

VARIABLES store,    \* the sealed records, by blind index
          key,      \* the generation the stored salts belong to
          recovery  \* the generation the recovery blob unwraps to, 0 for none

contentsVars == <<store, key, recovery>>

Gens == 1..MaxGen

\* A blind index is the keyed hash of a record id: one per generation and document.
Blinds == Gens \X Docs
Empty == [b \in Blinds |-> NoVal]

Init ==
    /\ store \in [Blinds -> Vals \cup {NoVal}]
    /\ \A b \in Blinds : store[b] # NoVal => b[1] = 1
    /\ key = 1
    /\ recovery \in {0, 1}

\* One batch, whatever generation the page that wrote it holds.
Upload ==
    \E g \in Gens, D \in SUBSET Docs :
        \E v \in [D -> Vals] :
            /\ store' = [b \in Blinds |-> IF b[1] = g /\ b[2] \in D THEN v[b[2]]
                                                                    ELSE store[b]]
            /\ UNCHANGED <<key, recovery>>

Clear == store' = Empty /\ UNCHANGED <<key, recovery>>

SetRecovery == recovery' \in 0..MaxGen /\ UNCHANGED <<store, key>>

\* Every record is under g before and under the new generation k after.
Rekey ==
    \E g, k \in Gens :
        /\ k > key /\ k > g
        /\ \A b \in Blinds : store[b] # NoVal => b[1] = g
        /\ store' = [b \in Blinds |-> IF b[1] = k THEN store[<<g, b[2]>>] ELSE NoVal]
        /\ key' = k
        /\ recovery' = k

Next == Upload \/ Clear \/ SetRecovery \/ Rekey

Spec == Init /\ [][Next]_contentsVars
=============================================================================
