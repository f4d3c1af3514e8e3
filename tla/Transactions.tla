---------------------------- MODULE Transactions ----------------------------
(***************************************************************************)
(* One transaction from the hands of whoever built or parsed it, through   *)
(* syntactic verification, to the UTXOs it produces.  The transaction is   *)
(* an ImportTx of the P-chain (vms/platformvm/txs/import_tx.go), which     *)
(* remembers that it was verified, or a transaction of the X-chain         *)
(* (vms/avm/txs), visited by the utxoGetter; the UTXOs are checked as      *)
(* vms/components/cflt does.                                               *)
(*                                                                         *)
(* Of an input or an output the model keeps what the code looks at: the    *)
(* id of the UTXO an input consumes, whether its own verification fails,   *)
(* the asset and the payload of an output.  Signatures, amounts and bytes  *)
(* are left out; the id of a transaction stands for its bytes.             *)
(***************************************************************************)
EXTENDS Naturals, Sequences, FiniteSets, SequencesExt

CONSTANTS
  IDs,        \* the ids of transactions and assets other than ids.Empty
  Payloads,   \* the payloads (verify.State) of outputs
  NULL,       \* a nil pointer
  MaxInputs,  \* bound: the imported inputs of a tx; their UTXOs are 1..MaxInputs
  MaxOuts     \* bound: the outputs of a tx, the initial states of an asset,
              \* the outputs of a state and the operations of a tx

ASSUME MaxInputs \in Nat /\ MaxOuts \in Nat /\ NULL \notin IDs

VARIABLES
  tx,     \* the transaction at hand, nil before there is one
  err,    \* what the last SyntacticVerify returned, "none" before the first
  utxos   \* utxoGetter.utxos: what visiting the transaction last produced

vars == <<tx, err, utxos>>

Empty == "ids.Empty"

\* The conversion uint32(n) of a length: its two lower 16-bit halves.
Uint32(n) == (n % 65536) + 65536 * ((n \div 65536) % 65536)

-----------------------------------------------------------------------------
(***************************************************************************)
(* The ImportTx of the P-chain                                             *)
(***************************************************************************)

\* An imported input: the UTXO it consumes, what its Verify returns, and
\* the FxID that InitCtx fills in.
TransferableInputs ==
  [id : 1..MaxInputs, verify : {"nil", "errInput"}, FxID : {Empty, "secp256k1fx"}]

\* ImportTx; of the BaseTx it embeds: the UTXOs its inputs consume, what
\* its SyntacticVerify returns, and the flag.
ImportTxs ==
  [type : {"P.ImportTx"}, Ins : SUBSET (1..MaxInputs),
   base : {"nil", "errBase"}, SyntacticallyVerified : BOOLEAN,
   ImportedInputs : BoundedSeq(TransferableInputs, MaxInputs)]

InitCtxOf(t) ==
  [t EXCEPT !.ImportedInputs =
     [i \in DOMAIN @ |-> [@[i] EXCEPT !.FxID = "secp256k1fx"]]]

InputUTXOs(t) == {in.id : in \in ToSet(t.ImportedInputs)}

InputIDs(t) == t.Ins \cup InputUTXOs(t)

\* cflt.IsSortedAndUniqueTransferableInputs: in strictly rising order.
IsSortedAndUniqueTransferableInputs(ins) ==
  \A i \in 1..(Len(ins) - 1) : ins[i].id < ins[i + 1].id

\* --- variant: the flag is raised before the inputs are looked at ---
SyntacticVerifyOfFlagFirst(t) ==
  LET bad == SelectSeq(t.ImportedInputs, LAMBDA in : in.verify # "nil")
      verified == [t EXCEPT !.SyntacticallyVerified = TRUE]
  IN  IF t.SyntacticallyVerified THEN [err |-> "nil", tx |-> t]
      ELSE IF t.ImportedInputs = <<>> THEN [err |-> "errNoImportInputs", tx |-> t]
      ELSE IF t.base # "nil" THEN [err |-> t.base, tx |-> t]
      ELSE IF bad # <<>> THEN [err |-> Head(bad).verify, tx |-> verified]
      ELSE IF ~IsSortedAndUniqueTransferableInputs(t.ImportedInputs)
        THEN [err |-> "errInputsNotSortedUnique", tx |-> verified]
      ELSE [err |-> "nil", tx |-> verified]

\* ImportTx.SyntacticVerify of a tx that is not nil: the error, and the tx
\* with the flag raised when every test was passed.
SyntacticVerifyOf(t) ==
  LET bad == SelectSeq(t.ImportedInputs, LAMBDA in : in.verify # "nil")
  IN  IF t.SyntacticallyVerified THEN [err |-> "nil", tx |-> t]
      ELSE IF t.ImportedInputs = <<>> THEN [err |-> "errNoImportInputs", tx |-> t]
      ELSE IF t.base # "nil" THEN [err |-> t.base, tx |-> t]
      ELSE IF bad # <<>> THEN [err |-> Head(bad).verify, tx |-> t]
      ELSE IF ~IsSortedAndUniqueTransferableInputs(t.ImportedInputs)
        THEN [err |-> "errInputsNotSortedUnique", tx |-> t]
      ELSE [err |-> "nil", tx |-> [t EXCEPT !.SyntacticallyVerified = TRUE]]

IsImportTx == tx # NULL /\ tx.type = "P.ImportTx"

\* A tx is built or parsed: nothing of it is verified, no FxID is set.
NewImportTx(t) ==
  /\ ~t.SyntacticallyVerified
  /\ \A in \in ToSet(t.ImportedInputs) : in.FxID = Empty
  /\ tx' = t
  /\ err' = "none"
  /\ utxos' = <<>>

InitCtx ==
  /\ IsImportTx
  /\ tx' = InitCtxOf(tx)
  /\ UNCHANGED <<err, utxos>>

ImportTxSyntacticVerify ==
  /\ tx = NULL \/ IsImportTx
  /\ LET r == IF tx = NULL THEN [err |-> "ErrNilTx", tx |-> tx]
              ELSE SyntacticVerifyOf(tx)
     IN  tx' = r.tx /\ err' = r.err
  /\ UNCHANGED utxos

\* The fields of a tx are exported: its holder changes one, and lowers
\* the flag or, as nothing in import_tx.go does it for him, leaves it.
Amend(base, lowered) ==
  /\ IsImportTx
  /\ tx' = [tx EXCEPT !.base = base,
                      !.SyntacticallyVerified = @ /\ ~lowered]
  /\ UNCHANGED <<err, utxos>>

-----------------------------------------------------------------------------
(***************************************************************************)
(* The transactions of the X-chain and the utxoGetter                      *)
(***************************************************************************)

TransferableOutputs == [Asset : IDs, Out : Payloads]

\* What an operation of the property fx produces.
MintOperationOuts == <<"MintOutput", "OwnedOutput">>
BurnOperationOuts == <<>>
Outs(op) ==
  IF op.Op = "MintOperation" THEN MintOperationOuts ELSE BurnOperationOuts

Operations == [Asset : IDs, Op : {"MintOperation", "BurnOperation"}]

\* A transaction with the BaseTx it embeds: a CreateAssetTx has initial
\* states, each a list of outputs; an OperationTx has operations.
BaseTxs(type) ==
  [type : {type}, id : {Empty}, bytes : {Empty},
   Outs : BoundedSeq(TransferableOutputs, MaxOuts), States : {<<>>}, Ops : {<<>>}]

CreateAssetTxs ==
  [type : {"CreateAssetTx"}, id : {Empty}, bytes : {Empty},
   Outs : BoundedSeq(TransferableOutputs, MaxOuts),
   States : BoundedSeq(BoundedSeq(Payloads, MaxOuts), MaxOuts), Ops : {<<>>}]

OperationTxs ==
  [type : {"OperationTx"}, id : {Empty}, bytes : {Empty},
   Outs : BoundedSeq(TransferableOutputs, MaxOuts), States : {<<>>},
   Ops : BoundedSeq(Operations, MaxOuts)]

AvmTxs ==
  BaseTxs("BaseTx") \cup BaseTxs("ImportTx") \cup BaseTxs("ExportTx")
    \cup CreateAssetTxs \cup OperationTxs

IsAvmTx == tx # NULL /\ tx.type # "P.ImportTx"

UTXO(txID, index, asset, out) ==
  [TxID |-> txID, OutputIndex |-> Uint32(index), Asset |-> asset,
   Out |-> out]

\* utxoGetter.BaseTx: a fresh list, one UTXO for each output, in order.
GetterBaseTx(t) ==
  [i \in DOMAIN t.Outs |-> UTXO(t.id, i - 1, t.Outs[i].Asset, t.Outs[i].Out)]

\* --- variant: the index of an appended UTXO is its place in its list ---
AppendedByPlace(u, txID, assets, outs) ==
  u \o [i \in DOMAIN outs |-> UTXO(txID, i - 1, assets[i], outs[i])]

\* --- variant: the index is the length after the UTXO was appended ---
AppendedCountingItself(u, txID, assets, outs) ==
  u \o [i \in DOMAIN outs |-> UTXO(txID, Len(u) + i, assets[i], outs[i])]

\* The loops of CreateAssetTx and OperationTx: every output is appended
\* with the length of the list so far as its index.
Appended(u, txID, assets, outs) ==
  u \o [i \in DOMAIN outs |-> UTXO(txID, Len(u) + i - 1, assets[i], outs[i])]

\* utxoGetter.CreateAssetTx: the outputs of the initial states follow, as
\* UTXOs of the asset the tx creates.
GetterCreateAssetTx(t) ==
  LET outs == FlattenSeq(t.States)
  IN  Appended(GetterBaseTx(t), t.id, [i \in DOMAIN outs |-> t.id], outs)

\* utxoGetter.OperationTx: the outputs of the operations follow, each of
\* the asset of its operation.
GetterOperationTx(t) ==
  LET assets == FlattenSeq([i \in DOMAIN t.Ops |->
                              [j \in DOMAIN Outs(t.Ops[i]) |-> t.Ops[i].Asset]])
      outs == FlattenSeq([i \in DOMAIN t.Ops |-> Outs(t.Ops[i])])
  IN  Appended(GetterBaseTx(t), t.id, assets, outs)

\* Visit of a tx: the method of the visitor for its type.
Visit(t) ==
  CASE t.type = "CreateAssetTx" -> GetterCreateAssetTx(t)
    [] t.type = "OperationTx" -> GetterOperationTx(t)
    [] OTHER -> GetterBaseTx(t)

\* verify.All: the first error, nil when there is none.
All(errs) ==
  LET bad == SelectSeq(errs, LAMBDA e : e # "nil")
  IN  IF bad = <<>> THEN "nil" ELSE Head(bad)

AssetVerify(asset) == IF asset = Empty THEN "errEmptyAssetID" ELSE "nil"

\* UTXO.Verify; the id of a UTXO that is not nil verifies, and so does a
\* payload that is there.
UTXOVerify(utxo) ==
  IF utxo = NULL THEN "errNilUTXO"
  ELSE IF utxo.Out = NULL THEN "errEmptyUTXO"
  ELSE All(<<"nil", AssetVerify(utxo.Asset), "nil">>)

NewTx(t) ==
  /\ tx' = t
  /\ err' = "none"
  /\ utxos' = <<>>

\* Initialize gives the tx its bytes, and with them its id, once, before
\* anything is asked of the tx.
Initialize(bytes) ==
  /\ IsAvmTx /\ tx.bytes = Empty
  /\ err = "none" /\ utxos = <<>>
  /\ tx' = [tx EXCEPT !.bytes = bytes, !.id = bytes]
  /\ UNCHANGED <<err, utxos>>

\* BaseTx.SyntacticVerify: the metadata, then the flow of funds.
BaseTxSyntacticVerify(metadata, flow) ==
  /\ tx = NULL \/ (IsAvmTx /\ tx.type = "BaseTx")
  /\ err' = IF tx = NULL THEN "errNilTx" ELSE All(<<metadata, flow>>)
  /\ UNCHANGED <<tx, utxos>>

\* Tx.UTXOs: a new utxoGetter visits the tx.
UTXOs ==
  /\ IsAvmTx
  /\ utxos' = Visit(tx)
  /\ UNCHANGED <<tx, err>>

-----------------------------------------------------------------------------
Init ==
  /\ tx = NULL
  /\ err = "none"
  /\ utxos = <<>>

Next ==
  \/ \E t \in ImportTxs : NewImportTx(t)
  \/ InitCtx
  \/ ImportTxSyntacticVerify
  \/ \E base \in {"nil", "errBase"}, lowered \in BOOLEAN : Amend(base, lowered)
  \/ \E t \in AvmTxs : NewTx(t)
  \/ \E bytes \in IDs : Initialize(bytes)
  \/ \E metadata \in {"nil", "errMetadata"}, flow \in {"nil", "errFlow"} :
       BaseTxSyntacticVerify(metadata, flow)
  \/ UTXOs

Spec == Init /\ [][Next]_vars

-----------------------------------------------------------------------------
Errors ==
  {"none", "nil", "ErrNilTx", "errNilTx", "errNoImportInputs", "errBase",
   "errInput", "errInputsNotSortedUnique", "errMetadata", "errFlow"}

\* The type invariant; an index of a UTXO is below the number of UTXOs.
TypeOK ==
  /\ \/ tx = NULL
     \/ tx \in ImportTxs
     \/ \E bytes \in IDs \cup {Empty} : [tx EXCEPT !.id = Empty, !.bytes = Empty] \in AvmTxs
                                          /\ tx.id = bytes /\ tx.bytes = bytes
  /\ err \in Errors
  /\ utxos \in Seq([TxID : IDs \cup {Empty}, OutputIndex : 0..(Len(utxos) - 1),
                    Asset : IDs \cup {Empty},
                    Out : Payloads \cup ToSet(MintOperationOuts)])

\* What SyntacticVerify is there to establish: the BaseTx is well formed,
\* something is imported, every imported input verifies, and no UTXO is
\* imported twice, the inputs being in the order of their UTXOs.
WellFormed(t) ==
  /\ t.base = "nil"
  /\ t.ImportedInputs # <<>>
  /\ \A i \in DOMAIN t.ImportedInputs : t.ImportedInputs[i].verify = "nil"
  /\ \A i, j \in DOMAIN t.ImportedInputs :
       i < j => t.ImportedInputs[i].id < t.ImportedInputs[j].id
  /\ Cardinality(InputUTXOs(t)) = Len(t.ImportedInputs)

Flagged(t) == t # NULL /\ t.type = "P.ImportTx" /\ t.SyntacticallyVerified

\* The flag SyntacticallyVerified lets ImportTx.SyntacticVerify return nil
\* without looking at the tx again (import_tx.go, "already passed syntactic
\* verification").  So the flag goes up only in a call of SyntacticVerify
\* that looked at every field and answers nil, on a tx that is well formed
\* then, whatever calls failed on the tx before; and a call that answers
\* nil leaves the flag up.  (The flag says
\* nothing of what its holder did to the tx afterwards: see Amend.)
FlagIsRaisedByVerification ==
  [][/\ Flagged(tx') /\ ~Flagged(tx) => WellFormed(tx') /\ err' = "nil"
     /\ ImportTxSyntacticVerify /\ err' = "nil" => Flagged(tx')]_vars

\* The outputs of a tx in the order the getter walks them: those of the
\* BaseTx, then those of the initial states or of the operations.
Produced(t) ==
  [i \in DOMAIN t.Outs |-> t.Outs[i].Out]
    \o FlattenSeq(t.States)
    \o FlattenSeq([i \in DOMAIN t.Ops |-> Outs(t.Ops[i])])

\* Tx.UTXOs returns one UTXO for each output the tx produces, in their
\* order, and the k-th of them has the index k-1: the indices that
\* utxoGetter.CreateAssetTx and OperationTx take from the length of the
\* list go on where utxoGetter.BaseTx stopped, so that no two UTXOs of a
\* tx share their UTXOID.  The UTXOs pass UTXO.Verify, but for those of
\* the initial states of a CreateAssetTx that Initialize has not been
\* called on: they carry the id of the tx as their asset, which is empty
\* until then, and fail with errEmptyAssetID.
UTXOsAreTheOutputsInOrder ==
  IsAvmTx /\ utxos # <<>> =>
    /\ Len(utxos) = Len(Produced(tx))
    /\ \A k \in DOMAIN utxos :
         /\ utxos[k].TxID = tx.id
         /\ utxos[k].OutputIndex = k - 1
         /\ utxos[k].Out = Produced(tx)[k]
         /\ UTXOVerify(utxos[k]) =
              IF tx.bytes = Empty /\ k > Len(tx.Outs) /\ tx.States # <<>>
              THEN "errEmptyAssetID" ELSE "nil"

=============================================================================
