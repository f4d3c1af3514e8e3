---------------------------- MODULE WalletBackend ----------------------------
(***************************************************************************)
(* The backend of the P-chain wallet (wallet/chain/p/backend.go): the set  *)
(* of UTXOs the wallet may spend and the map of the transactions it has    *)
(* seen accepted.  AcceptTx removes what a transaction consumes, adds what *)
(* it produces, one UTXO at a time, and only then, under txsLock, records  *)
(* the transaction; GetTx reads the map under the read lock.               *)
(*                                                                         *)
(* The wallet is used from several goroutines.  Every call of ChainUTXOs   *)
(* and every operation on txsLock is one step of the goroutine that makes  *)
(* it, so the calls of different goroutines interleave between them.  A    *)
(* goroutine hands AcceptTx a transaction that the chain has accepted: its *)
(* inputs are in the UTXO set and no other transaction spends them.        *)
(***************************************************************************)
EXTENDS Naturals, FiniteSets, Sequences, SequencesExt

CONSTANTS
  Procs,        \* the goroutines that use the backend
  Txs,          \* the transactions the chain accepts
  InputIDs,     \* InputIDs[tx]: the UTXOs tx consumes
  Produced,     \* Produced[tx]: the UTXOs tx produces, in order
  GenesisUTXOs  \* the UTXOs the backend starts with

UTXOs == GenesisUTXOs \cup UNION {ToSet(Produced[tx]) : tx \in Txs}

ASSUME /\ \A tx \in Txs : InputIDs[tx] \subseteq UTXOs
       /\ \A tx \in Txs : IsInjective(Produced[tx])
       /\ \A t1, t2 \in Txs :
            t1 # t2 => /\ InputIDs[t1] \cap InputIDs[t2] = {}
                       /\ ToSet(Produced[t1]) \cap ToSet(Produced[t2]) = {}

VARIABLES
  utxos,    \* ChainUTXOs of the platform chain
  txs,      \* b.txs, the recorded transactions
  pc,       \* where each goroutine is in its call
  arg,      \* the transaction of the call
  toRemove, \* the inputs removeUTXOs still has to visit
  toAdd,    \* the outputs addUTXOs still has to visit
  writer,   \* txsLock: the goroutine that holds it for writing
  readers,  \* txsLock: the goroutines that hold it for reading
  pending,  \* txsLock: the goroutines blocked in Lock()
  failed,   \* history: the transactions whose AcceptTx returned an error
  issued,   \* history: the transactions handed to AcceptTx
  reply     \* what the last call of each goroutine returned

vars == <<utxos, txs, pc, arg, toRemove, toAdd, writer, readers, pending,
          failed, issued, reply>>

None == "none"

\* Where a call stands once the visitor has removed what is in `left':
\* tx.UTXOs() are added next, and with nothing to add the lock is taken.
AfterVisit(tx, left) ==
  IF left # {} THEN "removeUTXOs"
  ELSE IF Produced[tx] # <<>> THEN "addUTXOs" ELSE "Lock"

Return(p, err) ==
  /\ pc' = [pc EXCEPT ![p] = "idle"]
  /\ reply' = [reply EXCEPT ![p] = err]

-----------------------------------------------------------------------------
\* AcceptTx is called with a transaction the chain has accepted.
AcceptTx(p, tx) ==
  /\ pc[p] = "idle"
  /\ tx \notin issued
  /\ InputIDs[tx] \subseteq utxos
  /\ issued' = issued \cup {tx}
  /\ arg' = [arg EXCEPT ![p] = tx]
  /\ toRemove' = [toRemove EXCEPT ![p] = InputIDs[tx]]
  /\ toAdd' = [toAdd EXCEPT ![p] = Produced[tx]]
  /\ pc' = [pc EXCEPT ![p] = AfterVisit(tx, InputIDs[tx])]
  /\ UNCHANGED <<utxos, txs, writer, readers, pending, failed, reply>>

\* --- variant: the UTXO is looked for on another chain and stays ---
RemoveUTXOElsewhere(utxoID) == utxos

\* b.RemoveUTXO(ctx, sourceChain, utxoID) of the store the backend embeds.
RemoveUTXO(utxoID) == utxos \ {utxoID}

\* removeUTXOs, one UTXO of the set, in the order the set yields them.
removeUTXOs(p) ==
  /\ pc[p] = "removeUTXOs"
  /\ \E utxoID \in toRemove[p] :
       /\ utxos' = RemoveUTXO(utxoID)
       /\ toRemove' = [toRemove EXCEPT ![p] = @ \ {utxoID}]
       /\ pc' = [pc EXCEPT ![p] = AfterVisit(arg[p], toRemove'[p])]
  /\ UNCHANGED <<txs, arg, toAdd, writer, readers, pending, failed, issued,
                 reply>>

\* --- variant: the loop leaves the last UTXO out ---
AddUTXOButLast(slice) ==
  IF Len(slice) > 1 THEN utxos \cup {Head(slice)} ELSE utxos

\* b.AddUTXO(ctx, destinationChainID, utxo) for the next UTXO of the slice.
AddUTXO(slice) == utxos \cup {Head(slice)}

\* addUTXOs, one UTXO of the slice.
addUTXOs(p) ==
  /\ pc[p] = "addUTXOs"
  /\ utxos' = AddUTXO(toAdd[p])
  /\ toAdd' = [toAdd EXCEPT ![p] = Tail(@)]
  /\ pc' = [pc EXCEPT ![p] = IF Tail(toAdd[p]) = <<>> THEN "Lock" ELSE @]
  /\ UNCHANGED <<txs, arg, toRemove, writer, readers, pending, failed, issued,
                 reply>>

\* RemoveUTXO or AddUTXO returns an error: AcceptTx returns it at once and
\* what was removed and added so far stays.
ChainUTXOsFails(p) ==
  /\ pc[p] \in {"removeUTXOs", "addUTXOs"}
  /\ failed' = failed \cup {arg[p]}
  /\ Return(p, "err")
  /\ UNCHANGED <<utxos, txs, arg, toRemove, toAdd, writer, readers, pending,
                 issued>>

\* b.txsLock.Lock(): the goroutine announces itself, which keeps new
\* readers out (sync.RWMutex), and goes on when the lock is free.
Lock(p) ==
  \/ /\ pc[p] = "Lock"
     /\ pending' = pending \cup {p}
     /\ pc' = [pc EXCEPT ![p] = "Locking"]
     /\ UNCHANGED writer
  \/ /\ pc[p] = "Locking"
     /\ writer = None /\ readers = {}
     /\ writer' = p
     /\ pending' = pending \ {p}
     /\ pc' = [pc EXCEPT ![p] = "record"]
  /\ UNCHANGED <<utxos, txs, arg, toRemove, toAdd, readers, failed, issued,
                 reply>>

\* b.txs[txID] = tx
Record(p) ==
  /\ pc[p] = "record"
  /\ txs' = txs \cup {arg[p]}
  /\ pc' = [pc EXCEPT ![p] = "Unlock"]
  /\ UNCHANGED <<utxos, arg, toRemove, toAdd, writer, readers, pending,
                 failed, issued, reply>>

\* --- variant: the deferred Unlock is missing ---
ReturnLocked(p) ==
  /\ pc[p] = "Unlock"
  /\ Return(p, "nil")
  /\ UNCHANGED <<utxos, txs, arg, toRemove, toAdd, writer, readers, pending,
                 failed, issued>>

\* defer b.txsLock.Unlock(), and AcceptTx returns nil.
Unlock(p) ==
  /\ pc[p] = "Unlock"
  /\ writer' = None
  /\ Return(p, "nil")
  /\ UNCHANGED <<utxos, txs, arg, toRemove, toAdd, readers, pending, failed,
                 issued>>

\* --- variant: GetTx reads the map without the read lock ---
Unguarded == TRUE

\* b.txsLock.RLock() lets a reader in when no goroutine holds or waits for
\* the write lock.
RLockAdmits == writer = None /\ pending = {}

\* GetTx is called.
GetTx(p, txID) ==
  /\ pc[p] = "idle"
  /\ arg' = [arg EXCEPT ![p] = txID]
  /\ pc' = [pc EXCEPT ![p] = "RLock"]
  /\ UNCHANGED <<utxos, txs, toRemove, toAdd, writer, readers, pending, failed,
                 issued, reply>>

\* b.txsLock.RLock(): the goroutine waits until it is let in.
RLock(p) ==
  /\ pc[p] = "RLock"
  /\ RLockAdmits
  /\ readers' = readers \cup {p}
  /\ pc' = [pc EXCEPT ![p] = "lookup"]
  /\ UNCHANGED <<utxos, txs, arg, toRemove, toAdd, writer, pending, failed,
                 issued, reply>>

\* --- variant: RUnlock is not deferred, and the return of ErrNotFound
\* leaves without it ---
RUnlockWhenFound(p, exists) == IF exists THEN readers \ {p} ELSE readers

\* defer b.txsLock.RUnlock(): the read lock is given back on either
\* return of GetTx.
RUnlock(p, exists) == readers \ {p}

\* tx, exists := b.txs[txID], and GetTx returns the tx or ErrNotFound.
Lookup(p) ==
  LET exists == arg[p] \in txs IN
  /\ pc[p] = "lookup"
  /\ readers' = RUnlock(p, exists)
  /\ Return(p, IF exists THEN "nil" ELSE "ErrNotFound")
  /\ UNCHANGED <<utxos, txs, arg, toRemove, toAdd, writer, pending, failed,
                 issued>>

\* The steps a goroutine takes once it is inside a call.
Proceed(p) ==
  removeUTXOs(p) \/ addUTXOs(p) \/ Lock(p) \/ Record(p) \/ Unlock(p)
    \/ RLock(p) \/ Lookup(p)

Init ==
  /\ utxos = GenesisUTXOs
  /\ txs = {}
  /\ pc = [p \in Procs |-> "idle"]
  /\ arg = [p \in Procs |-> None]
  /\ toRemove = [p \in Procs |-> {}]
  /\ toAdd = [p \in Procs |-> <<>>]
  /\ writer = None
  /\ readers = {}
  /\ pending = {}
  /\ failed = {}
  /\ issued = {}
  /\ reply = [p \in Procs |-> None]

Next ==
  \E p \in Procs :
    \/ \E tx \in Txs : AcceptTx(p, tx) \/ GetTx(p, tx)
    \/ Proceed(p)
    \/ ChainUTXOsFails(p)

\* The Go scheduler runs every goroutine that can run, and sync.RWMutex
\* keeps new readers out while a goroutine waits in Lock(): a call that
\* has begun takes its next step as soon as it stays possible.
Spec == Init /\ [][Next]_vars /\ \A p \in Procs : WF_vars(Proceed(p))

-----------------------------------------------------------------------------
\* The type invariant.  txsLock is held for writing only by a goroutine that
\* is between Lock and Unlock of AcceptTx: every path out of the locked
\* region unlocks.
TypeOK ==
  /\ utxos \subseteq UTXOs
  /\ txs \subseteq Txs
  /\ pc \in [Procs -> {"idle", "removeUTXOs", "addUTXOs", "Lock", "Locking",
                       "record", "Unlock", "RLock", "lookup"}]
  /\ arg \in [Procs -> Txs \cup {None}]
  /\ toRemove \in [Procs -> SUBSET UTXOs]
  /\ toAdd \in [Procs -> Seq(UTXOs)]
  /\ writer \in {p \in Procs : pc[p] \in {"record", "Unlock"}} \cup {None}
  /\ readers \subseteq {p \in Procs : pc[p] = "lookup"}
  /\ pending \subseteq Procs
  /\ failed \subseteq issued /\ issued \subseteq Txs
  /\ reply \in [Procs -> {None, "nil", "err", "ErrNotFound"}]

\* What a UTXO is for a set of transactions: not spent, by any of them.
Unspent(accepted) ==
  (GenesisUTXOs \cup UNION {ToSet(Produced[tx]) : tx \in accepted})
    \ UNION {InputIDs[tx] : tx \in issued}

\* A transaction that GetTx can find is applied in full, whatever the
\* other goroutines are doing: none of its inputs is in the UTXO set, and
\* each of its outputs is there unless a transaction handed to AcceptTx
\* spends it (AcceptTx records the transaction after the UTXOs).
RecordedTxsAreApplied ==
  /\ \A tx \in txs : InputIDs[tx] \cap utxos = {}
  /\ Unspent(txs) \subseteq utxos

\* When no call is running and none has failed, the UTXO set is exactly
\* what the recorded transactions leave unspent, in whatever order and
\* interleaving they were accepted.
QuiescentUTXOsMatchTxs ==
  (failed = {} /\ \A p \in Procs : pc[p] = "idle") =>
     /\ txs = issued
     /\ utxos = Unspent(txs)

\* The map of transactions is never read while it is written: in Go a
\* concurrent read and write of a map ends the process.
NoConcurrentMapAccess ==
  writer # None => readers = {}

\* Every call returns: GetTx, once it waits in RLock, and AcceptTx, once
\* it waits in Lock, get txsLock in the end, because every goroutine that
\* took the lock gives it back on each of its returns (the deferred
\* Unlock of AcceptTx, the deferred RUnlock of GetTx on the return of the
\* tx and on that of ErrNotFound).
EveryCallReturns ==
  \A p \in Procs : pc[p] # "idle" ~> pc[p] = "idle"

=============================================================================
