----------------------------- MODULE ArCliProofs -----------------------------
(***************************************************************************)
(* Theorems on the anonymity revoker's tool, for every set of accounts,    *)
(* batch size, first block and number of blocks, and however often the     *)
(* commands are stopped.                                                   *)
(***************************************************************************)
EXTENDS ArCli, TLAPS

-----------------------------------------------------------------------------
(* The invariant. *)

Hashes == Nat \X Accounts

\* The transactions a block may hold.
TxsAt(b) ==
  {tx \in [hash : Hashes, block : Nat, account : Accounts, what : {"NewAccount", "Spend"},
           direct : BOOLEAN, event : BOOLEAN] :
     tx.block = b /\ tx.hash = <<b, tx.account>>}

\* The rows of events.
Rows ==
  {row \in [tx_hash : Hashes, block_number : Nat, mac_salt : Hashes,
            mac_commitment : [salt : Hashes, key : Accounts],
            viewing_key : Accounts \cup {NoKey}] :
     row.block_number = row.tx_hash[1]}

ChainOK ==
  /\ Height \in Nat /\ DOMAIN chain = 0..Height
  /\ \A b \in 0..Height : chain[b] \in SUBSET TxsAt(b)

DbOK ==
  /\ db = [events |-> db.events, viewing_keys |-> db.viewing_keys,
           last_events_block |-> db.last_events_block, last_keys_block |-> db.last_keys_block]
  /\ \A h \in DOMAIN db.events : db.events[h] \in Rows /\ db.events[h].tx_hash = h
  /\ db.viewing_keys \in SUBSET Accounts
  /\ db.last_events_block \in 0..Height
  /\ db.last_keys_block \in 0..Height

\* The key file is absent or holds the revoker's key, and what CollectKeys makes of it
\* is that key.
KeysOK ==
  /\ private_key_file \in {<<>>, to_bytes_be(ArKey)}
  /\ collect.pc \in {"block", "checkpoint"} =>
       collect.private_key = ArKey /\ private_key_file # <<>>

\* What Revoke holds are rows and accounts.
RevokeOK ==
  revoke.pc = "match" =>
    /\ revoke = [pc |-> revoke.pc, keys |-> revoke.keys, rows |-> revoke.rows]
    /\ revoke.rows \in SUBSET Rows /\ revoke.keys \in SUBSET Accounts

\* Blocks from FromBlock on, below a block and within a height.
Below(tx, next, height) == tx.block >= FromBlock /\ tx.block < next /\ tx.block <= height

\* The events IndexEvents is to find.
Indexable(tx) == tx.event /\ tx \notin missed

\* IndexEvents has the rows of all events below the block it is at, and is at or above
\* the checkpoint.
IndexFetched ==
  index.pc \in {"fetch", "process"} =>
    /\ index.next \in Nat /\ index.height \in 0..Height /\ index.next <= index.height
    /\ db.last_events_block <= index.next /\ FromBlock <= index.next
    /\ \A tx \in Transactions :
         Indexable(tx) /\ Below(tx, index.next, index.height) => tx.hash \in DOMAIN db.events

\* Within a batch, an event has its row, is still to be written or was not given.
IndexBatch ==
  index.pc = "process" =>
    /\ index = [pc |-> index.pc, next |-> index.next, height |-> index.height,
                logs |-> index.logs, lost |-> index.lost, last |-> index.last]
    /\ index.last \in index.next..index.height /\ index.last < index.next + BatchSize
    /\ index.last = index.height \/ index.last + 1 = index.next + BatchSize
    /\ \A tx \in index.logs : \E b \in index.next..index.last : tx \in TxsAt(b)
    /\ \A tx \in index.lost : tx.block \in index.next..index.last
    /\ \A tx \in Transactions :
         tx.event /\ tx.block \in index.next..index.last =>
           tx \in index.logs \/ tx.hash \in DOMAIN db.events \/ tx \in index.lost

\* The calls CollectKeys is to find.
Collectable(tx) == tx.direct /\ tx.what = "NewAccount" /\ tx \notin skipped

\* CollectKeys has the keys of all calls below the block it is at, and before the
\* checkpoint those of that block.
CollectDone ==
  collect.pc \in {"block", "checkpoint"} =>
    /\ collect = [pc |-> collect.pc, next |-> collect.next, height |-> collect.height,
                  private_key |-> collect.private_key]
    /\ collect.next \in Nat /\ collect.height \in 0..Height /\ FromBlock <= collect.next
    /\ collect.next <= collect.height
    /\ \A tx \in Transactions :
         Collectable(tx) /\ Below(tx, IF collect.pc = "checkpoint" THEN collect.next + 1
                                      ELSE collect.next, collect.height)
           => tx.account \in db.viewing_keys

Inv ==
  /\ ChainOK /\ DbOK /\ KeysOK /\ RevokeOK
  /\ EventsBelowCheckpoint /\ IndexFetched /\ IndexBatch
  /\ KeysBelowCheckpoint /\ CollectDone

-----------------------------------------------------------------------------
(* Lemmas on the operators. *)

LEMMA MaxInterval ==
  ASSUME NEW n \in Nat PROVE Max(0..n) = n
  BY DEF Max

LEMMA MaxOfTwo ==
  ASSUME NEW m \in Nat, NEW n \in Nat
  PROVE  Max({m, n}) \in Nat /\ Max({m, n}) >= m /\ Max({m, n}) >= n
         /\ (Max({m, n}) = m \/ Max({m, n}) = n)
  BY DEF Max

LEMMA MinOfTwo ==
  ASSUME NEW m \in Nat, NEW n \in Nat
  PROVE  Min({m, n}) \in Nat /\ Min({m, n}) <= m /\ Min({m, n}) <= n
         /\ (Min({m, n}) = m \/ Min({m, n}) = n)
  BY DEF Min

\* What is written to the key file is read back.
LEMMA KeyReadBack == from_file(to_bytes_be(ArKey)) = ArKey /\ to_bytes_be(ArKey) # <<>>
  <1>1. ArKey \in Seq(Nat) /\ Len(ArKey) > 0
    BY ArCliAssumption
  <1> QED
    BY <1>1 DEF from_file, to_bytes_be, Reverse

\* A transaction is in the block it names.
LEMMA InItsBlock ==
  ASSUME ChainOK, NEW tx \in Transactions
  PROVE  tx.block \in 0..Height /\ tx \in chain[tx.block] /\ tx \in TxsAt(tx.block)
  <1>1. PICK b \in 0..Height : tx \in chain[b]
    BY DEF ChainOK, Transactions
  <1>2. tx \in TxsAt(b)
    BY <1>1 DEF ChainOK
  <1>3. tx.block = b
    BY <1>2 DEF TxsAt
  <1> QED
    BY <1>1, <1>2, <1>3

LEMMA TxFields ==
  ASSUME NEW b, NEW tx \in TxsAt(b)
  PROVE  tx.block = b /\ tx.block \in Nat /\ tx.hash \in Hashes /\ tx.hash = <<b, tx.account>>
         /\ tx.account \in Accounts
  BY DEF TxsAt

-----------------------------------------------------------------------------
(* Each action keeps the invariant. *)

LEMMA Mined ==
  ASSUME ChainOK, MineBlock
  PROVE  /\ ChainOK' /\ Height' = Height + 1
         /\ \A tx \in Transactions' : tx.block \in Nat /\ (tx.block <= Height => tx \in Transactions)
  <1>1. PICK txs \in {f \in [Accounts -> UNION {BlockTxs(Height + 1, a) : a \in Accounts}] :
                       \A a \in Accounts : f[a] \in BlockTxs(Height + 1, a)} :
          chain' = [b \in 0..(Height + 1) |->
                      IF b <= Height THEN chain[b] ELSE UNION {txs[a] : a \in Accounts}]
    BY Zenon DEF MineBlock
  <1> DEFINE new == UNION {txs[a] : a \in Accounts}
  <1>2. Height \in Nat
    BY DEF ChainOK
  <1>3. new \in SUBSET TxsAt(Height + 1)
    <2>1. ASSUME NEW a \in Accounts, NEW tx \in txs[a] PROVE tx \in TxsAt(Height + 1)
      <3>1. txs[a] \in BlockTxs(Height + 1, a)
        BY <1>1
      <3>2. \E what \in {"NewAccount", "Spend"}, direct \in BOOLEAN, event \in BOOLEAN :
               tx = Tx(Height + 1, a, what, direct, event)
        BY <2>1, <3>1 DEF BlockTxs
      <3>3. PICK what \in {"NewAccount", "Spend"}, direct \in BOOLEAN, event \in BOOLEAN :
               tx = Tx(Height + 1, a, what, direct, event)
        BY <3>2
      <3> QED
        BY <1>2, <3>3 DEF Tx, TxsAt, Hashes
    <2> QED
      BY <2>1
  <1> HIDE DEF new
  <1>4. DOMAIN chain' = 0..(Height + 1) /\ chain'[Height + 1] = new
        /\ \A b \in 0..Height : chain'[b] = chain[b]
    BY <1>1, <1>2 DEF new
  <1>5. Height' = Height + 1
    BY <1>2, <1>4, MaxInterval DEF Height
  <1>6. ChainOK'
    <2>1. ASSUME NEW b \in 0..(Height + 1) PROVE chain'[b] \in SUBSET TxsAt(b)
      BY <1>2, <1>3, <1>4 DEF ChainOK
    <2> QED
      BY <1>2, <1>4, <1>5, <2>1 DEF ChainOK
  <1>7. ASSUME NEW tx \in Transactions' PROVE tx.block \in Nat /\ (tx.block <= Height => tx \in Transactions)
    <2>1. PICK b \in 0..(Height + 1) : tx \in chain'[b]
      BY <1>4 DEF Transactions
    <2>2. tx \in TxsAt(b)
      BY <1>5, <1>6, <2>1 DEF ChainOK
    <2>3. tx.block = b
      BY <2>2, TxFields
    <2>4. CASE b <= Height
      BY <1>2, <1>4, <2>1, <2>3, <2>4 DEF Transactions, ChainOK
    <2>5. CASE b = Height + 1
      BY <1>2, <2>3, <2>5
    <2> QED
      BY <1>2, <2>1, <2>4, <2>5
  <1> QED
    BY <1>5, <1>6, <1>7

LEMMA MineKeeps == Inv /\ MineBlock => Inv'
  <1> SUFFICES ASSUME Inv, MineBlock PROVE Inv'
    OBVIOUS
  <1>1. /\ ChainOK' /\ Height' = Height + 1 /\ Height \in Nat
        /\ \A tx \in Transactions' : tx.block \in Nat /\ (tx.block <= Height => tx \in Transactions)
    BY Mined DEF Inv, ChainOK
  <1>2. UNCHANGED <<db, private_key_file, index, collect, revoke, skipped, missed>>
    BY DEF MineBlock
  <1>3. DbOK' /\ KeysOK' /\ RevokeOK'
    BY <1>1, <1>2 DEF Inv, DbOK, KeysOK, RevokeOK
  <1>4. EventsBelowCheckpoint'
    BY <1>1, <1>2 DEF Inv, DbOK, EventsBelowCheckpoint
  <1>5. KeysBelowCheckpoint'
    BY <1>1, <1>2 DEF Inv, DbOK, KeysBelowCheckpoint
  <1>6. IndexFetched'
    BY <1>1, <1>2 DEF Inv, IndexFetched, Below, Indexable
  <1>7. IndexBatch'
    BY <1>1, <1>2 DEF Inv, IndexBatch, IndexFetched
  <1>8. CollectDone'
    BY <1>1, <1>2 DEF Inv, CollectDone, Below, Collectable
  <1> QED
    BY <1>1, <1>3, <1>4, <1>5, <1>6, <1>7, <1>8 DEF Inv

\* The steps after which the chain is what it was.
LEMMA SameChain ==
  ASSUME UNCHANGED chain
  PROVE  Height' = Height /\ Transactions' = Transactions /\ (ChainOK => ChainOK')
  BY DEF Height, Transactions, ChainOK

\* IndexEvents starts, or starts over.
LEMMA StartOfIndex ==
  ASSUME Inv, index' = IndexBegun,
         UNCHANGED <<chain, db, private_key_file, collect, revoke, skipped, missed>>
  PROVE  Inv'
  <1>1. index' = IndexAt(FirstBlock(db.last_events_block), Height)
        /\ UNCHANGED <<chain, db, private_key_file, collect, revoke, skipped, missed>>
    BY DEF IndexBegun
  <1>2. ChainOK' /\ Height' = Height /\ Transactions' = Transactions /\ Height \in Nat
    BY <1>1, SameChain DEF Inv, ChainOK
  <1>3. DbOK' /\ KeysOK' /\ RevokeOK' /\ EventsBelowCheckpoint' /\ KeysBelowCheckpoint'
    BY <1>1, <1>2 DEF Inv, DbOK, KeysOK, RevokeOK, EventsBelowCheckpoint, KeysBelowCheckpoint
  <1>4. CollectDone'
    BY <1>1, <1>2 DEF Inv, CollectDone, Collectable
  <1>5. IndexBatch'
    BY <1>1 DEF IndexBatch, IndexAt, Idle
  <1>6. IndexFetched'
    <2> DEFINE first == FirstBlock(db.last_events_block)
    <2>1. db.last_events_block \in Nat
      BY <1>2 DEF Inv, DbOK
    <2>2. /\ first \in Nat /\ first >= FromBlock /\ first >= db.last_events_block
          /\ first = FromBlock \/ first = db.last_events_block
      BY <2>1, MaxOfTwo, ArCliAssumption DEF FirstBlock
    <2> HIDE DEF first
    <2>3. \/ first <= Height /\ index'.next = first /\ index'.height = Height
          \/ index'.pc = "idle"
      BY <1>1 DEF first, IndexAt, Idle
    <2>4. ASSUME NEW tx \in Transactions, Indexable(tx), Below(tx, first, Height)
          PROVE  tx.hash \in DOMAIN db.events
      <3>1. tx.block \in Nat
        BY <1>2, InItsBlock DEF Inv
      <3>2. tx.block \in FromBlock..db.last_events_block
        BY <2>1, <2>2, <2>4, <3>1, ArCliAssumption DEF Below
      <3> QED
        BY <2>4, <3>2 DEF Inv, EventsBelowCheckpoint, Indexable
    <2> QED
      BY <1>1, <1>2, <2>2, <2>3, <2>4 DEF IndexFetched, Indexable
  <1> QED
    BY <1>2, <1>3, <1>4, <1>5, <1>6 DEF Inv

LEMMA FetchOfIndex == Inv /\ IndexFetch => Inv'
  <1> SUFFICES ASSUME Inv, IndexFetch PROVE Inv'
    OBVIOUS
  <1> DEFINE last == LastBatchBlock(index.next)
  <1>0. PICK seen \in (index.next - 1)..last :
          index' = [pc |-> "process", next |-> index.next, height |-> index.height,
                    logs |-> get_logs(index.next, seen), lost |-> get_logs(seen + 1, last),
                    last |-> last]
    BY Zenon DEF IndexFetch
  <1> DEFINE logs == get_logs(index.next, seen)
             lost == get_logs(seen + 1, last)
  <1>1. /\ index.pc = "fetch"
        /\ index' = [pc |-> "process", next |-> index.next, height |-> index.height,
                     logs |-> logs, lost |-> lost, last |-> last]
        /\ UNCHANGED <<chain, db, private_key_file, collect, revoke, skipped, missed>>
    BY <1>0 DEF IndexFetch
  <1>2. ChainOK' /\ Height' = Height /\ Transactions' = Transactions /\ Height \in Nat
    BY <1>1, SameChain DEF Inv, ChainOK
  <1>3. DbOK' /\ KeysOK' /\ RevokeOK' /\ EventsBelowCheckpoint' /\ KeysBelowCheckpoint'
    BY <1>1, <1>2 DEF Inv, DbOK, KeysOK, RevokeOK, EventsBelowCheckpoint, KeysBelowCheckpoint
  <1>4. CollectDone'
    BY <1>1, <1>2 DEF Inv, CollectDone, Collectable
  <1>5. index.next \in Nat /\ index.height \in 0..Height /\ index.next <= index.height
    BY <1>1 DEF Inv, IndexFetched
  <1>6. /\ last \in index.next..index.height /\ last < index.next + BatchSize
        /\ last = index.height \/ last + 1 = index.next + BatchSize
    <2>1. index.next + BatchSize - 1 \in Nat /\ index.height \in Nat /\ BatchSize \in Nat \ {0}
      BY <1>2, <1>5, ArCliAssumption
    <2>2. last = Min({index.next + BatchSize - 1, index.height})
      BY DEF LastBatchBlock
    <2>3. /\ last \in Nat /\ last <= index.next + BatchSize - 1 /\ last <= index.height
          /\ last = index.next + BatchSize - 1 \/ last = index.height
      BY <2>1, <2>2, MinOfTwo
    <2> HIDE DEF last
    <2> QED
      BY <1>1, <1>5, <2>1, <2>3
  <1> HIDE DEF last
  <1>7. \A tx \in logs : \E b \in index.next..last : tx \in TxsAt(b)
    BY <1>0, <1>2, <1>5, <1>6 DEF get_logs, Inv, ChainOK
  <1>8. ASSUME NEW tx \in Transactions, tx.event, tx.block \in index.next..last
        PROVE  tx \in logs \/ tx \in lost
    BY <1>0, <1>2, <1>5, <1>6, <1>8, InItsBlock DEF get_logs, Inv, ChainOK
  <1>9. ASSUME NEW tx \in lost PROVE tx.block \in index.next..last
    <2>1. PICK b \in (seen + 1)..last : b \in DOMAIN chain /\ tx \in chain[b]
      BY <1>9 DEF get_logs
    <2>2. b \in index.next..last /\ tx \in TxsAt(b)
      BY <1>0, <1>2, <1>5, <1>6, <2>1 DEF Inv, ChainOK
    <2> QED
      BY <2>2, TxFields
  <1> HIDE DEF logs, lost
  <1>10. IndexFetched'
    BY <1>1, <1>2 DEF Inv, IndexFetched, Indexable
  <1>11. IndexBatch'
    BY <1>1, <1>2, <1>6, <1>7, <1>8, <1>9 DEF IndexBatch
  <1> QED
    BY <1>2, <1>3, <1>4, <1>10, <1>11 DEF Inv

\* A row of IndexEvents or of Revoke is written.
LEMMA RowWritten ==
  ASSUME Inv, NEW row \in Rows, db' = upsert_event(db, row), UNCHANGED <<chain, skipped, missed>>
  PROVE  /\ DbOK' /\ EventsBelowCheckpoint' /\ KeysBelowCheckpoint'
         /\ DOMAIN db'.events = DOMAIN db.events \cup {row.tx_hash}
         /\ db'.viewing_keys = db.viewing_keys
         /\ db'.last_events_block = db.last_events_block
  <1>1. Height' = Height /\ Transactions' = Transactions
    BY SameChain
  <1>2. /\ db' = [events |-> db'.events, viewing_keys |-> db'.viewing_keys,
                  last_events_block |-> db'.last_events_block,
                  last_keys_block |-> db'.last_keys_block]
        /\ DOMAIN db'.events = DOMAIN db.events \cup {row.tx_hash}
        /\ db'.events[row.tx_hash] = row
        /\ \A h \in DOMAIN db.events : h # row.tx_hash => db'.events[h] = db.events[h]
        /\ db'.viewing_keys = db.viewing_keys
        /\ db'.last_events_block = db.last_events_block
        /\ db'.last_keys_block = db.last_keys_block
    <2>1. db = [events |-> db.events, viewing_keys |-> db.viewing_keys,
                last_events_block |-> db.last_events_block, last_keys_block |-> db.last_keys_block]
      BY DEF Inv, DbOK
    <2> DEFINE new == [h \in DOMAIN db.events \cup {row.tx_hash} |->
                         IF h = row.tx_hash THEN row ELSE db.events[h]]
    <2>2. db' = [events |-> new, viewing_keys |-> db.viewing_keys,
                 last_events_block |-> db.last_events_block, last_keys_block |-> db.last_keys_block]
      BY <2>1 DEF upsert_event
    <2>3. DOMAIN new = DOMAIN db.events \cup {row.tx_hash} /\ new[row.tx_hash] = row
          /\ \A h \in DOMAIN db.events : h # row.tx_hash => new[h] = db.events[h]
      OBVIOUS
    <2> HIDE DEF new
    <2> QED
      BY <2>2, <2>3
  <1>3. DbOK'
    <2>1. ASSUME NEW h \in DOMAIN db'.events PROVE db'.events[h] \in Rows /\ db'.events[h].tx_hash = h
      BY <1>2 DEF Inv, DbOK
    <2> QED
      BY <1>1, <1>2, <2>1 DEF Inv, DbOK
  <1>4. EventsBelowCheckpoint'
    BY <1>1, <1>2 DEF Inv, EventsBelowCheckpoint
  <1>5. KeysBelowCheckpoint'
    BY <1>1, <1>2 DEF Inv, KeysBelowCheckpoint
  <1> QED
    BY <1>2, <1>3, <1>4, <1>5

\* Writing a row keeps the others.
LEMMA RowsKept ==
  ASSUME Inv, NEW row, db' = upsert_event(db, row)
  PROVE  /\ \A h \in DOMAIN db.events : h # row.tx_hash => db'.events[h] = db.events[h]
         /\ db'.events[row.tx_hash] = row
  <1>1. db = [events |-> db.events, viewing_keys |-> db.viewing_keys,
              last_events_block |-> db.last_events_block, last_keys_block |-> db.last_keys_block]
    BY DEF Inv, DbOK
  <1>2. db'.events = [h \in DOMAIN db.events \cup {row.tx_hash} |->
                        IF h = row.tx_hash THEN row ELSE db.events[h]]
    BY <1>1 DEF upsert_event
  <1> QED
    BY <1>2

\* The row of an event found in a block.
LEMMA EventRow ==
  ASSUME NEW b \in Nat, NEW tx \in TxsAt(b)
  PROVE  \E row \in Rows : /\ row.tx_hash = tx.hash /\ row.block_number = tx.block
                           /\ \A d : persist_event(d, tx) = upsert_event(d, row)
  <1> DEFINE row == [tx_hash |-> tx.hash, block_number |-> tx.block, mac_salt |-> tx.hash,
                     mac_commitment |-> mac_commitment(tx.hash, tx.account),
                     viewing_key |-> NoKey]
  <1>1. row \in Rows
    BY TxFields DEF Rows, Hashes, mac_commitment
  <1>2. \A d : persist_event(d, tx) = upsert_event(d, row)
    BY DEF persist_event
  <1>3. row.tx_hash = tx.hash /\ row.block_number = tx.block
    OBVIOUS
  <1> HIDE DEF row
  <1> QED
    BY <1>1, <1>2, <1>3

LEMMA LogsOfIndex == Inv /\ process_logs => Inv'
  <1> SUFFICES ASSUME Inv, process_logs PROVE Inv'
    OBVIOUS
  <1>1. PICK tx \in index.logs : db' = persist_event(db, tx) /\ index' = [index EXCEPT !.logs = @ \ {tx}]
    BY DEF process_logs
  <1>2. index.pc = "process" /\ UNCHANGED <<chain, private_key_file, collect, revoke, skipped, missed>>
    BY DEF process_logs
  <1>3. ChainOK' /\ Height' = Height /\ Transactions' = Transactions /\ Height \in Nat
    BY <1>2, SameChain DEF Inv, ChainOK
  <1>4. index.next \in Nat /\ index.height \in 0..Height /\ index.last \in index.next..index.height
    BY <1>2 DEF Inv, IndexFetched, IndexBatch, Indexable
  <1>5. PICK b \in index.next..index.last : tx \in TxsAt(b)
    BY <1>2 DEF Inv, IndexBatch
  <1>6. PICK row \in Rows : row.tx_hash = tx.hash /\ db' = upsert_event(db, row)
    BY <1>1, <1>4, <1>5, EventRow
  <1>7. /\ DbOK' /\ EventsBelowCheckpoint' /\ KeysBelowCheckpoint'
        /\ DOMAIN db'.events = DOMAIN db.events \cup {tx.hash}
        /\ db'.viewing_keys = db.viewing_keys
        /\ db'.last_events_block = db.last_events_block
    BY <1>2, <1>6, RowWritten
  <1>8. KeysOK' /\ RevokeOK'
    BY <1>2 DEF Inv, KeysOK, RevokeOK
  <1>9. CollectDone'
    BY <1>2, <1>3, <1>7 DEF Inv, CollectDone, Collectable
  <1>10. /\ index'.pc = "process" /\ index'.next = index.next /\ index'.height = index.height
         /\ index'.last = index.last /\ index'.logs = index.logs \ {tx}
         /\ index'.lost = index.lost
         /\ index' = [pc |-> index'.pc, next |-> index'.next, height |-> index'.height,
                      logs |-> index'.logs, lost |-> index'.lost, last |-> index'.last]
    <2>1. index = [pc |-> index.pc, next |-> index.next, height |-> index.height,
                   logs |-> index.logs, lost |-> index.lost, last |-> index.last]
      BY <1>2 DEF Inv, IndexBatch
    <2>2. index' = [pc |-> index.pc, next |-> index.next, height |-> index.height,
                    logs |-> index.logs \ {tx}, lost |-> index.lost, last |-> index.last]
      BY <1>1, <2>1
    <2> QED
      BY <1>2, <2>2
  <1>11. IndexFetched'
    BY <1>2, <1>3, <1>7, <1>10 DEF Inv, IndexFetched, Indexable
  <1>12. IndexBatch'
    BY <1>2, <1>3, <1>7, <1>10 DEF Inv, IndexBatch
  <1> QED
    BY <1>3, <1>7, <1>8, <1>9, <1>11, <1>12 DEF Inv

LEMMA CheckpointOfIndex == Inv /\ IndexCheckpoint => Inv'
  <1> SUFFICES ASSUME Inv, IndexCheckpoint PROVE Inv'
    OBVIOUS
  <1>1. /\ index.pc = "process" /\ index.logs = {}
        /\ db' = [db EXCEPT !.last_events_block = index.last]
        /\ index' = IndexAt(index.next + BatchSize, index.height)
        /\ missed' = MissedAfterBatch
        /\ UNCHANGED <<chain, private_key_file, collect, revoke, skipped>>
    BY DEF IndexCheckpoint
  <1>2. ChainOK' /\ Height' = Height /\ Transactions' = Transactions /\ Height \in Nat
    BY <1>1, SameChain DEF Inv, ChainOK
  <1>3. /\ index.next \in Nat /\ index.height \in 0..Height /\ FromBlock <= index.next
        /\ index.last \in index.next..index.height /\ index.last < index.next + BatchSize
        /\ index.last = index.height \/ index.last + 1 = index.next + BatchSize
        /\ \A tx \in index.lost : tx.block \in index.next..index.last
        /\ db.last_events_block \in Nat
    BY <1>1, <1>2 DEF Inv, DbOK, IndexFetched, IndexBatch
  <1>4. db' = [events |-> db.events, viewing_keys |-> db.viewing_keys,
               last_events_block |-> index.last, last_keys_block |-> db.last_keys_block]
    <2>1. db = [events |-> db.events, viewing_keys |-> db.viewing_keys,
                last_events_block |-> db.last_events_block, last_keys_block |-> db.last_keys_block]
      BY DEF Inv, DbOK
    <2> QED
      BY <1>1, <2>1
  <1>5. /\ db'.events = db.events /\ db'.viewing_keys = db.viewing_keys
        /\ db'.last_events_block = index.last /\ db'.last_keys_block = db.last_keys_block
    BY <1>4
  <1>6. DbOK'
    BY <1>2, <1>3, <1>4, <1>5 DEF Inv, DbOK
  <1>7. KeysOK' /\ RevokeOK'
    BY <1>1 DEF Inv, KeysOK, RevokeOK
  <1>8. KeysBelowCheckpoint'
    BY <1>1, <1>2, <1>5 DEF Inv, KeysBelowCheckpoint
  <1>9. CollectDone'
    BY <1>1, <1>2, <1>5 DEF Inv, CollectDone, Collectable
  <1>10. ASSUME NEW tx \in Transactions, tx.event, tx.block >= FromBlock, tx.block <= index.last,
                tx \notin missed'
         PROVE  tx.hash \in DOMAIN db.events
    <2>1. tx.block \in Nat
      BY <1>2, InItsBlock DEF Inv
    <2>2. CASE tx.block < index.next
      <3>1. Below(tx, index.next, index.height) /\ tx \notin missed
        BY <1>1, <1>2, <1>3, <1>10, <2>1, <2>2 DEF Below, MissedAfterBatch
      <3> QED
        BY <1>1, <1>10, <3>1 DEF Inv, IndexFetched, Indexable
    <2>3. CASE tx.block >= index.next /\ tx \notin index.lost
      <3>1. tx.block \in index.next..index.last
        BY <1>3, <1>10, <2>1, <2>3
      <3> QED
        BY <1>1, <1>10, <2>3, <3>1 DEF Inv, IndexBatch
    <2>4. CASE tx \in index.lost
      <3>1. tx.block \in FromBlock..db.last_events_block /\ tx \notin missed
        BY <1>1, <1>3, <1>10, <2>1, <2>4, ArCliAssumption DEF MissedAfterBatch
      <3> QED
        BY <1>10, <3>1 DEF Inv, EventsBelowCheckpoint
    <2> QED
      BY <1>3, <2>1, <2>2, <2>3, <2>4
  <1>11. EventsBelowCheckpoint'
    BY <1>2, <1>5, <1>10, InItsBlock, ArCliAssumption DEF Inv, EventsBelowCheckpoint
  <1>12. IndexFetched'
    <2> SUFFICES ASSUME index'.pc # "idle" PROVE IndexFetched'
      BY DEF IndexFetched
    <2>1. /\ index'.next = index.next + BatchSize /\ index'.height = index.height
          /\ index.next + BatchSize <= index.height
      BY <1>1 DEF IndexAt, Idle
    <2>2. ASSUME NEW tx \in Transactions, tx.event, tx \notin missed',
                 Below(tx, index.next + BatchSize, index.height)
          PROVE  tx.hash \in DOMAIN db.events
      <3>1. tx.block \in Nat
        BY <1>2, InItsBlock DEF Inv
      <3>2. tx.block >= FromBlock /\ tx.block <= index.last
        BY <1>2, <1>3, <2>2, <3>1, ArCliAssumption DEF Below
      <3> QED
        BY <1>10, <2>2, <3>2
    <2>3. ASSUME NEW tx \in Transactions', Indexable(tx)', Below(tx, index'.next, index'.height)
          PROVE  tx.hash \in DOMAIN db'.events
      BY <1>2, <1>5, <2>1, <2>2, <2>3 DEF Indexable
    <2>4. /\ index'.next \in Nat /\ index'.height \in 0..Height' /\ index'.next <= index'.height
          /\ db'.last_events_block <= index'.next /\ FromBlock <= index'.next
      BY <1>2, <1>3, <1>5, <2>1, ArCliAssumption
    <2> QED
      BY <2>3, <2>4 DEF IndexFetched, Below
  <1>13. IndexBatch'
    BY <1>1 DEF IndexBatch, IndexAt, Idle
  <1> QED
    BY <1>2, <1>6, <1>7, <1>8, <1>9, <1>11, <1>12, <1>13 DEF Inv

\* A command that is stopped; the key file.
LEMMA StopKeeps ==
  ASSUME Inv, UNCHANGED <<chain, db, skipped, missed>>,
         private_key_file' = private_key_file \/ private_key_file' = to_bytes_be(ArKey),
         index' = index \/ index'.pc = "idle",
         collect' = collect \/ collect'.pc = "idle",
         revoke' = revoke \/ revoke'.pc = "idle"
  PROVE  Inv'
  <1>1. ChainOK' /\ Height' = Height /\ Transactions' = Transactions
    BY SameChain DEF Inv
  <1>2. DbOK' /\ EventsBelowCheckpoint' /\ KeysBelowCheckpoint'
    BY <1>1 DEF Inv, DbOK, EventsBelowCheckpoint, KeysBelowCheckpoint
  <1>3. IndexFetched' /\ IndexBatch'
    <2>1. CASE index' = index
      BY <1>1, <2>1 DEF Inv, IndexFetched, IndexBatch, Indexable
    <2>2. CASE index'.pc = "idle"
      BY <2>2 DEF IndexFetched, IndexBatch
    <2> QED
      BY <2>1, <2>2
  <1>4. CollectDone'
    <2>1. CASE collect' = collect
      BY <1>1, <2>1 DEF Inv, CollectDone, Collectable
    <2>2. CASE collect'.pc = "idle"
      BY <2>2 DEF CollectDone
    <2> QED
      BY <2>1, <2>2
  <1>5. KeysOK'
    <2>1. CASE collect' = collect
      BY <2>1, KeyReadBack DEF Inv, KeysOK
    <2>2. CASE collect'.pc = "idle"
      BY <2>2 DEF Inv, KeysOK
    <2> QED
      BY <2>1, <2>2
  <1>6. RevokeOK'
    BY DEF Inv, RevokeOK
  <1> QED
    BY <1>1, <1>2, <1>3, <1>4, <1>5, <1>6 DEF Inv

\* CollectKeys starts, or starts over, with the file of the key.
LEMMA StartOfCollect ==
  ASSUME Inv, private_key_file # <<>>, collect' = CollectBegun,
         UNCHANGED <<chain, db, private_key_file, index, revoke, skipped, missed>>
  PROVE  Inv'
  <1> DEFINE first == FirstBlock(db.last_keys_block)
  <1>1. /\ collect' = CollectAt(first, Height, from_file(private_key_file))
        /\ private_key_file # <<>>
        /\ UNCHANGED <<chain, db, private_key_file, index, revoke, skipped, missed>>
    BY DEF CollectBegun
  <1>2. ChainOK' /\ Height' = Height /\ Transactions' = Transactions /\ Height \in Nat
    BY <1>1, SameChain DEF Inv, ChainOK
  <1>3. DbOK' /\ RevokeOK' /\ EventsBelowCheckpoint' /\ KeysBelowCheckpoint'
    BY <1>1, <1>2 DEF Inv, DbOK, RevokeOK, EventsBelowCheckpoint, KeysBelowCheckpoint
  <1>4. IndexFetched' /\ IndexBatch'
    BY <1>1, <1>2 DEF Inv, IndexFetched, IndexBatch, Indexable
  <1>5. from_file(private_key_file) = ArKey
    BY <1>1, KeyReadBack DEF Inv, KeysOK
  <1>6. KeysOK'
    BY <1>1, <1>5 DEF Inv, KeysOK, CollectAt, Idle
  <1>7. CollectDone'
    <2>1. db.last_keys_block \in Nat
      BY <1>2 DEF Inv, DbOK
    <2>2. /\ first \in Nat /\ first >= FromBlock /\ first >= db.last_keys_block
          /\ first = FromBlock \/ first = db.last_keys_block
      BY <2>1, MaxOfTwo, ArCliAssumption DEF FirstBlock
    <2> HIDE DEF first
    <2> SUFFICES ASSUME collect'.pc # "idle" PROVE CollectDone'
      BY DEF CollectDone
    <2>3. /\ collect'.pc = "block" /\ collect'.next = first /\ collect'.height = Height
          /\ first <= Height
          /\ collect' = [pc |-> collect'.pc, next |-> collect'.next, height |-> collect'.height,
                         private_key |-> collect'.private_key]
      BY <1>1 DEF CollectAt, Idle
    <2>4. ASSUME NEW tx \in Transactions, Collectable(tx), Below(tx, first, Height)
          PROVE  tx.account \in db.viewing_keys
      <3>1. tx.block \in Nat
        BY <1>2, InItsBlock DEF Inv
      <3>2. tx.block \in FromBlock..db.last_keys_block
        BY <2>1, <2>2, <2>4, <3>1, ArCliAssumption DEF Below
      <3> QED
        BY <2>4, <3>2 DEF Inv, KeysBelowCheckpoint, Collectable
    <2> QED
      BY <1>1, <1>2, <2>2, <2>3, <2>4 DEF CollectDone, Collectable
  <1> QED
    BY <1>2, <1>3, <1>4, <1>6, <1>7 DEF Inv

LEMMA Stops == Inv /\ (Generate \/ Kill \/ retry_with_backoff) => Inv'
  <1> SUFFICES ASSUME Inv, Generate \/ Kill \/ retry_with_backoff PROVE Inv'
    OBVIOUS
  <1>1. CASE Generate
    BY <1>1, StopKeeps DEF Generate
  <1>2. CASE Kill
    BY <1>2, StopKeeps DEF Kill, Idle
  <1>3. CASE retry_with_backoff
    <2>1. CASE index' = IndexBegun /\ UNCHANGED collect
      BY <1>3, <2>1, StartOfIndex DEF retry_with_backoff
    <2>2. CASE collect.pc = "block" /\ collect' = CollectBegun /\ UNCHANGED index
      <3>1. private_key_file # <<>>
        BY <2>2 DEF Inv, KeysOK
      <3> QED
        BY <1>3, <2>2, <3>1, StartOfCollect DEF retry_with_backoff
    <2> QED
      BY <1>3, <2>1, <2>2 DEF retry_with_backoff
  <1> QED
    BY <1>1, <1>2, <1>3

LEMMA BlockOfCollect == Inv /\ CollectBlock => Inv'
  <1> SUFFICES ASSUME Inv, CollectBlock PROVE Inv'
    OBVIOUS
  <1>1. /\ collect.pc = "block"
        /\ collect' = [collect EXCEPT !.pc = "checkpoint"]
        /\ UNCHANGED <<chain, private_key_file, index, revoke, missed>>
    BY DEF CollectBlock
  <1>2. ChainOK' /\ Height' = Height /\ Transactions' = Transactions /\ Height \in Nat
    BY <1>1, SameChain DEF Inv, ChainOK
  <1>3. /\ collect.next \in Nat /\ collect.height \in 0..Height /\ FromBlock <= collect.next
        /\ collect.private_key = ArKey /\ collect.next <= collect.height
    BY <1>1 DEF Inv, CollectDone, KeysOK
  <1>4. /\ collect'.pc = "checkpoint" /\ collect'.next = collect.next
        /\ collect'.height = collect.height /\ collect'.private_key = collect.private_key
        /\ collect' = [pc |-> collect'.pc, next |-> collect'.next, height |-> collect'.height,
                       private_key |-> collect'.private_key]
    <2>1. collect = [pc |-> collect.pc, next |-> collect.next, height |-> collect.height,
                     private_key |-> collect.private_key]
      BY <1>1 DEF Inv, CollectDone
    <2>2. collect' = [pc |-> "checkpoint", next |-> collect.next, height |-> collect.height,
                      private_key |-> collect.private_key]
      BY <1>1, <2>1
    <2> QED
      BY <2>2
  <1>5. KeysOK' /\ RevokeOK'
    BY <1>1, <1>3, <1>4 DEF Inv, KeysOK, RevokeOK
  <1>6. /\ db' = [events |-> db'.events, viewing_keys |-> db'.viewing_keys,
                  last_events_block |-> db'.last_events_block,
                  last_keys_block |-> db'.last_keys_block]
        /\ db'.events = db.events
        /\ db.viewing_keys \subseteq db'.viewing_keys /\ db'.viewing_keys \in SUBSET Accounts
        /\ db'.last_events_block = db.last_events_block
        /\ db'.last_keys_block = db.last_keys_block
        /\ \A tx \in Transactions : tx \in skipped /\ tx.block # collect.next => tx \in skipped'
        /\ \A tx \in Transactions :
             tx.direct /\ tx.what = "NewAccount" /\ tx.block = collect.next =>
               tx.account \in db'.viewing_keys \/ tx \in skipped'
    <2> DEFINE calls == NewAccountCalls(chain[collect.next])
    <2>0. /\ calls \in SUBSET TxsAt(collect.next)
          /\ \A tx \in Transactions :
               tx.direct /\ tx.what = "NewAccount" /\ tx.block = collect.next => tx \in calls
      <3>1. chain[collect.next] \in SUBSET TxsAt(collect.next)
        BY <1>2, <1>3 DEF Inv, ChainOK
      <3> QED
        BY <3>1, InItsBlock DEF NewAccountCalls, Inv
    <2>1. db = [events |-> db.events, viewing_keys |-> db.viewing_keys,
                last_events_block |-> db.last_events_block, last_keys_block |-> db.last_keys_block]
          /\ db.viewing_keys \in SUBSET Accounts
      BY DEF Inv, DbOK
    <2>2. CASE db' = decode_and_persist(db, chain[collect.next], collect.private_key)
               /\ skipped' = skipped \ calls
      <3> DEFINE found == {decrypt(tx, collect.private_key) : tx \in calls}
      <3>1. db' = [events |-> db.events, viewing_keys |-> db.viewing_keys \cup found,
                   last_events_block |-> db.last_events_block,
                   last_keys_block |-> db.last_keys_block]
        BY <2>1, <2>2 DEF decode_and_persist
      <3>2. \A tx : decrypt(tx, collect.private_key) = tx.account
        BY <1>3 DEF decrypt
      <3> HIDE DEF calls
      <3>3. found \in SUBSET Accounts
        BY <2>0, <3>2, TxFields
      <3>4. ASSUME NEW tx \in Transactions, tx.direct, tx.what = "NewAccount",
                   tx.block = collect.next
            PROVE  tx.account \in found
        BY <2>0, <3>2, <3>4
      <3>5. \A tx \in calls : tx.block = collect.next
        BY <2>0, TxFields
      <3> HIDE DEF found
      <3> QED
        BY <2>1, <2>2, <3>1, <3>3, <3>4, <3>5
    <2>3. CASE /\ skipped' = skipped \union {tx \in calls : collect.next > db.last_keys_block}
               /\ UNCHANGED db
      <3> HIDE DEF calls
      <3>1. ASSUME NEW tx \in Transactions, tx.direct, tx.what = "NewAccount",
                   tx.block = collect.next, tx \notin skipped'
            PROVE  tx.account \in db.viewing_keys
        <4>1. tx.block \in FromBlock..db.last_keys_block /\ tx \notin skipped
          BY <1>2, <1>3, <2>0, <2>3, <3>1, ArCliAssumption DEF Inv, DbOK
        <4> QED
          BY <3>1, <4>1 DEF Inv, KeysBelowCheckpoint
      <3> QED
        BY <2>1, <2>3, <3>1
    <2> QED
      BY <2>2, <2>3 DEF CollectBlock
  <1>7. DbOK'
    BY <1>2, <1>6 DEF Inv, DbOK
  <1>8. EventsBelowCheckpoint' /\ KeysBelowCheckpoint'
    <2>1. EventsBelowCheckpoint'
      BY <1>1, <1>2, <1>6 DEF Inv, EventsBelowCheckpoint
    <2>2. ASSUME NEW tx \in Transactions, tx.direct, tx.what = "NewAccount",
                 tx.block \in FromBlock..db.last_keys_block, tx \notin skipped'
          PROVE  tx.account \in db'.viewing_keys
      <3>1. CASE tx.block = collect.next
        BY <1>6, <2>2, <3>1
      <3>2. CASE tx.block # collect.next
        BY <1>6, <2>2, <3>2 DEF Inv, KeysBelowCheckpoint
      <3> QED
        BY <3>1, <3>2
    <2>3. KeysBelowCheckpoint'
      BY <1>2, <1>6, <2>2 DEF KeysBelowCheckpoint
    <2> QED
      BY <2>1, <2>3
  <1>9. IndexFetched' /\ IndexBatch'
    BY <1>1, <1>2, <1>6 DEF Inv, IndexFetched, IndexBatch, Indexable
  <1>10. CollectDone'
    <2>1. ASSUME NEW tx \in Transactions, tx.direct, tx.what = "NewAccount", tx \notin skipped',
                 Below(tx, collect.next + 1, collect.height)
          PROVE  tx.account \in db'.viewing_keys
      <3>1. tx.block \in Nat
        BY <1>2, InItsBlock DEF Inv
      <3>2. CASE tx.block = collect.next
        BY <1>6, <2>1, <3>2
      <3>3. CASE tx.block # collect.next
        <4>1. Below(tx, collect.next, collect.height)
          BY <1>3, <2>1, <3>1, <3>3 DEF Below
        <4>2. Collectable(tx)
          BY <1>6, <2>1, <3>3 DEF Collectable
        <4> QED
          BY <1>1, <1>6, <4>1, <4>2 DEF Inv, CollectDone
      <3> QED
        BY <3>2, <3>3
    <2> QED
      BY <1>1, <1>2, <1>3, <1>4, <2>1 DEF CollectDone, Collectable
  <1> QED
    BY <1>2, <1>5, <1>7, <1>8, <1>9, <1>10 DEF Inv

LEMMA CheckpointOfCollect == Inv /\ CollectCheckpoint => Inv'
  <1> SUFFICES ASSUME Inv, CollectCheckpoint PROVE Inv'
    OBVIOUS
  <1>1. /\ collect.pc = "checkpoint"
        /\ db' = [db EXCEPT !.last_keys_block = collect.next]
        /\ collect' = CollectAt(collect.next + 1, collect.height, collect.private_key)
        /\ UNCHANGED <<chain, private_key_file, index, revoke, skipped, missed>>
    BY DEF CollectCheckpoint
  <1>2. ChainOK' /\ Height' = Height /\ Transactions' = Transactions /\ Height \in Nat
    BY <1>1, SameChain DEF Inv, ChainOK
  <1>3. /\ collect.next \in Nat /\ collect.height \in 0..Height /\ FromBlock <= collect.next
        /\ collect.private_key = ArKey /\ collect.next <= collect.height
    BY <1>1 DEF Inv, CollectDone, KeysOK
  <1>4. \/ collect'.pc = "idle"
        \/ /\ collect'.pc = "block" /\ collect'.next = collect.next + 1
           /\ collect'.height = collect.height /\ collect'.private_key = collect.private_key
           /\ collect.next + 1 <= collect.height
           /\ collect' = [pc |-> collect'.pc, next |-> collect'.next, height |-> collect'.height,
                          private_key |-> collect'.private_key]
    BY <1>1 DEF CollectAt, Idle
  <1>5. KeysOK' /\ RevokeOK'
    BY <1>1, <1>3, <1>4 DEF Inv, KeysOK, RevokeOK
  <1>6. db' = [events |-> db.events, viewing_keys |-> db.viewing_keys,
               last_events_block |-> db.last_events_block, last_keys_block |-> collect.next]
    <2>1. db = [events |-> db.events, viewing_keys |-> db.viewing_keys,
                last_events_block |-> db.last_events_block, last_keys_block |-> db.last_keys_block]
      BY DEF Inv, DbOK
    <2> QED
      BY <1>1, <2>1
  <1>7. /\ db'.events = db.events /\ db'.viewing_keys = db.viewing_keys
        /\ db'.last_events_block = db.last_events_block /\ db'.last_keys_block = collect.next
    BY <1>6
  <1>8. DbOK'
    BY <1>2, <1>3, <1>6, <1>7 DEF Inv, DbOK
  <1>9. EventsBelowCheckpoint' /\ IndexFetched' /\ IndexBatch'
    BY <1>1, <1>2, <1>7 DEF Inv, EventsBelowCheckpoint, IndexFetched, IndexBatch, Indexable
  <1>10. ASSUME NEW tx \in Transactions, Collectable(tx), Below(tx, collect.next + 1, collect.height)
         PROVE  tx.account \in db.viewing_keys
    BY <1>1, <1>10 DEF Inv, CollectDone
  <1>11. KeysBelowCheckpoint'
    <2>1. ASSUME NEW tx \in Transactions, Collectable(tx), tx.block \in FromBlock..collect.next
          PROVE  tx.account \in db.viewing_keys
      <3>1. Below(tx, collect.next + 1, collect.height)
        BY <1>2, <1>3, <2>1, ArCliAssumption DEF Below
      <3> QED
        BY <1>10, <2>1, <3>1
    <2> QED
      BY <1>1, <1>2, <1>7, <2>1 DEF KeysBelowCheckpoint, Collectable
  <1>12. CollectDone'
    <2> SUFFICES ASSUME collect'.pc # "idle" PROVE CollectDone'
      BY DEF CollectDone
    <2>1. \A tx : Collectable(tx)' <=> Collectable(tx)
      BY <1>1 DEF Collectable
    <2>2. /\ collect'.next \in Nat /\ collect'.height \in 0..Height' /\ FromBlock <= collect'.next
          /\ collect'.next <= collect'.height
      BY <1>2, <1>3, <1>4, ArCliAssumption
    <2>3. \A tx \in Transactions' :
            Collectable(tx)' /\ Below(tx, collect'.next, collect'.height)
              => tx.account \in db'.viewing_keys
      BY <1>2, <1>4, <1>7, <1>10, <2>1
    <2> QED
      BY <1>4, <2>2, <2>3 DEF CollectDone
  <1> QED
    BY <1>2, <1>5, <1>8, <1>9, <1>11, <1>12 DEF Inv

LEMMA StartOfRevoke == Inv /\ RevokeStart => Inv'
  <1> SUFFICES ASSUME Inv, RevokeStart PROVE Inv'
    OBVIOUS
  <1>1. /\ revoke' = RevokeWith(db.viewing_keys, Unmatched(db))
        /\ UNCHANGED <<chain, db, private_key_file, index, collect, skipped, missed>>
    BY DEF RevokeStart
  <1>2. ChainOK' /\ Height' = Height /\ Transactions' = Transactions
    BY <1>1, SameChain DEF Inv
  <1>3. DbOK' /\ KeysOK' /\ EventsBelowCheckpoint' /\ KeysBelowCheckpoint'
    BY <1>1, <1>2 DEF Inv, DbOK, KeysOK, EventsBelowCheckpoint, KeysBelowCheckpoint
  <1>4. IndexFetched' /\ IndexBatch' /\ CollectDone'
    BY <1>1, <1>2 DEF Inv, IndexFetched, IndexBatch, Indexable, CollectDone, Collectable
  <1>5. Unmatched(db) \in SUBSET Rows
    BY DEF Inv, DbOK, Unmatched, Range
  <1>6. RevokeOK'
    BY <1>1, <1>5 DEF Inv, DbOK, RevokeOK, RevokeWith, Idle
  <1> QED
    BY <1>2, <1>3, <1>4, <1>6 DEF Inv

\* What Revoke does to a row: leaves it, or gives it a key.
LEMMA RevokedRow ==
  ASSUME Inv, RevokeEvent
  PROVE  /\ RevokeOK'
         /\ \/ UNCHANGED db
            \/ \E row \in Rows : row.viewing_key # NoKey /\ db' = upsert_event(db, row)
  <1>1. PICK row \in revoke.rows :
          /\ revoke' = RevokeWith(revoke.keys, revoke.rows \ {row})
          /\ \/ \E key \in revoke.keys : db' = upsert_event(db, [row EXCEPT !.viewing_key = key])
             \/ UNCHANGED db
    BY DEF RevokeEvent
  <1>2. /\ revoke = [pc |-> revoke.pc, keys |-> revoke.keys, rows |-> revoke.rows]
        /\ revoke.rows \in SUBSET Rows /\ revoke.keys \in SUBSET Accounts
    BY DEF Inv, RevokeOK, RevokeEvent
  <1>4. RevokeOK'
    BY <1>1, <1>2 DEF RevokeOK, RevokeWith, Idle
  <1>5. ASSUME NEW key \in revoke.keys
        PROVE  [row EXCEPT !.viewing_key = key] \in Rows
               /\ [row EXCEPT !.viewing_key = key].viewing_key # NoKey
    BY <1>2, ArCliAssumption DEF Rows, NoKey
  <1> QED
    BY <1>1, <1>4, <1>5

LEMMA EventOfRevoke == Inv /\ RevokeEvent => Inv'
  <1> SUFFICES ASSUME Inv, RevokeEvent PROVE Inv'
    OBVIOUS
  <1>1. UNCHANGED <<chain, private_key_file, index, collect, skipped, missed>>
    BY DEF RevokeEvent
  <1>2. ChainOK' /\ Height' = Height /\ Transactions' = Transactions
    BY <1>1, SameChain DEF Inv
  <1>3. /\ DbOK' /\ EventsBelowCheckpoint' /\ KeysBelowCheckpoint'
        /\ DOMAIN db.events \subseteq DOMAIN db'.events
        /\ db'.viewing_keys = db.viewing_keys
        /\ db'.last_events_block = db.last_events_block
    <2>1. CASE UNCHANGED db
      BY <1>1, <1>2, <2>1 DEF Inv, DbOK, EventsBelowCheckpoint, KeysBelowCheckpoint
    <2>2. CASE \E row \in Rows : row.viewing_key # NoKey /\ db' = upsert_event(db, row)
      BY <1>1, <2>2, RowWritten
    <2> QED
      BY <2>1, <2>2, RevokedRow
  <1>4. KeysOK' /\ RevokeOK'
    BY <1>1, RevokedRow DEF Inv, KeysOK
  <1>5. IndexFetched' /\ IndexBatch'
    BY <1>1, <1>2, <1>3 DEF Inv, IndexFetched, IndexBatch, Indexable
  <1>6. CollectDone'
    BY <1>1, <1>2, <1>3 DEF Inv, CollectDone, Collectable
  <1> QED
    BY <1>2, <1>3, <1>4, <1>5, <1>6 DEF Inv

-----------------------------------------------------------------------------
(* The theorems. *)

\* The invariant holds in every state.
LEMMA Invariance == Spec => []Inv
  <1>1. Init => Inv
    <2> SUFFICES ASSUME Init PROVE Inv
      OBVIOUS
    <2>1. DOMAIN chain = 0..0 /\ chain[0] = {} /\ Transactions = {}
      BY DEF Init, Transactions
    <2>2. Height = 0 /\ ChainOK
      <3>1. Height = 0
        BY <2>1, MaxInterval DEF Height
      <3> QED
        BY <2>1, <3>1 DEF ChainOK
    <2>3. DbOK
      BY <2>2 DEF Init, DbOK
    <2>4. KeysOK /\ RevokeOK /\ IndexFetched /\ IndexBatch /\ CollectDone
      BY DEF Init, Idle, KeysOK, RevokeOK, IndexFetched, IndexBatch, CollectDone
    <2>5. EventsBelowCheckpoint /\ KeysBelowCheckpoint
      BY <2>1 DEF EventsBelowCheckpoint, KeysBelowCheckpoint
    <2> QED
      BY <2>2, <2>3, <2>4, <2>5 DEF Inv
  <1>2. Inv /\ [Next]_vars => Inv'
    <2> SUFFICES ASSUME Inv, [Next]_vars PROVE Inv'
      OBVIOUS
    <2>1. CASE MineBlock \/ Generate \/ Kill \/ retry_with_backoff
      BY <2>1, MineKeeps, Stops
    <2>2. CASE IndexStep
      <3>1. CASE IndexStart
        BY <3>1, StartOfIndex DEF IndexStart
      <3> QED
        BY <2>2, <3>1, FetchOfIndex, LogsOfIndex, CheckpointOfIndex DEF IndexStep
    <2>3. CASE CollectStep
      <3>1. CASE CollectStart
        BY <3>1, StartOfCollect DEF CollectStart
      <3> QED
        BY <2>3, <3>1, BlockOfCollect, CheckpointOfCollect DEF CollectStep
    <2>4. CASE RevokeStep
      BY <2>4, StartOfRevoke, EventOfRevoke DEF RevokeStep
    <2>5. CASE UNCHANGED vars
      BY <2>5, StopKeeps DEF vars
    <2> QED
      BY <2>1, <2>2, <2>3, <2>4, <2>5 DEF Next
  <1> QED
    BY <1>1, <1>2, PTL DEF Spec

\* An event at or below the checkpoint of IndexEvents has its row.
THEOREM EventsAreIndexed == Spec => []EventsBelowCheckpoint
  <1>1. Inv => EventsBelowCheckpoint
    BY DEF Inv
  <1> QED
    BY <1>1, Invariance, PTL

\* The key of an account created at or below the checkpoint of CollectKeys is known.
THEOREM KeysAreCollected == Spec => []KeysBelowCheckpoint
  <1>1. Inv => KeysBelowCheckpoint
    BY DEF Inv
  <1> QED
    BY <1>1, Invariance, PTL

\* A row loses its viewing key only in the block of the checkpoint or a later one.
THEOREM KeysStayBelowCheckpoint == Spec => KeysErasedOnlyAtCheckpoint
  <1> DEFINE Kept == \A h \in DOMAIN db.events :
                       (db.events[h].viewing_key # NoKey /\ db'.events[h].viewing_key = NoKey)
                         => db.events[h].block_number >= db.last_events_block
  <1>1. Inv /\ [Next]_vars => [Kept]_vars
    <2> SUFFICES ASSUME Inv, Next PROVE Kept
      BY DEF vars
    <2>1. CASE db' = db \/ db'.events = db.events
      BY <2>1
    <2>2. CASE process_logs
      <3>1. PICK tx \in index.logs : db' = persist_event(db, tx)
        BY <2>2 DEF process_logs
      <3>2. /\ index.next \in Nat /\ index.height \in 0..Height /\ index.last \in index.next..index.height
            /\ db.last_events_block <= index.next /\ db.last_events_block \in Nat
        BY <2>2 DEF process_logs, Inv, IndexFetched, IndexBatch, DbOK, ChainOK
      <3>3. PICK b \in index.next..index.last : tx \in TxsAt(b)
        BY <2>2 DEF process_logs, Inv, IndexBatch
      <3>4. PICK row \in Rows : row.tx_hash = tx.hash /\ db' = upsert_event(db, row)
        BY <3>1, <3>2, <3>3, EventRow
      <3>5. tx.hash[1] = b /\ b \in Nat /\ b >= db.last_events_block
        BY <3>2, <3>3, TxFields
      <3>6. ASSUME NEW h \in DOMAIN db.events, h = tx.hash
            PROVE  db.events[h].block_number >= db.last_events_block
        <4>1. db.events[h] \in Rows /\ db.events[h].tx_hash = h
          BY DEF Inv, DbOK
        <4>2. db.events[h].block_number = h[1]
          BY <4>1 DEF Rows
        <4> QED
          BY <3>5, <3>6, <4>2
      <3>7. \A h \in DOMAIN db.events : h # tx.hash => db'.events[h] = db.events[h]
        BY <3>4, RowsKept
      <3> QED
        BY <3>6, <3>7
    <2>3. CASE RevokeEvent
      <3>1. CASE UNCHANGED db
        BY <3>1
      <3>2. CASE \E row \in Rows : row.viewing_key # NoKey /\ db' = upsert_event(db, row)
        BY <3>2, RowsKept
      <3> QED
        BY <2>3, <3>1, <3>2, RevokedRow
    <2>4. CASE IndexCheckpoint \/ CollectBlock \/ CollectCheckpoint
      <3>1. db = [events |-> db.events, viewing_keys |-> db.viewing_keys,
                  last_events_block |-> db.last_events_block, last_keys_block |-> db.last_keys_block]
        BY DEF Inv, DbOK
      <3>2. CASE IndexCheckpoint
        BY <2>1, <3>1, <3>2 DEF IndexCheckpoint
      <3>3. CASE CollectBlock
        BY <2>1, <3>1, <3>3 DEF CollectBlock, decode_and_persist
      <3>4. CASE CollectCheckpoint
        BY <2>1, <3>1, <3>4 DEF CollectCheckpoint
      <3> QED
        BY <2>4, <3>2, <3>3, <3>4
    <2>5. CASE MineBlock \/ Generate \/ Kill \/ retry_with_backoff \/ IndexStart \/ IndexFetch
               \/ CollectStart \/ RevokeStart
      BY <2>1, <2>5 DEF MineBlock, Generate, Kill, retry_with_backoff, IndexStart, IndexFetch,
           CollectStart, RevokeStart
    <2> QED
      BY <2>2, <2>3, <2>4, <2>5 DEF Next, IndexStep, CollectStep, RevokeStep
  <1> QED
    BY <1>1, Invariance, PTL DEF Spec, KeysErasedOnlyAtCheckpoint
=============================================================================
