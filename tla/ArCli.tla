-------------------------------- MODULE ArCli --------------------------------
(***************************************************************************)
(* The anonymity revoker's tool (ar-cli).  IndexEvents copies the events   *)
(* of the contract into a database, CollectKeys decrypts the viewing keys  *)
(* that new accounts are created with, Revoke matches the two, Reveal      *)
(* lists the transactions of the account behind one.  The commands share   *)
(* the database and nothing else; IndexEvents and CollectKeys keep a       *)
(* checkpoint each, and both start again AT it.                            *)
(*                                                                         *)
(* Every statement commits by itself.  A command may be killed between any *)
(* two statements; a rate limit makes it start over by itself; a node that *)
(* lags behind the one that gave the height has no block to return, and no *)
(* logs of the blocks it has not seen.  The operator does not give a       *)
(* command again before it has ended: nothing in the code prevents it, and *)
(* what is said of the checkpoints and of erased keys rests on it.         *)
(***************************************************************************)
EXTENDS Integers, Sequences, SequencesExt, FiniteSets

CONSTANTS
  Accounts,
  FromBlock,     \* --from-block of every invocation
  BatchSize,     \* --batch-size of IndexEvents
  ArKey,         \* the revoker's private key: its bytes, least significant first
  MaxBlocks, MaxFaults

ASSUME ArCliAssumption ==
  /\ BatchSize \in Nat \ {0} /\ FromBlock \in Nat /\ MaxBlocks \in Nat /\ MaxFaults \in Nat
  /\ ArKey \in Seq(Nat) /\ ArKey # <<>>
  /\ "None" \notin Accounts   \* no account is taken for a key that is not known

VARIABLES
  chain,      \* block number -> set of transactions to the contract
  db,         \* [events, viewing_keys, last_events_block, last_keys_block]
  private_key_file,  \* its bytes, <<>> if there is none
  index, collect, revoke,  \* the running invocation of each command
  skipped,    \* calls in blocks CollectKeys has passed and was never given (history)
  missed,     \* events in blocks IndexEvents has passed and was never given (history)
  faults

vars == <<chain, db, private_key_file, index, collect, revoke, skipped, missed, faults>>

NoKey == "None"
Idle == [pc |-> "idle"]
Height == Max(DOMAIN chain)

(***************************************************************************)
(* The chain.  A transaction: [hash, block, account, what, direct, event]. *)
(* A router's transactions are not addressed to the contract; one that     *)
(* reverts has no event.                                                   *)
(***************************************************************************)
Transactions == UNION {chain[b] : b \in DOMAIN chain}
Created(a) == \E tx \in Transactions : tx.account = a /\ tx.what = "NewAccount" /\ tx.event

Tx(block, a, what, direct, event) ==
  [hash |-> <<block, a>>, block |-> block, account |-> a, what |-> what,
   direct |-> direct, event |-> event]

BlockTxs(block, a) ==
  IF Created(a) THEN {{}, {Tx(block, a, "Spend", TRUE, TRUE)}}
  ELSE {{}, {Tx(block, a, "NewAccount", TRUE, TRUE)}, {Tx(block, a, "NewAccount", FALSE, TRUE)},
        {Tx(block, a, "NewAccount", TRUE, FALSE)}}

MineBlock ==
  /\ Height < MaxBlocks
  /\ \E txs \in {f \in [Accounts -> UNION {BlockTxs(Height + 1, a) : a \in Accounts}] :
                   \A a \in Accounts : f[a] \in BlockTxs(Height + 1, a)} :
       chain' = [b \in 0..(Height + 1) |->
                   IF b <= Height THEN chain[b] ELSE UNION {txs[a] : a \in Accounts}]
  /\ UNCHANGED <<db, private_key_file, index, collect, revoke, skipped, missed, faults>>

(***************************************************************************)
(* Keys.  The private key is written big-endian; CollectKeys reverses what *)
(* it reads.  What a new account encrypts is decrypted by the same key,    *)
(* anything else decrypts to a key of nobody.                              *)
(***************************************************************************)
\* Mutant: the bytes are used as they are read.
from_file_unreversed(bytes) == bytes

to_bytes_be(key) == Reverse(key)
from_file(bytes) == Reverse(bytes)
decrypt(tx, key) == IF key = ArKey THEN tx.account ELSE "nobody"

\* Run again, it writes the same files: the seed is the revoker's.
Generate ==
  /\ private_key_file' = to_bytes_be(ArKey)
  /\ UNCHANGED <<chain, db, index, collect, revoke, skipped, missed, faults>>

(***************************************************************************)
(* The database.                                                           *)
(***************************************************************************)
mac_commitment(salt, key) == [salt |-> salt, key |-> key]

\* REPLACE INTO events: the primary key is the hash of the transaction.
upsert_event(d, row) ==
  [d EXCEPT !.events = [h \in DOMAIN d.events \union {row.tx_hash} |->
                          IF h = row.tx_hash THEN row ELSE d.events[h]]]

\* An event as it is found on the chain has no viewing key yet.
persist_event(d, tx) ==
  upsert_event(d, [tx_hash |-> tx.hash, block_number |-> tx.block, mac_salt |-> tx.hash,
                   mac_commitment |-> mac_commitment(tx.hash, tx.account),
                   viewing_key |-> NoKey])

(***************************************************************************)
(* IndexEvents.                                                            *)
(***************************************************************************)
\* Mutant: every run starts at from_block.
FirstBlockOfAll(last_seen) == FromBlock

\* The range is max(from_block, last_seen)..=height.
FirstBlock(last_seen) == Max({FromBlock, last_seen})

\* At the batch of a block; the command ends with the range.
IndexAt(block_number, height) ==
  IF block_number <= height
  THEN [pc |-> "fetch", next |-> block_number, height |-> height] ELSE Idle

IndexBegun == IndexAt(FirstBlock(db.last_events_block), Height)

IndexStart ==
  /\ index.pc = "idle"
  /\ index' = IndexBegun
  /\ UNCHANGED <<chain, db, private_key_file, collect, revoke, skipped, missed, faults>>

LastBatchBlock(block_number) == Min({block_number + BatchSize - 1, index.height})

get_logs(from, to) ==
  {tx \in UNION {chain[b] : b \in (from..to) \intersect DOMAIN chain} : tx.event}

\* The node has seen the blocks up to seen: what it does not return is lost.
IndexFetch ==
  /\ index.pc = "fetch"
  /\ \E seen \in (index.next - 1)..LastBatchBlock(index.next) :
       LET last == LastBatchBlock(index.next)
           lost == get_logs(seen + 1, last)
       IN  /\ index' = [pc |-> "process", next |-> index.next, height |-> index.height,
                        logs |-> get_logs(index.next, seen), lost |-> lost, last |-> last]
           /\ \/ lost = {} /\ UNCHANGED faults
              \/ lost # {} /\ faults < MaxFaults /\ faults' = faults + 1
  /\ UNCHANGED <<chain, db, private_key_file, collect, revoke, skipped, missed>>

process_logs ==
  /\ index.pc = "process"
  /\ \E tx \in index.logs :
       /\ \A other \in index.logs : tx.block <= other.block
       /\ db' = persist_event(db, tx)
       /\ index' = [index EXCEPT !.logs = @ \ {tx}]
  /\ UNCHANGED <<chain, private_key_file, collect, revoke, skipped, missed, faults>>

\* What a batch leaves behind.  What an earlier run had passed already, in the block of
\* the checkpoint, is not lost anew.
MissedAfterBatch ==
  {tx \in missed : tx.block < index.next \/ tx \in index.lost}
    \union {tx \in index.lost : tx.block > db.last_events_block}

\* Mutant: the checkpoint is the height of the run.
IndexCheckpointAtHeight ==
  /\ index.pc = "process" /\ index.logs = {}
  /\ missed' = MissedAfterBatch
  /\ db' = [db EXCEPT !.last_events_block = index.height]
  /\ index' = IndexAt(index.next + BatchSize, index.height)
  /\ UNCHANGED <<chain, private_key_file, collect, revoke, skipped, faults>>

IndexCheckpoint ==
  /\ index.pc = "process" /\ index.logs = {}
  /\ missed' = MissedAfterBatch
  /\ db' = [db EXCEPT !.last_events_block = index.last]
  /\ index' = IndexAt(index.next + BatchSize, index.height)
  /\ UNCHANGED <<chain, private_key_file, collect, revoke, skipped, faults>>

(***************************************************************************)
(* CollectKeys: a block at a time.                                         *)
(***************************************************************************)
CollectAt(block_number, height, private_key) ==
  IF block_number <= height
  THEN [pc |-> "block", next |-> block_number, height |-> height, private_key |-> private_key]
  ELSE Idle

CollectBegun == CollectAt(FirstBlock(db.last_keys_block), Height, from_file(private_key_file))

\* Fails without the file of the private key.
CollectStart ==
  /\ collect.pc = "idle"
  /\ private_key_file # <<>>
  /\ collect' = CollectBegun
  /\ UNCHANGED <<chain, db, private_key_file, index, revoke, skipped, missed, faults>>

\* Every newAccount call in the block, also one that reverted.
NewAccountCalls(txs) == {tx \in txs : tx.direct /\ tx.what = "NewAccount"}

decode_and_persist(d, txs, key) ==
  [d EXCEPT !.viewing_keys = @ \union {decrypt(tx, key) : tx \in NewAccountCalls(txs)}]

\* get_block_by_number may return None: it matters where there is something to read.
CollectBlock ==
  /\ collect.pc = "block"
  /\ LET calls == NewAccountCalls(chain[collect.next]) IN
     \/ /\ db' = decode_and_persist(db, chain[collect.next], collect.private_key)
        /\ skipped' = skipped \ calls
        /\ UNCHANGED faults
     \/ /\ calls # {}
        /\ faults < MaxFaults /\ faults' = faults + 1
        /\ skipped' = skipped \union {tx \in calls : collect.next > db.last_keys_block}
        /\ UNCHANGED db
  /\ collect' = [collect EXCEPT !.pc = "checkpoint"]
  /\ UNCHANGED <<chain, private_key_file, index, revoke, missed>>

CollectCheckpoint ==
  /\ collect.pc = "checkpoint"
  /\ db' = [db EXCEPT !.last_keys_block = collect.next]
  /\ collect' = CollectAt(collect.next + 1, collect.height, collect.private_key)
  /\ UNCHANGED <<chain, private_key_file, index, revoke, skipped, missed, faults>>

(***************************************************************************)
(* Revoke: reads the keys and the events once, and writes back the rows it *)
(* can match, whole.                                                       *)
(***************************************************************************)
Unmatched(d) == {row \in Range(d.events) : row.viewing_key = NoKey}

RevokeWith(keys, rows) ==
  IF rows # {} THEN [pc |-> "match", keys |-> keys, rows |-> rows] ELSE Idle

RevokeStart ==
  /\ revoke.pc = "idle"
  /\ revoke' = RevokeWith(db.viewing_keys, Unmatched(db))
  /\ UNCHANGED <<chain, db, private_key_file, index, collect, skipped, missed, faults>>

\* Mutant: key and salt are hashed in the other order.
MatchesSwapped(row, key) == row.mac_commitment = mac_commitment(key, row.mac_salt)

Matches(row, key) == row.mac_commitment = mac_commitment(row.mac_salt, key)

RevokeEvent ==
  /\ revoke.pc = "match"
  /\ \E row \in revoke.rows :
       /\ revoke' = RevokeWith(revoke.keys, revoke.rows \ {row})
       /\ \/ \E key \in revoke.keys :
               /\ Matches(row, key)
               /\ db' = upsert_event(db, [row EXCEPT !.viewing_key = key])
          \/ /\ \A key \in revoke.keys : ~Matches(row, key)
             /\ UNCHANGED db
  /\ UNCHANGED <<chain, private_key_file, index, collect, skipped, missed, faults>>

\* Reveal: the transactions with the viewing key of this one.
reveal(tx_hash) ==
  IF tx_hash \notin DOMAIN db.events \/ db.events[tx_hash].viewing_key = NoKey THEN {}
  ELSE {h \in DOMAIN db.events : db.events[h].viewing_key = db.events[tx_hash].viewing_key}

(***************************************************************************)
(* Faults: a command is killed or fails, or is rate limited and retried.   *)
(***************************************************************************)
Kill ==
  /\ faults < MaxFaults
  /\ faults' = faults + 1
  /\ \/ index.pc # "idle" /\ index' = Idle /\ UNCHANGED <<collect, revoke>>
     \/ collect.pc # "idle" /\ collect' = Idle /\ UNCHANGED <<index, revoke>>
     \/ revoke.pc # "idle" /\ revoke' = Idle /\ UNCHANGED <<index, collect>>
  /\ UNCHANGED <<chain, db, private_key_file, skipped, missed>>

\* Only the requests to the node can be: the whole command runs again.  Nobody sees it
\* wait, so it fails when it starts over.
retry_with_backoff ==
  /\ faults < MaxFaults
  /\ faults' = faults + 1
  /\ \/ index.pc = "fetch" /\ index' = IndexBegun /\ UNCHANGED collect
     \/ collect.pc = "block" /\ collect' = CollectBegun /\ UNCHANGED index
  /\ UNCHANGED <<chain, db, private_key_file, revoke, skipped, missed>>

Init ==
  /\ chain = [b \in {0} |-> {}]
  /\ db = [events |-> [h \in {} |-> {}], viewing_keys |-> {},
           last_events_block |-> 0, last_keys_block |-> 0]
  /\ private_key_file = <<>>
  /\ index = Idle /\ collect = Idle /\ revoke = Idle
  /\ skipped = {} /\ missed = {} /\ faults = 0

IndexStep == IndexStart \/ IndexFetch \/ process_logs \/ IndexCheckpoint
CollectStep == CollectStart \/ CollectBlock \/ CollectCheckpoint
RevokeStep == RevokeStart \/ RevokeEvent

Next == MineBlock \/ Generate \/ IndexStep \/ CollectStep \/ RevokeStep
          \/ Kill \/ retry_with_backoff

\* The operator gives the three commands again and again.
Spec == Init /\ [][Next]_vars
        /\ WF_vars(Generate) /\ WF_vars(IndexStep) /\ WF_vars(CollectStep) /\ WF_vars(RevokeStep)

(***************************************************************************)
(* Properties.                                                             *)
(***************************************************************************)
\* Whatever the commands are stopped by, an event at or below the checkpoint of
\* IndexEvents has its row (index_events.rs:44-61: the checkpoint is written after the
\* events of its batch), unless no run was given it.
EventsBelowCheckpoint ==
  \A tx \in Transactions \ missed :
    (tx.event /\ tx.block \in FromBlock..db.last_events_block)
      => tx.hash \in DOMAIN db.events

\* The viewing key of an account created at or below the checkpoint of CollectKeys, by
\* a call to the contract itself, is known, unless no run was given the block
\* (collect_viewing_keys.rs:67-125).  A block passed over is given to a later run only
\* when it is the last: the checkpoint, where that run starts.
KeysBelowCheckpoint ==
  \A tx \in Transactions \ skipped :
    (tx.direct /\ tx.what = "NewAccount" /\ tx.block \in FromBlock..db.last_keys_block)
      => tx.account \in db.viewing_keys

\* A row loses its viewing key only in the block of the checkpoint or a later one:
\* IndexEvents starts at its checkpoint and writes the rows it finds anew, without a
\* key (index_events.rs:44, 138), so what was revoked below it stays revoked.
KeysErasedOnlyAtCheckpoint ==
  [][\A h \in DOMAIN db.events :
       (db.events[h].viewing_key # NoKey /\ db'.events[h].viewing_key = NoKey)
         => db.events[h].block_number >= db.last_events_block]_vars

\* What CollectKeys could read of an account's creation.
Readable(a) ==
  \A tx \in Transactions :
    (tx.account = a /\ tx.what = "NewAccount" /\ tx.event)
      => (tx.direct /\ tx.block >= FromBlock /\ tx \notin skipped)

\* Every event whose logs were given, of an account whose creation was read, has the
\* account's key again and again, so that Reveal on it finds the account: although each
\* IndexEvents erases the key in the last block, and runs together with Revoke, which
\* writes rows it read earlier (revoke.rs:17-53).
EventsAreMatched ==
  \A h \in (FromBlock..MaxBlocks) \X Accounts :
    []<>((\E tx \in Transactions \ missed :
            tx.hash = h /\ tx.event /\ Readable(tx.account)) =>
           h \in reveal(h) /\ db.events[h].viewing_key = h[2])
=============================================================================
