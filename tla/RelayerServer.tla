---------------------------- MODULE RelayerServer ----------------------------
(***************************************************************************)
(* The VaultChat relayer daemon, relayer_server.py: a background loop and  *)
(* HTTP handler threads read relayed messages from the chain into an       *)
(* outbox, a caller of /anchor has the outbox's Merkle root anchored for a *)
(* reward.  What was seen is in a ledger file, the outbox in memory only.  *)
(* The chain's side (store_message, delete_message, anchor_messages of     *)
(* VaultChat.slx) is as much of the contract as the daemon depends on.     *)
(***************************************************************************)
EXTENDS Naturals, FiniteSets

CONSTANTS
  Users,        \* senders and recipients
  Letters,      \* what they post: [from, to, blob]
  Self,         \* the daemon's own address
  Threads,      \* HTTP handler threads
  ANCHOR_MIN_MESSAGES, ANCHOR_MIN_SENDERS, ANCHOR_RATE_LIMIT_BLOCKS,
  MAX_ONCHAIN_MESSAGES,  \* slots of the ring an inbox is
  CallBlocks,            \* blocks a call and its execution may take
  MaxTopo, MaxPosts, MaxFaults   \* bounds: blocks, messages, faults

Assumptions ==
  /\ Self \in Users /\ \A l \in Letters : {l.from, l.to} \subseteq Users
  /\ CallBlocks \in Nat /\ ANCHOR_RATE_LIMIT_BLOCKS \in Nat
  /\ 2 * CallBlocks < ANCHOR_RATE_LIMIT_BLOCKS  \* 25 minutes; a call times out after one
  /\ MAX_ONCHAIN_MESSAGES \in Nat \ {0}

VARIABLES
  topo,        \* chain: height
  inbox,       \* chain: [recipient -> [slot -> message]]
  count,       \* chain: [recipient -> messages ever stored]
  pool,        \* chain: anchor transactions not executed yet
  anchored,    \* chain: executed anchors, [id, batch, count, senders]
  lastOnChain, \* chain: block of this relayer's last anchor, 0 for none
  ledger,      \* memory: [seen, known, last]
  file,        \* disk: the ledger as saved
  outbox,      \* memory: outbox_new, as [key, blob]
  senders,     \* memory: outbox_senders
  pc,          \* [thread -> step in try_anchor]
  posted,      \* history: messages ever stored
  noticed,     \* history: the messages sync or an inbox read came across
  ids,         \* history: how many anchors were sent
  faults,      \* history: how many of the bounded faults happened
  resent       \* history: a reply was lost or a save failed

chain == <<topo, inbox, count, pool, anchored, lastOnChain, posted>>
memory == <<ledger, outbox, senders>>
vars == <<chain, memory, file, pc, noticed, ids, faults, resent>>

-----------------------------------------------------------------------------
Slots == 0..(MAX_ONCHAIN_MESSAGES - 1)
Empty == [sender |-> Self, blob |-> "", n |-> 0]
Idle == [step |-> "idle"]

Init ==
  /\ topo = 1
  /\ inbox = [r \in Users |-> [s \in Slots |-> Empty]]
  /\ count = [r \in Users |-> 0]
  /\ pool = {} /\ anchored = {} /\ lastOnChain = 0
  /\ ledger = [seen |-> {}, known |-> {}, last |-> 0]
  /\ file = ledger
  /\ outbox = {} /\ senders = {}
  /\ pc = [t \in Threads |-> Idle]
  /\ posted = {} /\ noticed = {} /\ ids = 0 /\ faults = 0 /\ resent = FALSE

Fault == faults < MaxFaults /\ faults' = faults + 1

\* Ledger.save: the file as it is now; an error is swallowed and the file
\* stays what it was
Save ==
  \/ /\ file' = ledger'
     /\ UNCHANGED <<faults, resent>>
  \/ /\ Fault
     /\ resent' = TRUE
     /\ UNCHANGED file

-----------------------------------------------------------------------------
(* The chain. *)

\* A new block; a call and its transaction do not take longer than CallBlocks.
Tick ==
  /\ topo < MaxTopo
  /\ \A tx \in pool : topo + 1 - tx.since <= CallBlocks
  /\ \A t \in Threads : pc[t] # Idle => topo + 1 - pc[t].since <= CallBlocks
  /\ topo' = topo + 1
  /\ UNCHANGED <<inbox, count, pool, anchored, lastOnChain, posted>>
  /\ UNCHANGED <<memory, file, pc, noticed, ids, faults, resent>>

\* store_message: the next slot of the recipient's ring.  POST /relay is this
\* call with the relayer's wallet as the sender.
StoreMessage(letter) ==
  LET r == letter.to
      msg == [sender |-> letter.from, blob |-> letter.blob, n |-> count[r] + 1]
  IN /\ Cardinality(posted) < MaxPosts
     /\ inbox' = [inbox EXCEPT ![r][count[r] % MAX_ONCHAIN_MESSAGES] = msg]
     /\ count' = [count EXCEPT ![r] = @ + 1]
     /\ posted' = posted \cup {[to |-> r, msg |-> msg]}
     /\ UNCHANGED <<topo, pool, anchored, lastOnChain>>
     /\ UNCHANGED <<memory, file, pc, noticed, ids, faults, resent>>

\* anchor_messages is executed, or reverts on the rate limit
ExecuteAnchor(tx) ==
  /\ tx \in pool
  /\ pool' = pool \ {tx}
  /\ IF lastOnChain # 0 /\ topo - lastOnChain < ANCHOR_RATE_LIMIT_BLOCKS
       THEN UNCHANGED <<anchored, lastOnChain>>
       ELSE /\ anchored' = anchored \cup {tx}
            /\ lastOnChain' = topo
  /\ UNCHANGED <<topo, inbox, count, posted>>
  /\ UNCHANGED <<memory, file, pc, noticed, ids, faults, resent>>

-----------------------------------------------------------------------------
(* Reading. *)

\* _read_inbox: the slots that hold a message
ReadInbox(r) == {[to |-> r, slot |-> s, msg |-> inbox[r][s]] :
                   s \in {x \in Slots : x < count[r]}}

\* key = sender|ts|slot: the recipient is not in it, and the relayed
\* messages of this daemon and of the CLI all carry timestamp 0
Key(m) == <<m.msg.sender, m.slot>>

\* every relayed message read whose key was not seen is marked and enqueued
\* (of two with one key, the one read first), and the ledger saved
Enqueue(read, known) ==
  /\ \E taken \in SUBSET {m \in read : Key(m) \notin ledger.seen} :
       /\ {Key(m) : m \in taken} = {Key(m) : m \in read} \ ledger.seen
       /\ \A m1, m2 \in taken : Key(m1) = Key(m2) => m1 = m2
       /\ outbox' = outbox \cup {[key |-> Key(m), blob |-> m.msg.blob] : m \in taken}
       /\ senders' = senders \cup {m.msg.sender : m \in taken}
  /\ ledger' = [ledger EXCEPT !.seen = @ \cup {Key(m) : m \in read}, !.known = known]
  /\ noticed' = noticed \cup {[to |-> m.to, msg |-> m.msg] : m \in read}
  /\ Save
  /\ UNCHANGED <<chain, pc, ids>>

\* sync_once: the inboxes of every address asked for before, and our own
SyncOnce == Enqueue(UNION {ReadInbox(r) : r \in ledger.known \cup {Self}}, ledger.known)

\* GET /inbox/<addr>: the same for one address, which is remembered
InboxFor(r) == Enqueue(ReadInbox(r), ledger.known \cup {r})

-----------------------------------------------------------------------------
(* Anchoring: POST /anchor, one try_anchor per handler thread. *)

\* the outbox is copied under the lock, the limits are checked on the copy;
\* a node that does not answer is read as height 0
Snapshot(t) ==
  \E topoRead \in {topo, 0} :
    /\ pc[t] = Idle
    /\ Cardinality({m.blob : m \in outbox}) >= ANCHOR_MIN_MESSAGES
    /\ Cardinality(senders) >= ANCHOR_MIN_SENDERS
    /\ ledger.last # 0 =>
         topoRead >= ledger.last /\ topoRead - ledger.last >= ANCHOR_RATE_LIMIT_BLOCKS
    /\ IF topoRead = topo THEN UNCHANGED faults ELSE Fault
    /\ pc' = [pc EXCEPT ![t] = [step |-> "invoke", batch |-> outbox, senders |-> senders,
                                topo |-> topoRead, since |-> topo]]
    /\ UNCHANGED <<chain, memory, file, noticed, ids, resent>>

\* chat_anchor: success is an accepted transaction, executed later or never
CountsNow_(t) ==
  /\ pc[t].step = "invoke"
  /\ ids' = ids + 1
  /\ pool' = pool \cup {[id |-> ids + 1, batch |-> pc[t].batch, since |-> pc[t].since,
                         count |-> Cardinality({m.blob : m \in outbox}),
                         senders |-> Cardinality(senders)]}
  /\ pc' = [pc EXCEPT ![t].step = "clear"]
  /\ UNCHANGED <<faults, resent>>
  /\ UNCHANGED <<topo, inbox, count, anchored, lastOnChain, posted>>
  /\ UNCHANGED <<memory, file, noticed>>
Broadcast(t) ==
  /\ pc[t].step = "invoke"
  /\ ids' = ids + 1
  /\ pool' = pool \cup {[id |-> ids + 1, batch |-> pc[t].batch, since |-> pc[t].since,
                         count |-> Cardinality({m.blob : m \in pc[t].batch}),
                         senders |-> Cardinality(pc[t].senders)]}
  /\ \/ /\ pc' = [pc EXCEPT ![t].step = "clear"]
        /\ UNCHANGED <<faults, resent>>
     \/ /\ Fault                                   \* the reply is lost
        /\ resent' = TRUE
        /\ pc' = [pc EXCEPT ![t] = Idle]
  /\ UNCHANGED <<topo, inbox, count, anchored, lastOnChain, posted>>
  /\ UNCHANGED <<memory, file, noticed>>

\* refused by the node or the wallet: the outbox is kept
InvokeFails(t) ==
  /\ pc[t].step = "invoke"
  /\ pc' = [pc EXCEPT ![t] = Idle]
  /\ UNCHANGED <<chain, memory, file, noticed, ids, faults, resent>>

\* the whole outbox is emptied, not the batch that was sent
KeepsOutbox_(t) ==
  /\ pc[t].step = "clear"
  /\ ledger' = [ledger EXCEPT !.last = pc[t].topo]
  /\ UNCHANGED <<outbox, senders>>
  /\ pc' = [pc EXCEPT ![t] = Idle]
  /\ Save
  /\ UNCHANGED <<chain, noticed, ids>>
Clear(t) ==
  /\ pc[t].step = "clear"
  /\ ledger' = [ledger EXCEPT !.last = pc[t].topo]
  /\ outbox' = {} /\ senders' = {}
  /\ pc' = [pc EXCEPT ![t] = Idle]
  /\ Save
  /\ UNCHANGED <<chain, noticed, ids>>

\* the process is killed and started again: the file is the ledger
Restart ==
  /\ Fault
  /\ ledger' = file
  /\ outbox' = {} /\ senders' = {}
  /\ pc' = [t \in Threads |-> Idle]
  /\ UNCHANGED <<chain, file, noticed, ids, resent>>

-----------------------------------------------------------------------------
Chain ==
  \/ Tick
  \/ \E letter \in Letters : StoreMessage(letter)
  \/ \E tx \in pool : ExecuteAnchor(tx)

Daemon ==
  \/ SyncOnce
  \/ \E r \in Users : InboxFor(r)
  \/ \E t \in Threads : Snapshot(t) \/ Broadcast(t) \/ InvokeFails(t) \/ Clear(t)
  \/ Restart

Next == Chain \/ Daemon

Spec == Init /\ [][Next]_vars

-----------------------------------------------------------------------------
(* Properties. *)

\* What is anchored is what was posted: every blob of the batch is a message
\* that was stored, the count claimed for it is met by as many stored
\* messages, and the senders claimed posted them.  The batch and its senders
\* are copied at one moment and sent at a later one, after other threads may
\* have emptied and refilled the outbox.
AnchorsHonest ==
  \A a \in anchored :
    LET stored == {p \in posted : p.msg.blob \in {m.blob : m \in a.batch}}
    IN /\ {m.blob : m \in a.batch} = {p.msg.blob : p \in stored}
       /\ a.count >= ANCHOR_MIN_MESSAGES /\ a.count <= Cardinality(stored)
       /\ a.senders >= ANCHOR_MIN_SENDERS
       /\ a.senders <= Cardinality({p.msg.sender : p \in stored})

\* A message is rewarded once: no two executed anchors hold the same one,
\* though two handler threads may copy and send the same outbox.  A reply
\* that was lost, or a ledger that was not saved, leaves the daemon ignorant
\* of what it sent; only then may it send a batch again.
AnchoredOnce ==
  ~resent => \A a1, a2 \in anchored : a1 # a2 => a1.batch \cap a2.batch = {}

\* sync_once: "record new ones into the outbox so they are candidates for
\* anchoring".  A message the daemon came across is in the outbox, in a batch
\* on its way or in one that was anchored, unless the process died.
Candidates ==
  faults = 0 =>
    \A p \in noticed :
      p.msg.blob \in {m.blob : m \in outbox \cup UNION {a.batch : a \in pool \cup anchored}}
=============================================================================
