---------------------------- MODULE ServicesProofs ----------------------------
(***************************************************************************)
(* What the background services keep, proved.  The relayer daemon first:   *)
(* any users, letters, handler threads and inbox size, any faults.  Then   *)
(* the supervisor of the consoles, any number of them, and the oracle      *)
(* keeper with its feed: any wallets, quotes and settings.                 *)
(***************************************************************************)
EXTENDS Services, FiniteSetTheorems, SequenceTheorems, WellFoundedInduction, TLAPS

-----------------------------------------------------------------------------
(* Time.  A call is younger than CallBlocks while it runs, and so is what  *)
(* it has sent while that waits for its block.                             *)

Sent == pool \cup anchored
Busy(c) ==
  /\ c = [step |-> c.step, batch |-> c.batch, senders |-> c.senders, topo |-> c.topo,
          since |-> c.since]
  /\ c.step \in {"invoke", "clear"}
Young(since, now) ==
  since \in Nat /\ since >= 1 /\ since <= now /\ now <= since + CallBlocks

CallsInv ==
  /\ thread = [t \in Threads |-> thread[t]]
  /\ \A t \in Threads : thread[t] # R!Idle => Busy(thread[t]) /\ Young(thread[t].since, topo)
TimeInv ==
  /\ topo \in Nat /\ topo >= 1 /\ lastOnChain \in Nat /\ lastOnChain <= topo
  /\ CallsInv
  /\ \A tx \in pool : Young(tx.since, topo)
  /\ \A tx \in anchored : tx.since \in Nat /\ tx.since >= 1 /\ tx.since <= lastOnChain

LEMMA TimeStep ==
  ASSUME R!Assumptions, TimeInv, [R!Next]_R!vars
  PROVE  TimeInv'
<1>0. CallBlocks \in Nat
  BY DEF R!Assumptions
<1> USE DEF TimeInv, CallsInv
<1>1. CASE R!Tick
  <2>1. ASSUME NEW i \in Nat, i >= 1, i <= topo, topo + 1 - i <= CallBlocks
        PROVE  Young(i, topo + 1)
    BY <1>0, <2>1 DEF Young
  <2>2. \A tx \in pool : Young(tx.since, topo + 1)
    BY <1>1, <2>1 DEF R!Tick, Young
  <2>3. \A t \in Threads : thread[t] # R!Idle => Young(thread[t].since, topo + 1)
    BY <1>1, <2>1 DEF R!Tick, Young
  <2>4. topo' = topo + 1 /\ UNCHANGED <<pool, anchored, lastOnChain, thread>>
    BY <1>1 DEF R!Tick
  <2>. QED
    BY <2>2, <2>3, <2>4
<1>2. CASE \E letter \in Letters : R!StoreMessage(letter)
  BY <1>2 DEF R!StoreMessage
<1>3. CASE \E tx \in pool : R!ExecuteAnchor(tx)
  BY <1>3 DEF R!ExecuteAnchor, Young
<1>4. CASE R!SyncOnce \/ \E r \in Users : R!InboxFor(r)
  BY <1>4 DEF R!SyncOnce, R!InboxFor, R!Enqueue, R!chain
<1>5. ASSUME NEW t \in Threads, R!Snapshot(t)
      PROVE  TimeInv'
  <2>1. PICK h : /\ thread' = [thread EXCEPT ![t] = [step |-> "invoke", batch |-> outbox,
                                             senders |-> senders, topo |-> h, since |-> topo]]
                 /\ UNCHANGED R!chain
    BY <1>5 DEF R!Snapshot
  <2>2. Young(topo, topo)
    BY <1>0 DEF Young
  <2>. QED
    BY <2>1, <2>2 DEF Busy, R!chain
<1>6. ASSUME NEW t \in Threads, R!Broadcast(t)
      PROVE  TimeInv'
  <2>1. thread[t] # R!Idle /\ Busy(thread[t]) /\ Young(thread[t].since, topo)
    BY <1>6 DEF R!Broadcast, R!Idle
  <2>2. UNCHANGED <<topo, anchored, lastOnChain>> /\ \A tx \in pool' : Young(tx.since, topo)
    BY <1>6, <2>1 DEF R!Broadcast
  <2>3. CASE thread' = [thread EXCEPT ![t].step = "clear"]
    <3>1. Busy(thread'[t]) /\ thread'[t].since = thread[t].since
      BY <2>1, <2>3 DEF Busy
    <3>. QED
      BY <2>1, <2>2, <2>3, <3>1
  <2>4. CASE thread' = [thread EXCEPT ![t] = R!Idle]
    BY <2>2, <2>4
  <2>. QED
    BY <1>6, <2>3, <2>4 DEF R!Broadcast
<1>7. ASSUME NEW t \in Threads, R!InvokeFails(t) \/ R!Clear(t)
      PROVE  TimeInv'
  BY <1>7 DEF R!InvokeFails, R!Clear, R!chain
<1>8. CASE R!Restart
  BY <1>8 DEF R!Restart, R!chain
<1>9. CASE UNCHANGED R!vars
  BY <1>9 DEF R!vars, R!chain
<1>. QED
  BY <1>1, <1>2, <1>3, <1>4, <1>5, <1>6, <1>7, <1>8, <1>9 DEF R!Next, R!Chain, R!Daemon

-----------------------------------------------------------------------------
(* Once.  A message's key enters the outbox once.  When it leaves in two   *)
(* batches, both were copied within CallBlocks of each other, since the    *)
(* first call to be accepted empties the outbox within that time; so both  *)
(* are executed within twice that, and the rate limit rejects the second.  *)

Meet(b, c) == b \cap c # {}
Near(i, j) == i <= j + CallBlocks /\ j <= i + CallBlocks

SeenInv ==
  /\ ledgerFile = ledger
  /\ \A k \in outbox : k.key \in ledger.seen
  /\ \A t \in Threads : thread[t] # R!Idle => \A k \in thread[t].batch : k.key \in ledger.seen
  /\ \A tx \in Sent : \A k \in tx.batch : k.key \in ledger.seen
ClearInv ==
  \A tx \in Sent : Meet(tx.batch, outbox) =>
    \E t \in Threads : thread[t].step = "clear" /\ thread[t].since = tx.since
NearInv ==
  \A tx \in Sent :
    /\ \A t \in Threads :
         thread[t].step = "invoke" /\ Meet(thread[t].batch, tx.batch) => Near(thread[t].since, tx.since)
    /\ \A ty \in Sent : Meet(tx.batch, ty.batch) => Near(tx.since, ty.since)
Disjoint == \A a1, a2 \in anchored : a1 # a2 => ~Meet(a1.batch, a2.batch)
OnceInv == SeenInv /\ ClearInv /\ NearInv /\ Disjoint

LEMMA NotResent == [R!Next]_R!vars /\ ~resent' => ~resent
BY DEF R!Next, R!Chain, R!Daemon, R!Tick, R!StoreMessage, R!ExecuteAnchor, R!SyncOnce, R!InboxFor, R!Enqueue, R!Save,
       R!Snapshot, R!Broadcast, R!InvokeFails, R!Clear, R!Restart, R!vars

\* Calls of one moment are near each other.
LEMMA YoungNear ==
  ASSUME R!Assumptions, NEW now \in Nat, NEW i, NEW j, Young(i, now), Young(j, now)
  PROVE  Near(i, j)
BY DEF Young, Near, R!Assumptions

LEMMA ExecuteOnce ==
  ASSUME R!Assumptions, TimeInv, OnceInv, NEW tx \in pool, R!ExecuteAnchor(tx)
  PROVE  OnceInv'
<1>0. /\ Sent' \subseteq Sent /\ UNCHANGED <<thread, outbox, ledger, ledgerFile>>
      /\ tx \in Sent /\ anchored \subseteq Sent
  BY DEF R!ExecuteAnchor, Sent, R!memory
<1>1. SeenInv' /\ ClearInv' /\ NearInv'
  BY <1>0 DEF OnceInv, SeenInv, ClearInv, NearInv, Sent
<1>2. Disjoint'
  <2>1. CASE anchored' = anchored
    BY <2>1 DEF OnceInv, Disjoint, R!ExecuteAnchor
  <2>2. CASE anchored' # anchored
    <3>1. /\ anchored' = anchored \cup {tx}
          /\ ~(lastOnChain # 0 /\ topo - lastOnChain < ANCHOR_RATE_LIMIT_BLOCKS)
      BY <2>2 DEF R!ExecuteAnchor
    <3>2. ASSUME NEW a \in anchored, Meet(a.batch, tx.batch)
          PROVE  FALSE
      <4>1. Near(a.since, tx.since)
        BY <1>0, <3>2 DEF OnceInv, NearInv
      <4>2. a.since \in Nat /\ a.since >= 1 /\ a.since <= lastOnChain /\ Young(tx.since, topo)
        BY <3>2 DEF TimeInv
      <4>. QED
        BY <3>1, <4>1, <4>2 DEF Near, Young, TimeInv, R!Assumptions
    <3>. QED
      BY <3>1, <3>2 DEF Disjoint, OnceInv, Meet
  <2>. QED
    BY <2>1, <2>2
<1>. QED
  BY <1>1, <1>2 DEF OnceInv

LEMMA EnqueueOnce ==
  ASSUME OnceInv, ~resent', NEW read, NEW known, R!Enqueue(read, known)
  PROVE  OnceInv'
<1>1. PICK taken \in SUBSET {m \in read : R!Key(m) \notin ledger.seen} :
        outbox' = outbox \cup {[key |-> R!Key(m), blob |-> m.msg.blob] : m \in taken}
  BY DEF R!Enqueue
<1>2. /\ Sent' = Sent /\ anchored' = anchored /\ thread' = thread /\ ledgerFile' = ledger'
  BY DEF R!Enqueue, Sent, R!chain, R!Save
<1>3. ledger.seen \subseteq ledger'.seen /\ \A m \in taken : R!Key(m) \in ledger'.seen
  <2>1. ledger' = [ledger EXCEPT !.seen = @ \cup {R!Key(m) : m \in read}, !.known = known]
    BY DEF R!Enqueue
  <2>. QED
    BY <2>1
<1>4. \A k \in outbox' : k \in outbox \/ (k.key \notin ledger.seen /\ k.key \in ledger'.seen)
  BY <1>1, <1>3
<1>5. SeenInv'
  BY <1>2, <1>3, <1>4 DEF OnceInv, SeenInv
<1>6. ClearInv'
  <2>1. \A tx \in Sent : Meet(tx.batch, outbox') => Meet(tx.batch, outbox)
    BY <1>4 DEF Meet, OnceInv, SeenInv
  <2>. QED
    BY <1>2, <2>1 DEF OnceInv, ClearInv
<1>7. NearInv' /\ Disjoint'
  BY <1>2 DEF OnceInv, NearInv, Disjoint
<1>. QED
  BY <1>5, <1>6, <1>7 DEF OnceInv

LEMMA SnapshotOnce ==
  ASSUME R!Assumptions, TimeInv, OnceInv, NEW t \in Threads, R!Snapshot(t)
  PROVE  OnceInv'
<1>1. PICK h : thread' = [thread EXCEPT ![t] = [step |-> "invoke", batch |-> outbox,
                                        senders |-> senders, topo |-> h, since |-> topo]]
  BY DEF R!Snapshot
<1>2. /\ Sent' = Sent /\ anchored' = anchored /\ thread[t].step = "idle"
      /\ UNCHANGED <<outbox, ledger, ledgerFile, resent>>
  BY DEF R!Snapshot, Sent, R!chain, R!memory, R!Idle
<1>3. /\ thread'[t].step = "invoke" /\ thread'[t].batch = outbox /\ thread'[t].since = topo
      /\ \A u \in Threads : u # t => thread'[u] = thread[u]
  BY <1>1 DEF TimeInv, CallsInv
<1>4. SeenInv'
  BY <1>2, <1>3 DEF OnceInv, SeenInv
<1>5. ClearInv'
  BY <1>2, <1>3 DEF OnceInv, ClearInv
<1>6. ASSUME NEW tx \in Sent, Meet(outbox, tx.batch)
      PROVE  Near(topo, tx.since)
  <2>1. PICK u \in Threads : thread[u].step = "clear" /\ thread[u].since = tx.since
    BY <1>6 DEF OnceInv, ClearInv, Meet
  <2>2. Young(tx.since, topo) /\ Young(topo, topo)
    BY <2>1 DEF TimeInv, CallsInv, R!Idle, Young, R!Assumptions
  <2>. QED
    BY <2>2, YoungNear DEF TimeInv
<1>7. NearInv'
  BY <1>2, <1>3, <1>6 DEF OnceInv, NearInv
<1>. QED
  BY <1>2, <1>4, <1>5, <1>7 DEF OnceInv, Disjoint

LEMMA BroadcastOnce ==
  ASSUME R!Assumptions, TimeInv, OnceInv, ~resent', NEW t \in Threads, R!Broadcast(t)
  PROVE  OnceInv'
<1>1. /\ thread[t].step = "invoke" /\ thread' = [thread EXCEPT ![t].step = "clear"]
      /\ UNCHANGED <<anchored, outbox, ledger, ledgerFile>>
  BY DEF R!Broadcast, R!memory
<1>2. PICK n : pool' = pool \cup {n} /\ n.batch = thread[t].batch /\ n.since = thread[t].since
  <2> DEFINE n == [id |-> ids + 1, batch |-> thread[t].batch, since |-> thread[t].since,
                   count |-> R!Cardinality({m.blob : m \in thread[t].batch}),
                   senders |-> R!Cardinality(thread[t].senders)]
  <2>1. pool' = pool \cup {n}
    BY DEF R!Broadcast
  <2>2. n.batch = thread[t].batch /\ n.since = thread[t].since
    OBVIOUS
  <2> HIDE DEF n
  <2>. QED
    BY <2>1, <2>2
<1>3. Busy(thread[t]) /\ Young(thread[t].since, topo) /\ thread = [u \in Threads |-> thread[u]]
  BY <1>1 DEF TimeInv, CallsInv, R!Idle
<1>4. /\ thread'[t].step = "clear" /\ thread'[t].batch = thread[t].batch /\ thread'[t].since = thread[t].since
      /\ \A u \in Threads : u # t => thread'[u] = thread[u]
  BY <1>1, <1>3 DEF Busy
<1>5. Sent' = Sent \cup {n}
  BY <1>1, <1>2 DEF Sent
<1>6. SeenInv'
  BY <1>1, <1>2, <1>4, <1>5 DEF OnceInv, SeenInv, R!Idle
<1>7. ClearInv'
  BY <1>1, <1>2, <1>4, <1>5 DEF OnceInv, ClearInv
<1>8. NearInv'
  <2>1. ASSUME NEW u \in Threads, thread'[u].step = "invoke"
        PROVE  Near(thread'[u].since, n.since)
    <3>1. thread'[u] = thread[u] /\ thread[u].step = "invoke"
      BY <1>4, <2>1
    <3>2. Young(thread[u].since, topo)
      BY <3>1 DEF TimeInv, CallsInv, R!Idle
    <3>. QED
      BY <1>2, <1>3, <3>1, <3>2, YoungNear DEF TimeInv
  <2>2. ASSUME NEW ty \in Sent, Meet(n.batch, ty.batch)
        PROVE  Near(n.since, ty.since) /\ Near(ty.since, n.since)
    BY <1>1, <1>2, <2>2 DEF OnceInv, NearInv, Near
  <2>3. Near(n.since, n.since)
    BY <1>2, <1>3, YoungNear DEF TimeInv
  <2>4. ASSUME NEW tx \in Sent, NEW u \in Threads, thread'[u].step = "invoke",
               Meet(thread'[u].batch, tx.batch)
        PROVE  Near(thread'[u].since, tx.since)
    BY <1>4, <2>4 DEF OnceInv, NearInv
  <2>5. ASSUME NEW tx \in Sent, NEW ty \in Sent, Meet(tx.batch, ty.batch)
        PROVE  Near(tx.since, ty.since)
    BY <2>5 DEF OnceInv, NearInv
  <2>6. \A b, c : Meet(b, c) => Meet(c, b)
    BY DEF Meet
  <2>. QED
    BY <1>5, <2>1, <2>2, <2>3, <2>4, <2>5, <2>6 DEF NearInv
<1>9. Disjoint'
  BY <1>1 DEF OnceInv, Disjoint, R!Broadcast
<1>. QED
  BY <1>6, <1>7, <1>8, <1>9 DEF OnceInv

LEMMA OnceStep ==
  ASSUME R!Assumptions, TimeInv, [R!Next]_R!vars, ~resent', ~resent => OnceInv
  PROVE  OnceInv'
<1>0. OnceInv
  BY NotResent
<1>1. CASE R!Tick \/ (\E letter \in Letters : R!StoreMessage(letter)) \/ UNCHANGED R!vars
  <2>1. UNCHANGED <<pool, anchored, thread, outbox, ledger, ledgerFile, resent>>
    BY <1>1 DEF R!Tick, R!StoreMessage, R!memory, R!vars, R!chain
  <2>. QED
    BY <1>0, <2>1 DEF OnceInv, SeenInv, ClearInv, NearInv, Disjoint, Sent
<1>2. CASE \E tx \in pool : R!ExecuteAnchor(tx)
  BY <1>0, <1>2, ExecuteOnce
<1>3. CASE R!SyncOnce \/ \E r \in Users : R!InboxFor(r)
  BY <1>0, <1>3, EnqueueOnce DEF R!SyncOnce, R!InboxFor
<1>4. ASSUME NEW t \in Threads, R!InvokeFails(t)
      PROVE  OnceInv'
  <2>1. /\ UNCHANGED <<pool, anchored, outbox, ledger, ledgerFile, resent>> /\ thread[t].step = "invoke"
        /\ thread'[t] = R!Idle /\ \A u \in Threads : u # t => thread'[u] = thread[u]
    BY <1>4 DEF R!InvokeFails, R!chain, R!memory, TimeInv, CallsInv
  <2>. QED
    BY <1>0, <2>1 DEF OnceInv, SeenInv, ClearInv, NearInv, Disjoint, Sent, R!Idle
<1>5. ASSUME NEW t \in Threads, R!Clear(t)
      PROVE  OnceInv'
  <2>1. /\ UNCHANGED <<pool, anchored>> /\ outbox' = {} /\ ledgerFile' = ledger'
        /\ thread'[t] = R!Idle /\ \A u \in Threads : u # t => thread'[u] = thread[u]
    BY <1>5 DEF R!Clear, R!chain, TimeInv, CallsInv, R!Save
  <2>2. ledger' = [ledger EXCEPT !.last = thread[t].topo]
    BY <1>5 DEF R!Clear
  <2>3. \A k : k \in ledger.seen => k \in ledger'.seen
    BY <2>2
  <2>. QED
    BY <1>0, <2>1, <2>3
       DEF OnceInv, SeenInv, ClearInv, NearInv, Disjoint, Sent, R!Idle, Meet
<1>6. CASE R!Restart
  <2>1. /\ UNCHANGED <<pool, anchored, ledgerFile>> /\ outbox' = {} /\ ledger' = ledgerFile
        /\ \A u \in Threads : thread'[u] = R!Idle
    BY <1>6 DEF R!Restart, R!chain
  <2>. QED
    BY <1>0, <2>1
       DEF OnceInv, SeenInv, ClearInv, NearInv, Disjoint, Sent, R!Idle, Meet
<1>. QED
  BY <1>0, <1>1, <1>2, <1>3, <1>4, <1>5, <1>6, SnapshotOnce, BroadcastOnce
     DEF R!Next, R!Chain, R!Daemon

\* VaultChat's rewards: whatever threads copy and send the same outbox, whatever
\* is refused, and however the daemon is killed and started, no two executed
\* anchors hold the same message, unless a reply or a save was lost.
THEOREM RelayerOnce == R!Spec => []R!AnchoredOnce
<1>. R!Assumptions
  BY AgentConstants
<1> DEFINE I == TimeInv /\ (~resent => OnceInv)
<1>1. R!Init => I
  BY DEF R!Init, TimeInv, CallsInv, OnceInv, SeenInv, ClearInv, NearInv, Disjoint, Sent
<1>2. I /\ [R!Next]_R!vars => I'
  BY TimeStep, OnceStep
<1>3. I => R!AnchoredOnce
  BY DEF OnceInv, Disjoint, Meet, R!AnchoredOnce
<1>. QED
  BY <1>1, <1>2, <1>3, PTL DEF R!Spec

-----------------------------------------------------------------------------
(* Honest.  What is in the outbox, in a copy of it and in an anchor was    *)
(* posted, and each sender counted posted something that is in it.         *)

LEMMA SizeSame == \A X : R!Cardinality(X) = Cardinality(X)
BY DEF R!Cardinality, Cardinality

Blobs(b) == {m.blob : m \in b}
Backed(b, us) ==
  /\ \A m \in b : \E p \in posted : p.msg.blob = m.blob
  /\ \A u \in us : \E p \in posted : p.msg.sender = u /\ \E m \in b : p.msg.blob = m.blob
Enough(b, us) ==
  Cardinality(Blobs(b)) >= ANCHOR_MIN_MESSAGES /\ Cardinality(us) >= ANCHOR_MIN_SENDERS

InboxInv ==
  /\ IsFiniteSet(posted)
  /\ inbox = [r \in Users |-> [s \in R!Slots |-> inbox[r][s]]]
  /\ count \in [Users -> Nat]
  /\ \A r \in Users, s \in R!Slots : s < count[r] => [to |-> r, msg |-> inbox[r][s]] \in posted
  /\ ledger = [seen |-> ledger.seen, known |-> ledger.known, last |-> ledger.last]
  /\ ledgerFile = [seen |-> ledgerFile.seen, known |-> ledgerFile.known, last |-> ledgerFile.last]
  /\ ledger.known \subseteq Users /\ ledgerFile.known \subseteq Users
BackedInv ==
  /\ Backed(outbox, senders)
  /\ \A t \in Threads :
       thread[t] # R!Idle => Backed(thread[t].batch, thread[t].senders) /\ Enough(thread[t].batch, thread[t].senders)
  /\ \A tx \in Sent : \E us : /\ Backed(tx.batch, us) /\ Enough(tx.batch, us)
                              /\ tx.count = Cardinality(Blobs(tx.batch))
                              /\ tx.senders = Cardinality(us)

LEMMA SmallMod ==
  ASSUME NEW n \in Nat, NEW m \in Nat \ {0}
  PROVE  n % m \in 0..(m - 1) /\ (n < m => n % m = n)
<1> DEFINE q == n \div m
           r == n % m
<1>1. q \in Int /\ r \in 0..(m - 1) /\ n = m * q + r
  OBVIOUS
<1> HIDE DEF q, r
<1>2. ASSUME n < m
      PROVE  q = 0
  <2>1. ASSUME q >= 1
        PROVE  FALSE
    <3>1. m * (q - 1) >= 0 /\ m * q = m * (q - 1) + m
      BY <1>1, <2>1
    <3>. QED
      BY <1>1, <1>2, <3>1
  <2>2. ASSUME q <= -1
        PROVE  FALSE
    <3>1. m * (-1 - q) >= 0 /\ m * (-1 - q) = -m - m * q
      BY <1>1, <2>2
    <3>. QED
      BY <1>1, <3>1
  <2>. QED
    BY <1>1, <2>1, <2>2
<1>3. n < m => r = n
  BY <1>1, <1>2
<1>. QED
  BY <1>1, <1>3 DEF r

LEMMA StoreKeeps ==
  ASSUME R!Assumptions, InboxInv, NEW letter \in Letters, R!StoreMessage(letter)
  PROVE  InboxInv' /\ posted \subseteq posted'
<1> DEFINE r   == letter.to
           at  == count[r] % MAX_ONCHAIN_MESSAGES
           msg == [sender |-> letter.from, blob |-> letter.blob, n |-> count[r] + 1]
<1>0. /\ r \in Users /\ MAX_ONCHAIN_MESSAGES \in Nat \ {0} /\ count[r] \in Nat
      /\ inbox = [u \in Users |-> [s \in R!Slots |-> inbox[u][s]]] /\ count \in [Users -> Nat]
  BY DEF R!Assumptions, InboxInv
<1>1. at \in R!Slots /\ (count[r] < MAX_ONCHAIN_MESSAGES => at = count[r])
  BY <1>0, SmallMod DEF R!Slots
<1>2. /\ inbox' = [inbox EXCEPT ![r][at] = msg]
      /\ count' = [count EXCEPT ![r] = @ + 1]
      /\ posted' = posted \cup {[to |-> r, msg |-> msg]}
      /\ UNCHANGED <<ledger, ledgerFile>>
  BY DEF R!StoreMessage, R!memory
<1> HIDE DEF r, at, msg
<1>3. /\ inbox' = [u \in Users |-> [s \in R!Slots |-> inbox'[u][s]]]
      /\ \A u \in Users, s \in R!Slots :
           inbox'[u][s] = IF u = r /\ s = at THEN msg ELSE inbox[u][s]
  BY <1>0, <1>1, <1>2
<1>4. count' \in [Users -> Nat] /\ \A u \in Users : u # r => count'[u] = count[u]
  BY <1>0, <1>2
<1>5. count'[r] = count[r] + 1
  BY <1>0, <1>2
<1>6. ASSUME NEW u \in Users, NEW s \in R!Slots, s < count'[u]
      PROVE  [to |-> u, msg |-> inbox'[u][s]] \in posted'
  <2>1. CASE u = r /\ s = at
    BY <1>2, <1>3, <2>1
  <2>2. CASE ~(u = r /\ s = at)
    <3>1. s < count[u]
      <4>1. s \in Nat /\ s < MAX_ONCHAIN_MESSAGES
        BY <1>0 DEF R!Slots
      <4>. QED
        BY <1>0, <1>1, <1>4, <1>5, <1>6, <2>2, <4>1
    <3>. QED
      BY <1>2, <1>3, <2>2, <3>1 DEF InboxInv
  <2>. QED
    BY <2>1, <2>2
<1>7. IsFiniteSet(posted')
  BY <1>2, FS_AddElement DEF InboxInv
<1>. QED
  BY <1>2, <1>3, <1>4, <1>6, <1>7 DEF InboxInv

\* A batch of reads keeps the ledger's form, and what it enqueues was posted.
LEMMA EnqueueKeeps ==
  ASSUME InboxInv, Backed(outbox, senders), NEW known \in SUBSET Users, NEW rs \in SUBSET Users,
         NEW read, read \subseteq UNION {R!ReadInbox(r) : r \in rs}, R!Enqueue(read, known)
  PROVE  InboxInv' /\ Backed(outbox, senders)'
<1>1. UNCHANGED <<posted, inbox, count>> /\ (ledgerFile' = ledger' \/ ledgerFile' = ledgerFile)
  BY DEF R!Enqueue, R!chain, R!Save
<1>2. ledger' = [ledger EXCEPT !.seen = @ \cup {R!Key(m) : m \in read}, !.known = known]
  BY DEF R!Enqueue
<1>3. /\ ledger' = [seen |-> ledger'.seen, known |-> ledger'.known, last |-> ledger'.last]
      /\ ledger'.known \subseteq Users
  BY <1>2 DEF InboxInv
<1>4. InboxInv'
  BY <1>1, <1>3 DEF InboxInv
<1>5. ASSUME NEW m \in read
      PROVE  \E p \in posted : p.msg = m.msg
  <2>1. PICK r \in Users : m \in R!ReadInbox(r)
    OBVIOUS
  <2>2. PICK s \in R!Slots : s < count[r] /\ m.msg = inbox[r][s]
    BY <2>1 DEF R!ReadInbox
  <2>. QED
    BY <2>2 DEF InboxInv
<1>6. PICK taken \in SUBSET read :
        /\ outbox' = outbox \cup {[key |-> R!Key(m), blob |-> m.msg.blob] : m \in taken}
        /\ senders' = senders \cup {m.msg.sender : m \in taken}
  BY DEF R!Enqueue
<1>7. ASSUME NEW k \in outbox'
      PROVE  \E p \in posted : p.msg.blob = k.blob
  BY <1>5, <1>6 DEF Backed
<1>8. ASSUME NEW u \in senders'
      PROVE  \E p \in posted : p.msg.sender = u /\ \E k \in outbox' : p.msg.blob = k.blob
  <2>1. CASE u \in senders
    BY <1>6, <2>1 DEF Backed
  <2>2. CASE \E m \in taken : u = m.msg.sender
    <3>1. PICK m \in taken : u = m.msg.sender
      BY <2>2
    <3>2. PICK p \in posted : p.msg = m.msg
      BY <1>5
    <3>3. [key |-> R!Key(m), blob |-> m.msg.blob] \in outbox'
      BY <1>6
    <3>. QED
      BY <3>1, <3>2, <3>3
  <2>. QED
    BY <1>6, <2>1, <2>2
<1>. QED
  BY <1>1, <1>4, <1>7, <1>8 DEF Backed

\* What was posted stays posted.
LEMMA BackedStays ==
  ASSUME posted \subseteq posted', NEW b, NEW us, Backed(b, us)
  PROVE  Backed(b, us)'
BY DEF Backed

LEMMA HonestStep ==
  ASSUME R!Assumptions, TimeInv, InboxInv, BackedInv, [R!Next]_R!vars
  PROVE  InboxInv' /\ BackedInv'
<1>0. /\ thread = [t \in Threads |-> thread[t]] /\ Backed(outbox, senders)
      /\ \A t \in Threads : thread[t] # R!Idle =>
           Backed(thread[t].batch, thread[t].senders) /\ Enough(thread[t].batch, thread[t].senders)
  BY DEF TimeInv, CallsInv, BackedInv
<1>1. ASSUME UNCHANGED <<inbox, count, posted, ledger, ledgerFile>>
      PROVE  InboxInv' /\ \A b, us : Backed(b, us) => Backed(b, us)'
  BY <1>1 DEF InboxInv, Backed
<1>2. CASE R!Tick \/ UNCHANGED R!vars
  <2>1. UNCHANGED <<inbox, count, posted, ledger, ledgerFile, pool, anchored, outbox, senders, thread>>
    BY <1>2 DEF R!Tick, R!vars, R!chain, R!memory
  <2>. QED
    BY <2>1 DEF InboxInv, BackedInv, Backed, Enough, Sent
<1>3. ASSUME NEW letter \in Letters, R!StoreMessage(letter)
      PROVE  InboxInv' /\ BackedInv'
  <2>1. InboxInv' /\ posted \subseteq posted'
    BY <1>3, StoreKeeps
  <2>2. UNCHANGED <<pool, anchored, outbox, senders, thread>>
    BY <1>3 DEF R!StoreMessage, R!memory
  <2>3. \A b, us : Backed(b, us) => Backed(b, us)'
    BY <2>1, BackedStays
  <2>. QED
    BY <2>1, <2>2, <2>3 DEF BackedInv, Sent, Enough
<1>4. ASSUME NEW tx \in pool, R!ExecuteAnchor(tx)
      PROVE  InboxInv' /\ BackedInv'
  <2>1. /\ UNCHANGED <<inbox, count, posted, ledger, ledgerFile, outbox, senders, thread>>
        /\ Sent' \subseteq Sent
    BY <1>4 DEF R!ExecuteAnchor, R!memory, Sent
  <2>. QED
    BY <1>1, <2>1 DEF BackedInv, Enough
<1>5. CASE R!SyncOnce \/ \E r \in Users : R!InboxFor(r)
  <2>1. PICK known \in SUBSET Users, rs \in SUBSET Users :
          R!Enqueue(UNION {R!ReadInbox(r) : r \in rs}, known)
    <3>1. CASE R!SyncOnce
      <4>1. ledger.known \subseteq Users /\ Self \in Users
        BY DEF InboxInv, R!Assumptions
      <4>. QED
        BY <3>1, <4>1 DEF R!SyncOnce
    <3>2. ASSUME NEW r \in Users, R!InboxFor(r)
          PROVE  \E known \in SUBSET Users, rs \in SUBSET Users :
                   R!Enqueue(UNION {R!ReadInbox(q) : q \in rs}, known)
      <4>1. UNION {R!ReadInbox(q) : q \in {r}} = R!ReadInbox(r)
        OBVIOUS
      <4>2. ledger.known \cup {r} \in SUBSET Users /\ {r} \in SUBSET Users
        BY DEF InboxInv
      <4>. QED
        BY <3>2, <4>1, <4>2 DEF R!InboxFor
    <3>. QED
      BY <1>5, <3>1, <3>2
  <2>2. InboxInv' /\ Backed(outbox, senders)'
    BY <1>0, <2>1, EnqueueKeeps
  <2>3. UNCHANGED <<posted, pool, anchored, thread>>
    BY <2>1 DEF R!Enqueue, R!chain
  <2>. QED
    BY <2>2, <2>3 DEF BackedInv, Backed, Enough, Sent
<1>6. ASSUME NEW t \in Threads, R!Snapshot(t)
      PROVE  InboxInv' /\ BackedInv'
  <2>1. PICK h : thread' = [thread EXCEPT ![t] = [step |-> "invoke", batch |-> outbox,
                                          senders |-> senders, topo |-> h, since |-> topo]]
    BY <1>6 DEF R!Snapshot
  <2>2. /\ Enough(outbox, senders)
        /\ UNCHANGED <<inbox, count, posted, ledger, ledgerFile, pool, anchored, outbox, senders>>
    BY <1>6, SizeSame DEF R!Snapshot, Enough, Blobs, R!chain, R!memory
  <2>3. /\ thread'[t].batch = outbox /\ thread'[t].senders = senders
        /\ \A u \in Threads : u # t => thread'[u] = thread[u]
    BY <1>0, <2>1
  <2>. QED
    BY <1>0, <1>1, <2>2, <2>3 DEF BackedInv, Sent, Enough
<1>7. ASSUME NEW t \in Threads, R!Broadcast(t)
      PROVE  InboxInv' /\ BackedInv'
  <2>1. /\ thread[t] # R!Idle /\ Busy(thread[t])
        /\ UNCHANGED <<inbox, count, posted, ledger, ledgerFile, anchored, outbox, senders>>
    BY <1>7 DEF R!Broadcast, R!Idle, R!memory, TimeInv, CallsInv
  <2>2. PICK n : /\ pool' = pool \cup {n} /\ n.batch = thread[t].batch
                 /\ n.count = Cardinality(Blobs(n.batch))
                 /\ n.senders = Cardinality(thread[t].senders)
    <3> DEFINE n == [id |-> ids + 1, batch |-> thread[t].batch, since |-> thread[t].since,
                     count |-> R!Cardinality({m.blob : m \in thread[t].batch}),
                     senders |-> R!Cardinality(thread[t].senders)]
    <3>1. pool' = pool \cup {n}
      BY <1>7 DEF R!Broadcast
    <3>2. /\ n.batch = thread[t].batch /\ n.count = Cardinality(Blobs(n.batch))
          /\ n.senders = Cardinality(thread[t].senders)
      BY SizeSame DEF Blobs
    <3> HIDE DEF n
    <3>. QED
      BY <3>1, <3>2
  <2>3. \A u \in Threads :
          thread'[u] # R!Idle => thread'[u].batch = thread[u].batch /\ thread'[u].senders = thread[u].senders
                           /\ thread[u] # R!Idle
    BY <1>0, <1>7, <2>1 DEF R!Broadcast, Busy
  <2>4. \A u \in Threads : thread'[u] # R!Idle =>
          Backed(thread'[u].batch, thread'[u].senders) /\ Enough(thread'[u].batch, thread'[u].senders)
    BY <1>0, <2>3
  <2>5. Backed(n.batch, thread[t].senders) /\ Enough(n.batch, thread[t].senders)
    BY <1>0, <2>1, <2>2
  <2>6. Sent' = Sent \cup {n}
    BY <2>1, <2>2 DEF Sent
  <2>. QED
    BY <1>0, <1>1, <2>1, <2>2, <2>4, <2>5, <2>6 DEF BackedInv, Enough
<1>8. ASSUME NEW t \in Threads, R!InvokeFails(t) \/ R!Clear(t)
      PROVE  InboxInv' /\ BackedInv'
  <2>1. /\ UNCHANGED <<inbox, count, posted, pool, anchored>>
        /\ \A u \in Threads : thread'[u] # R!Idle => thread'[u] = thread[u]
    BY <1>0, <1>8 DEF R!InvokeFails, R!Clear, R!chain
  <2>2. (outbox' = outbox /\ senders' = senders) \/ (outbox' = {} /\ senders' = {})
    BY <1>8 DEF R!InvokeFails, R!Clear, R!memory
  <2>3. InboxInv'
    <3>1. CASE UNCHANGED <<ledger, ledgerFile>>
      BY <1>1, <2>1, <3>1
    <3>2. CASE /\ ledger' = [ledger EXCEPT !.last = thread[t].topo]
               /\ ledgerFile' = ledger' \/ ledgerFile' = ledgerFile
      <4>1. /\ ledger' = [seen |-> ledger'.seen, known |-> ledger'.known, last |-> ledger'.last]
            /\ ledger'.known \subseteq Users
        BY <3>2 DEF InboxInv
      <4>. QED
        BY <2>1, <3>2, <4>1 DEF InboxInv
    <3>. QED
      BY <1>8, <3>1, <3>2 DEF R!InvokeFails, R!Clear, R!Save, R!memory
  <2>4. \A b, us : Backed(b, us) => Backed(b, us)'
    BY <2>1 DEF Backed
  <2>5. Backed({}, {})
    BY DEF Backed
  <2>. QED
    BY <1>0, <2>1, <2>2, <2>3, <2>4, <2>5 DEF BackedInv, Sent, Enough
<1>9. CASE R!Restart
  <2>1. /\ UNCHANGED <<inbox, count, posted, pool, anchored, ledgerFile>> /\ ledger' = ledgerFile
        /\ outbox' = {} /\ senders' = {} /\ \A u \in Threads : thread'[u] = R!Idle
    BY <1>9 DEF R!Restart, R!chain
  <2>2. InboxInv'
    BY <2>1 DEF InboxInv
  <2>. QED
    BY <2>1, <2>2 DEF BackedInv, Backed, Sent, Enough
<1>. QED
  BY <1>2, <1>3, <1>4, <1>5, <1>6, <1>7, <1>8, <1>9 DEF R!Next, R!Chain, R!Daemon

LEMMA BackedHonest == InboxInv /\ BackedInv => R!AnchorsHonest
<1> SUFFICES ASSUME InboxInv, BackedInv, NEW a \in anchored
             PROVE  LET stored == {p \in posted : p.msg.blob \in {m.blob : m \in a.batch}}
                    IN /\ {m.blob : m \in a.batch} = {p.msg.blob : p \in stored}
                       /\ a.count >= ANCHOR_MIN_MESSAGES /\ a.count <= Cardinality(stored)
                       /\ a.senders >= ANCHOR_MIN_SENDERS
                       /\ a.senders <= Cardinality({p.msg.sender : p \in stored})
  BY SizeSame DEF R!AnchorsHonest
<1> DEFINE stored == {p \in posted : p.msg.blob \in {m.blob : m \in a.batch}}
           blobs == {p.msg.blob : p \in stored}
           users == {p.msg.sender : p \in stored}
<1>1. PICK us : /\ Backed(a.batch, us) /\ Enough(a.batch, us)
                /\ a.count = Cardinality(Blobs(a.batch)) /\ a.senders = Cardinality(us)
  BY DEF BackedInv, Sent
<1>2. Blobs(a.batch) = blobs
  BY <1>1 DEF Backed, Blobs
<1>3. IsFiniteSet(stored)
  BY FS_Subset DEF InboxInv
<1>4. IsFiniteSet(blobs) /\ Cardinality(blobs) <= Cardinality(stored)
  <2> DEFINE f == [p \in stored |-> p.msg.blob]
  <2>1. f \in Surjection(stored, blobs)
    BY DEF Surjection
  <2>. QED
    BY <1>3, <2>1, FS_Surjection, Zenon
<1>5. IsFiniteSet(users)
  <2> DEFINE f == [p \in stored |-> p.msg.sender]
  <2>1. f \in Surjection(stored, users)
    BY DEF Surjection
  <2>. QED
    BY <1>3, <2>1, FS_Surjection, Zenon
<1>6. us \subseteq users
  <2> SUFFICES ASSUME NEW u \in us
               PROVE  u \in users
    OBVIOUS
  <2>1. PICK p \in posted : p.msg.sender = u /\ \E m \in a.batch : p.msg.blob = m.blob
    BY <1>1 DEF Backed
  <2>. QED
    BY <2>1
<1>7. Cardinality(us) <= Cardinality(users)
  BY <1>5, <1>6, FS_Subset
<1>. QED
  BY <1>1, <1>2, <1>4, <1>7 DEF Blobs, Enough

\* try_anchor: what the relayer claims a reward for was posted, message by message
\* and sender by sender, though it copies the outbox at one moment, sends at
\* another, and other threads empty and refill it in between.
THEOREM RelayerHonest == R!Spec => []R!AnchorsHonest
<1>. R!Assumptions
  BY AgentConstants
<1> DEFINE I == TimeInv /\ InboxInv /\ BackedInv
<1>1. R!Init => I
  <2>1. IsFiniteSet({})
    BY FS_EmptySet
  <2> SUFFICES ASSUME R!Init
               PROVE  I
    OBVIOUS
  <2>2. TimeInv
    BY DEF R!Init, TimeInv, CallsInv
  <2>3. InboxInv
    BY <2>1 DEF R!Init, InboxInv, R!Slots
  <2>4. BackedInv
    BY DEF R!Init, BackedInv, Backed, Sent
  <2>. QED
    BY <2>2, <2>3, <2>4
<1>2. I /\ [R!Next]_R!vars => I'
  BY TimeStep, HonestStep
<1>3. I => R!AnchorsHonest
  BY BackedHonest
<1>. QED
  BY <1>1, <1>2, <1>3, PTL DEF R!Spec

-----------------------------------------------------------------------------
(* The supervisor.  While two consoles are not busy with one service at    *)
(* once, whoever is about to launch or to remove a pid file has seen that  *)
(* nothing of that service runs, and nobody else can start it meanwhile.   *)

Jobs == S!Services \cup {"register"}
Doing(c) == {job[c].todo[i] : i \in 1..Len(job[c].todo)}
Service(c) == Head(job[c].todo)

JobForm(c) ==
  /\ job[c] = [kind |-> job[c].kind, todo |-> job[c].todo, step |-> job[c].step,
               pid |-> job[c].pid]
  /\ job[c].todo \in Seq(Jobs)
  /\ job[c].kind \in {"start", "stop"} => job[c].todo # <<>>
  /\ job[c].kind = "stop" => "register" \notin Doing(c)
  /\ job[c].step # "check" => job[c].todo # <<>>
JobSound(c) ==
  /\ job[c].step \in {"launch", "unlink"} => S!Serving(Service(c)) = {}
  /\ job[c].step = "record" =>
       /\ job[c].pid \in 1..Len(proc) /\ proc[job[c].pid].svc = Service(c)
       /\ S!Serving(Service(c)) \subseteq {job[c].pid}
ProcForm(p) == proc[p] = [svc |-> proc[p].svc, parent |-> proc[p].parent, state |-> proc[p].state]
JobsInv ==
  /\ job = [c \in Desks |-> job[c]]
  /\ \A c \in Desks : JobForm(c)
  /\ \A c, d \in Desks : c # d => Doing(c) \cap Doing(d) = {}
ProcsInv ==
  /\ proc = [p \in 1..Len(proc) |-> proc[p]] /\ Len(proc) \in Nat
  /\ \A p \in 1..Len(proc) : ProcForm(p)
  /\ pidFile = [s \in S!Services |-> pidFile[s]]
SuperInv ==
  JobsInv /\ ProcsInv /\ (\A c \in Desks : JobSound(c)) /\ S!Stoppable

LEMMA ServiceDoing ==
  ASSUME NEW c \in Desks, JobForm(c), job[c].todo # <<>>
  PROVE  Service(c) \in Doing(c) /\ Service(c) \in Jobs
BY DEF JobForm, Service, Doing

LEMMA JobUpdate ==
  ASSUME job = [d \in Desks |-> job[d]], NEW c \in Desks, NEW v, job' = [job EXCEPT ![c] = v]
  PROVE  /\ job'[c] = v /\ job' = [d \in Desks |-> job'[d]]
         /\ \A d \in Desks : d # c => job'[d] = job[d]
OBVIOUS

LEMMA AdvanceJob ==
  ASSUME JobsInv, NEW c \in Desks, job[c].todo # <<>>, S!Advance(c)
  PROVE  /\ JobsInv' /\ job'[c].step = "check"
         /\ \A d \in Desks : d # c => job'[d] = job[d]
<1> DEFINE q    == job[c].todo
           next == IF Tail(q) = <<>> THEN S!Idle
                   ELSE [S!Idle EXCEPT !.kind = job[c].kind, !.todo = Tail(q)]
<1>1. q \in Seq(Jobs) /\ q # <<>>
  BY DEF JobsInv, JobForm
<1>2. /\ Tail(q) \in Seq(Jobs) /\ Len(Tail(q)) = Len(q) - 1 /\ Len(q) \in Nat
      /\ \A i \in 1..Len(Tail(q)) : Tail(q)[i] = q[i + 1] /\ i + 1 \in 1..Len(q)
  BY <1>1
<1>3. /\ job'[c] = next /\ job' = [d \in Desks |-> job'[d]]
      /\ \A d \in Desks : d # c => job'[d] = job[d]
  <2>1. job' = [job EXCEPT ![c] = next]
    BY DEF S!Advance
  <2> HIDE DEF next
  <2>. QED
    BY <2>1 DEF JobsInv
<1>4. PICK k, r : /\ next = [kind |-> k, todo |-> r, step |-> "check", pid |-> 0]
                  /\ \/ k = "none" /\ r = <<>>
                     \/ k = job[c].kind /\ r = Tail(q) /\ r # <<>>
  BY DEF S!Idle
<1> HIDE DEF next
<1>5. /\ job'[c] = [kind |-> k, todo |-> r, step |-> "check", pid |-> 0]
      /\ r \in Seq(Jobs) /\ job'[c].todo = r /\ job'[c].kind = k /\ job'[c].step = "check"
  <2>1. r \in Seq(Jobs)
    <3>1. <<>> \in Seq(Jobs)
      OBVIOUS
    <3>. QED
      BY <1>2, <1>4, <3>1, Zenon
  <2>2. job'[c] = [kind |-> k, todo |-> r, step |-> "check", pid |-> 0]
    BY <1>3, <1>4, Zenon
  <2>. QED
    BY <2>1, <2>2
<1>6. Doing(c)' \subseteq Doing(c)
  <2>1. CASE r = <<>>
    <3>1. Len(r) = 0
      BY <2>1
    <3>. QED
      BY <1>5, <3>1 DEF Doing
  <2>2. CASE r = Tail(q)
    BY <1>2, <1>5, <2>2 DEF Doing
  <2>. QED
    BY <1>4, <2>1, <2>2
<1>7. JobForm(c)'
  <2>1. k = "stop" => "register" \notin Doing(c)
    BY <1>4 DEF JobsInv, JobForm
  <2>. QED
    BY <1>4, <1>5, <1>6, <2>1 DEF JobForm
<1>8. ASSUME NEW d \in Desks, d # c
      PROVE  JobForm(d)' /\ Doing(d)' = Doing(d)
  <2>1. job'[d] = job[d] /\ JobForm(d)
    BY <1>3, <1>8 DEF JobsInv
  <2>. QED
    BY <2>1 DEF JobForm, Doing
<1>9. JobsInv'
  BY <1>3, <1>6, <1>7, <1>8 DEF JobsInv
<1>. QED
  BY <1>3, <1>5, <1>9

LEMMA GotoJob ==
  ASSUME JobsInv, NEW c \in Desks, job[c].todo # <<>>,
         NEW n, NEW i, job' = [job EXCEPT ![c] = [job[c] EXCEPT !.step = n, !.pid = i]]
  PROVE  /\ JobsInv' /\ job'[c].step = n /\ job'[c].pid = i /\ Service(c)' = Service(c)
         /\ \A d \in Desks : d # c => job'[d] = job[d]
<1>0. PICK v : v = [job[c] EXCEPT !.step = n, !.pid = i]
  OBVIOUS
<1>1. /\ job'[c] = v
      /\ job' = [d \in Desks |-> job'[d]]
      /\ \A d \in Desks : d # c => job'[d] = job[d]
  BY <1>0, JobUpdate DEF JobsInv
<1>a. job[c] = [kind |-> job[c].kind, todo |-> job[c].todo, step |-> job[c].step,
                pid |-> job[c].pid]
  BY DEF JobsInv, JobForm
<1>2. /\ job'[c].kind = job[c].kind /\ job'[c].todo = job[c].todo
      /\ job'[c].step = n /\ job'[c].pid = i
      /\ job'[c] = [kind |-> job[c].kind, todo |-> job[c].todo, step |-> n, pid |-> i]
  BY <1>0, <1>1, <1>a
<1>3. \A d \in Desks : Doing(d)' = Doing(d)
  BY <1>1, <1>2 DEF Doing
<1>4. \A d \in Desks : JobForm(d)'
  BY <1>1, <1>2, <1>3 DEF JobsInv, JobForm
<1>. QED
  BY <1>1, <1>2, <1>3, <1>4 DEF JobsInv, Service

\* No two processes of one service run.
LEMMA OneServes ==
  ASSUME SuperInv, NEW s \in S!Services, NEW p \in S!Serving(s), NEW q \in S!Serving(s)
  PROVE  p = q
BY DEF SuperInv, S!Stoppable, S!Serving, S!Running, JobSound

\* What the pid file of a service does not name does not run while a console
\* is about to check it.
LEMMA NoneServes ==
  ASSUME SuperInv, NEW c \in Desks, job[c].step = "check", job[c].todo # <<>>,
         Service(c) \in S!Services, NEW p \in S!Serving(Service(c))
  PROVE  p = pidFile[Service(c)] /\ p # 0 /\ proc[p].state \in {"new", "up"}
<1>1. Service(c) \in Doing(c)
  BY ServiceDoing DEF SuperInv, JobsInv
<1>2. ASSUME NEW d \in Desks, job[d].step = "record", job[d].pid = p
      PROVE  FALSE
  <2>1. JobForm(d) /\ JobSound(d) /\ d # c
    BY <1>2 DEF SuperInv, JobsInv
  <2>2. Service(d) \in Doing(d) /\ Service(d) = Service(c)
    BY <1>2, <2>1, ServiceDoing DEF JobForm, JobSound, S!Serving
  <2>. QED
    BY <1>1, <2>1, <2>2 DEF SuperInv, JobsInv
<1>3. p \in 1..Len(proc) /\ proc[p].state \in {"new", "up"}
  BY DEF S!Serving, S!Running, SuperInv, ProcsInv
<1>. QED
  BY <1>2, <1>3 DEF SuperInv, S!Stoppable

\* A step after which no more runs than before, and nothing changes its service.
ProcsKept ==
  /\ Len(proc') = Len(proc) /\ proc' = [p \in 1..Len(proc) |-> proc'[p]]
  /\ \A p \in 1..Len(proc) :
       /\ ProcForm(p)' /\ proc'[p].svc = proc[p].svc
       /\ proc'[p].state \in {"new", "up"} => proc[p].state \in {"new", "up"}

LEMMA KeptServing ==
  ASSUME ProcsInv, ProcsKept
  PROVE  /\ \A s : S!Serving(s)' \subseteq S!Serving(s)
         /\ \A d \in Desks : job'[d] = job[d] /\ JobSound(d) => JobSound(d)'
<1>1. DOMAIN proc = 1..Len(proc) /\ DOMAIN proc' = 1..Len(proc)
  BY DEF ProcsInv, ProcsKept
<1>2. \A s : S!Serving(s)' \subseteq S!Serving(s)
  BY <1>1 DEF ProcsKept, S!Serving, S!Running
<1>3. ASSUME NEW d \in Desks, job'[d] = job[d], JobSound(d)
      PROVE  JobSound(d)'
  <2>1. Service(d)' = Service(d)
    BY <1>3 DEF Service
  <2>. QED
    BY <1>2, <1>3, <2>1 DEF JobSound, ProcsKept
<1>. QED
  BY <1>2, <1>3

\* One process changes its state.
LEMMA ProcUpdate ==
  ASSUME ProcsInv, NEW p \in 1..Len(proc), NEW st, proc[p].state \in {"new", "up"} \/ st \notin {"new", "up"},
         proc' = [proc EXCEPT ![p] = [proc[p] EXCEPT !.state = st]]
  PROVE  /\ ProcsKept /\ proc'[p].state = st
         /\ \A q \in 1..Len(proc) : q # p => proc'[q] = proc[q]
<1>1. PICK v : v = [proc[p] EXCEPT !.state = st]
  OBVIOUS
<1>2. proc[p] = [svc |-> proc[p].svc, parent |-> proc[p].parent, state |-> proc[p].state]
  BY DEF ProcsInv, ProcForm
<1>3. v.svc = proc[p].svc /\ v.state = st /\ v = [svc |-> v.svc, parent |-> v.parent, state |-> v.state]
  BY <1>1, <1>2
<1>4. /\ proc' = [q \in 1..Len(proc) |-> proc'[q]] /\ proc'[p] = v
      /\ \A q \in 1..Len(proc) : q # p => proc'[q] = proc[q]
  BY <1>1 DEF ProcsInv
<1>5. Len(proc') = Len(proc)
  <2>1. DOMAIN proc' = DOMAIN proc /\ DOMAIN proc = 1..Len(proc)
    BY DEF ProcsInv
  <2>. QED
    BY <1>4, <2>1 DEF ProcsInv
<1>. QED
  BY <1>3, <1>4, <1>5 DEF ProcsKept, ProcsInv, ProcForm

\* Nothing about the processes changes, nor about who is recording one.
LEMMA StoppableStays ==
  ASSUME S!Stoppable, \A s : S!Serving(s)' \subseteq S!Serving(s), pidFile' = pidFile,
         \A c \in Desks : job[c].step = "record" => job'[c].step = "record" /\ job'[c].pid = job[c].pid
  PROVE  S!Stoppable'
BY DEF S!Stoppable

LEMMA AskStep ==
  ASSUME SuperInv, ~MayOverlap, NEW c \in Desks, NEW kind \in {"start", "stop"},
         NEW todo, todo \in (IF kind = "start" THEN S!Starts ELSE S!Stops), S!Ask(c, kind, todo)
  PROVE  SuperInv'
<1>1. /\ todo \in Seq(Jobs) /\ todo # <<>>
      /\ kind = "stop" => \A i \in 1..Len(todo) : todo[i] # "register"
  <2>1. /\ {"miner", "keeper", "relayer", "tunnel", "register"} \subseteq Jobs
    BY DEF Jobs, S!Services
  <2>2. CASE kind = "start" /\ todo = <<"relayer", "tunnel", "register">>
    BY <2>1, <2>2
  <2>3. CASE kind = "start" /\ todo # <<"relayer", "tunnel", "register">>
    <3>1. PICK s \in S!Services : todo = <<s>>
      BY <2>3 DEF S!Starts
    <3>. QED
      BY <2>3, <3>1 DEF Jobs
  <2>4. CASE kind = "stop"
    <3>1. todo \in {<<"miner">>, <<"keeper">>, <<"relayer", "tunnel">>}
      BY <2>4 DEF S!Stops
    <3>2. CASE todo = <<"miner">>
      BY <2>1, <3>2
    <3>3. CASE todo = <<"keeper">>
      BY <2>1, <3>3
    <3>4. CASE todo = <<"relayer", "tunnel">>
      BY <2>1, <3>4
    <3>. QED
      BY <3>1, <3>2, <3>3, <3>4
  <2>. QED
    BY <2>2, <2>3, <2>4
<1>2. job[c] = S!Idle /\ UNCHANGED <<proc, pidFile>>
  BY DEF S!Ask
<1>3. job'[c] = [kind |-> kind, todo |-> todo, step |-> "check", pid |-> 0]
      /\ job' = [d \in Desks |-> job'[d]]
      /\ \A d \in Desks : d # c => job'[d] = job[d]
  <2>1. PICK v : v = [kind |-> kind, todo |-> todo, step |-> "check", pid |-> 0]
    OBVIOUS
  <2>2. v = [S!Idle EXCEPT !.kind = kind, !.todo = todo]
    <3>1. PICK i : S!Idle = [kind |-> "none", todo |-> i, step |-> "check", pid |-> 0]
      BY DEF S!Idle
    <3>2. PICK j : j = [S!Idle EXCEPT !.kind = kind]
      OBVIOUS
    <3>3. j = [kind |-> kind, todo |-> i, step |-> "check", pid |-> 0]
      BY <3>1, <3>2
    <3>4. v = [j EXCEPT !.todo = todo]
      BY <2>1, <3>3
    <3>. QED
      BY <3>2, <3>4
  <2>3. job' = [job EXCEPT ![c] = v]
    BY <2>2 DEF S!Ask
  <2>. QED
    BY <2>1, <2>3, JobUpdate DEF SuperInv, JobsInv
<1>4. \A d \in Desks : d # c => Doing(d)' = Doing(d) /\ Doing(d) \cap Doing(c)' = {}
  <2>1. Doing(c)' = S!ToSet(todo)
    BY <1>1, <1>3 DEF Doing, S!ToSet
  <2>2. ASSUME NEW d \in Desks, d # c
        PROVE  Doing(d)' = Doing(d) /\ Doing(d) = S!ToSet(job[d].todo)
    <3>1. job[d].todo \in Seq(Jobs) /\ job'[d].todo = job[d].todo
      BY <1>3, <2>2 DEF SuperInv, JobsInv, JobForm
    <3>2. DOMAIN job[d].todo = 1..Len(job[d].todo)
      BY <3>1
    <3>. QED
      BY <3>1, <3>2 DEF Doing, S!ToSet
  <2>. QED
    BY <2>1, <2>2 DEF S!Ask
<1>5. JobForm(c)'
  BY <1>1, <1>3 DEF JobForm, Doing
<1>6. JobsInv'
  <2>1. \A d \in Desks : d # c => JobForm(d)'
    BY <1>3, <1>4 DEF SuperInv, JobsInv, JobForm
  <2>. QED
    BY <1>3, <1>4, <1>5, <2>1 DEF SuperInv, JobsInv
<1>7. \A s : S!Serving(s)' = S!Serving(s)
  BY <1>2 DEF S!Serving, S!Running
<1>8. ASSUME NEW d \in Desks
      PROVE  JobSound(d)'
  <2>1. CASE d = c
    BY <1>3, <2>1 DEF JobSound
  <2>2. CASE d # c
    <3>1. JobSound(d) /\ job'[d] = job[d] /\ Service(d)' = Service(d)
      BY <1>3, <2>2 DEF SuperInv, Service
    <3>2. S!Serving(Service(d))' = S!Serving(Service(d))
      BY <1>7, <3>1
    <3>. QED
      BY <1>2, <3>1, <3>2 DEF JobSound
  <2>. QED
    BY <2>1, <2>2
<1>9. S!Stoppable'
  BY <1>2, <1>3, <1>7, StoppableStays DEF SuperInv, S!Idle
<1>. QED
  BY <1>2, <1>6, <1>8, <1>9 DEF SuperInv, ProcsInv, ProcForm

LEMMA CheckStep ==
  ASSUME SuperInv, NEW c \in Desks, S!CheckStart(c) \/ S!Signal(c)
  PROVE  SuperInv'
<1>1. /\ job[c].step = "check" /\ job[c].todo # <<>> /\ Service(c) \in S!Services
      /\ Service(c) \in Doing(c) /\ UNCHANGED <<open, log, endpoint, crashes>>
  <2>1. job[c].step = "check" /\ job[c].todo # <<>> /\ JobForm(c)
    BY DEF S!CheckStart, S!Signal, SuperInv, JobsInv, JobForm
  <2>2. Service(c) \in Doing(c) /\ Service(c) \in Jobs
    BY <2>1, ServiceDoing
  <2>. QED
    BY <2>1, <2>2 DEF S!CheckStart, S!Signal, JobForm, Jobs, Service
<1>a. PICK s : s = Service(c)
  OBVIOUS
<1>2. CASE S!CheckStart(c) /\ S!Alive(pidFile[s])
  <2>1. S!Advance(c) /\ UNCHANGED <<proc, pidFile>>
    BY <1>a, <1>2 DEF S!CheckStart, Service
  <2>2. /\ JobsInv' /\ job'[c].step = "check"
        /\ \A d \in Desks : d # c => job'[d] = job[d]
    BY <1>1, <2>1, AdvanceJob DEF SuperInv
  <2>3. \A t : S!Serving(t)' = S!Serving(t)
    BY <2>1 DEF S!Serving, S!Running
  <2>4. S!Stoppable'
    BY <1>1, <2>1, <2>2, <2>3, StoppableStays DEF SuperInv
  <2>5. \A d \in Desks : JobSound(d)'
    BY <2>1, <2>2, <2>3 DEF SuperInv, JobSound, Service
  <2>. QED
    BY <2>1, <2>2, <2>4, <2>5 DEF SuperInv, ProcsInv, ProcForm
<1>3. ASSUME ~S!Alive(pidFile[s])
      PROVE  S!Serving(s) = {}
  BY <1>a, <1>1, <1>3, NoneServes DEF S!Alive
<1>4. ASSUME ~S!Alive(pidFile[s]), pidFile' = [pidFile EXCEPT ![s] = 0], UNCHANGED proc,
             \A d \in Desks : d # c => job'[d] = job[d]
      PROVE  /\ ProcsInv' /\ S!Stoppable' /\ S!Serving(s)' = {}
             /\ \A d \in Desks : d # c => JobSound(d)'
  <2>1. \A t : S!Serving(t)' = S!Serving(t)
    BY <1>4 DEF S!Serving, S!Running
  <2>2. S!Stoppable'
    BY <1>a, <1>1, <1>3, <1>4, <2>1 DEF SuperInv, S!Stoppable, ProcsInv
  <2>3. \A d \in Desks : d # c => JobSound(d)'
    BY <1>4, <2>1 DEF SuperInv, JobSound, Service
  <2>4. ProcsInv'
    BY <1>4 DEF SuperInv, ProcsInv, ProcForm
  <2>5. S!Serving(s)' = {}
    BY <1>3, <1>4 DEF S!Serving, S!Running
  <2>. QED
    BY <2>2, <2>3, <2>4, <2>5
<1>5. CASE S!CheckStart(c) /\ ~S!Alive(pidFile[s])
  <2>1. /\ S!Goto(c, "launch") /\ pidFile' = [pidFile EXCEPT ![s] = 0] /\ UNCHANGED proc
    BY <1>a, <1>5 DEF S!CheckStart, Service
  <2>2. PICK n, i : n = "launch" /\ i = job[c].pid
    OBVIOUS
  <2>3. job' = [job EXCEPT ![c] = [job[c] EXCEPT !.step = n, !.pid = i]]
    <3>1. [job[c] EXCEPT !.step = n] = [job[c] EXCEPT !.step = n, !.pid = i]
      BY <2>2 DEF SuperInv, JobsInv, JobForm
    <3>. QED
      BY <2>1, <2>2, <3>1 DEF S!Goto
  <2>4. /\ JobsInv' /\ job'[c].step = "launch" /\ Service(c)' = Service(c)
        /\ \A d \in Desks : d # c => job'[d] = job[d]
    BY <1>1, <2>2, <2>3, GotoJob DEF SuperInv
  <2>5. /\ ProcsInv' /\ S!Stoppable' /\ S!Serving(s)' = {}
        /\ \A d \in Desks : d # c => JobSound(d)'
    BY <1>4, <1>5, <2>1, <2>4
  <2>6. JobSound(c)'
    BY <1>a, <2>4, <2>5 DEF JobSound
  <2>. QED
    BY <2>4, <2>5, <2>6 DEF SuperInv
<1>6. CASE S!Signal(c) /\ ~S!Alive(pidFile[s])
  <2>1. /\ S!Advance(c) /\ pidFile' = [pidFile EXCEPT ![s] = 0] /\ UNCHANGED proc
    BY <1>a, <1>6 DEF S!Signal, Service
  <2>2. /\ JobsInv' /\ job'[c].step = "check"
        /\ \A d \in Desks : d # c => job'[d] = job[d]
    BY <1>1, <2>1, AdvanceJob DEF SuperInv
  <2>3. /\ ProcsInv' /\ S!Stoppable'
        /\ \A d \in Desks : d # c => JobSound(d)'
    BY <1>4, <1>6, <2>1, <2>2
  <2>4. JobSound(c)'
    BY <2>2 DEF JobSound
  <2>. QED
    BY <2>2, <2>3, <2>4 DEF SuperInv
<1>7. CASE S!Signal(c) /\ S!Alive(pidFile[s])
  <2>1. /\ S!Goto(c, "unlink") /\ UNCHANGED pidFile
        /\ proc' = [proc EXCEPT ![pidFile[s]].state =
                      IF pidFile[s] \in S!Running THEN "stopping" ELSE @]
    BY <1>a, <1>7 DEF S!Signal, Service
  <2>2. PICK p : p = pidFile[s] /\ proc[p].state # "gone"
    BY <1>7 DEF S!Alive
  <2>3. ProcsKept /\ (\A q \in S!Serving(s)' : q # p)
    <3>1. CASE p \in S!Running
      <4>1. PICK st : st = "stopping"
        OBVIOUS
      <4>2. p \in 1..Len(proc) /\ proc' = [proc EXCEPT ![p] = [proc[p] EXCEPT !.state = st]]
        BY <2>1, <2>2, <3>1, <4>1 DEF S!Running, SuperInv, ProcsInv
      <4>3. ProcsKept /\ proc'[p].state = st
        BY <4>1, <4>2, ProcUpdate DEF SuperInv
      <4>. QED
        BY <4>1, <4>3 DEF S!Serving, S!Running
    <3>2. CASE p \notin S!Running
      <4>1. proc' = proc
        <5>1. ASSUME p \in 1..Len(proc)
              PROVE  [proc[p] EXCEPT !.state = proc[p].state] = proc[p]
          BY <5>1 DEF SuperInv, ProcsInv, ProcForm
        <5>2. proc' = [proc EXCEPT ![p] = [proc[p] EXCEPT !.state = proc[p].state]]
          BY <2>1, <2>2, <3>2
        <5>. QED
          BY <5>1, <5>2 DEF SuperInv, ProcsInv
      <4>. QED
        BY <3>2, <4>1 DEF S!Serving, S!Running, ProcsKept, SuperInv, ProcsInv, ProcForm
    <3>. QED
      BY <3>1, <3>2
  <2>4. PICK n, i : n = "unlink" /\ i = job[c].pid
    OBVIOUS
  <2>5. job' = [job EXCEPT ![c] = [job[c] EXCEPT !.step = n, !.pid = i]]
    <3>1. [job[c] EXCEPT !.step = n] = [job[c] EXCEPT !.step = n, !.pid = i]
      BY <2>4 DEF SuperInv, JobsInv, JobForm
    <3>. QED
      BY <2>1, <2>4, <3>1 DEF S!Goto
  <2>6. /\ JobsInv' /\ job'[c].step = "unlink" /\ Service(c)' = Service(c)
        /\ \A d \in Desks : d # c => job'[d] = job[d]
    BY <1>1, <2>4, <2>5, GotoJob DEF SuperInv
  <2>7. /\ \A t : S!Serving(t)' \subseteq S!Serving(t)
        /\ \A d \in Desks : d # c => JobSound(d)'
    BY <2>3, <2>6, KeptServing DEF SuperInv
  <2>8. S!Serving(s)' = {}
    BY <1>a, <1>1, <2>2, <2>3, <2>7, NoneServes
  <2>9. JobSound(c)'
    BY <1>a, <2>6, <2>8 DEF JobSound
  <2>10. S!Stoppable'
    BY <1>1, <2>1, <2>6, <2>7, StoppableStays DEF SuperInv
  <2>. QED
    BY <2>1, <2>3, <2>6, <2>7, <2>9, <2>10 DEF SuperInv, ProcsInv, ProcsKept
<1>. QED
  BY <1>2, <1>5, <1>6, <1>7, <1>a, <1>1

LEMMA RegisterStep ==
  ASSUME SuperInv, NEW c \in Desks, S!Register(c)
  PROVE  SuperInv'
<1>1. /\ job[c].todo # <<>> /\ job[c].step = "check" /\ S!Advance(c) /\ UNCHANGED <<proc, pidFile>>
  BY DEF S!Register, SuperInv, JobsInv, JobForm
<1>2. /\ JobsInv' /\ job'[c].step = "check"
      /\ \A d \in Desks : d # c => job'[d] = job[d]
  BY <1>1, AdvanceJob DEF SuperInv
<1>3. \A t : S!Serving(t)' = S!Serving(t)
  BY <1>1 DEF S!Serving, S!Running
<1>4. \A d \in Desks : JobSound(d)'
  BY <1>1, <1>2, <1>3 DEF SuperInv, JobSound, Service
<1>5. S!Stoppable'
  BY <1>1, <1>2, <1>3, StoppableStays DEF SuperInv
<1>. QED
  BY <1>1, <1>2, <1>4, <1>5 DEF SuperInv, ProcsInv, ProcForm

\* The pid file is written with the pid of the one that runs, or is removed when
\* none does.
LEMMA FileStep ==
  ASSUME SuperInv, NEW c \in Desks, S!Record(c) \/ S!Unlink(c)
  PROVE  SuperInv'
<1>1. /\ job[c].step \in {"record", "unlink"} /\ job[c].todo # <<>> /\ S!Advance(c)
      /\ UNCHANGED proc /\ JobSound(c)
  BY DEF S!Record, S!Unlink, SuperInv, JobsInv, JobForm
<1>2. /\ JobsInv' /\ job'[c].step = "check"
      /\ \A d \in Desks : d # c => job'[d] = job[d]
  BY <1>1, AdvanceJob DEF SuperInv
<1>3. \A t : S!Serving(t)' = S!Serving(t)
  BY <1>1 DEF S!Serving, S!Running
<1>4. \A d \in Desks : JobSound(d)'
  BY <1>1, <1>2, <1>3 DEF SuperInv, JobSound, Service
<1>5. PICK s, p : /\ s = Service(c) /\ pidFile' = [pidFile EXCEPT ![s] = p]
                  /\ S!Serving(s) \subseteq {p}
                  /\ job[c].step = "record" => job[c].pid = p /\ proc[p].svc = s
  BY <1>1 DEF S!Record, S!Unlink, Service, JobSound
<1>6. S!Stoppable'
  <2> SUFFICES ASSUME NEW t \in S!Services, NEW q \in S!Serving(t)
               PROVE  pidFile'[t] = q \/ \E d \in Desks : job'[d].step = "record" /\ job'[d].pid = q
    BY <1>3 DEF S!Stoppable
  <2>1. CASE t = s
    BY <1>5, <2>1 DEF SuperInv, ProcsInv
  <2>2. CASE t # s
    <3>1. pidFile'[t] = pidFile[t]
      BY <1>5, <2>2 DEF SuperInv, ProcsInv
    <3>2. proc[q].svc = t
      BY DEF S!Serving
    <3>3. ~(job[c].step = "record" /\ job[c].pid = q)
      BY <1>5, <2>2, <3>2
    <3>. QED
      BY <1>2, <3>1, <3>3 DEF SuperInv, S!Stoppable
  <2>. QED
    BY <2>1, <2>2
<1>7. ProcsInv'
  <2>1. pidFile' = [t \in S!Services |-> pidFile'[t]]
    BY <1>5 DEF SuperInv, ProcsInv
  <2>. QED
    BY <1>1, <2>1 DEF SuperInv, ProcsInv, ProcForm
<1>. QED
  BY <1>2, <1>4, <1>6, <1>7 DEF SuperInv

\* Processes end, or change what they are, behind the consoles' backs.
LEMMA ProcsStep ==
  ASSUME SuperInv, ProcsKept, UNCHANGED <<job, pidFile>>
  PROVE  SuperInv'
<1>1. /\ \A s : S!Serving(s)' \subseteq S!Serving(s)
      /\ \A d \in Desks : JobSound(d)'
  BY KeptServing DEF SuperInv
<1>2. S!Stoppable'
  BY <1>1, StoppableStays DEF SuperInv
<1>3. JobsInv'
  <2>1. \A c \in Desks : Doing(c)' = Doing(c)
    BY DEF Doing
  <2>2. \A c \in Desks : JobForm(c)'
    BY <2>1 DEF SuperInv, JobsInv, JobForm
  <2>. QED
    BY <2>1, <2>2 DEF SuperInv, JobsInv
<1>. QED
  BY <1>1, <1>2, <1>3 DEF SuperInv, ProcsInv, ProcsKept

LEMMA QuitStep ==
  ASSUME SuperInv, NEW c \in Desks, S!Quit(c)
  PROVE  SuperInv'
<1>1. UNCHANGED <<job, pidFile>> /\ DOMAIN proc = 1..Len(proc)
  BY DEF S!Quit, SuperInv, ProcsInv
<1>2. proc' = [p \in 1..Len(proc) |-> proc'[p]]
  BY <1>1 DEF S!Quit
<1>3. Len(proc') = Len(proc)
  <2>1. DOMAIN proc' = 1..Len(proc)
    BY <1>2
  <2>. QED
    BY <1>2, <2>1 DEF SuperInv, ProcsInv
<1>4. ASSUME NEW p \in 1..Len(proc)
      PROVE  /\ ProcForm(p)' /\ proc'[p].svc = proc[p].svc
             /\ proc'[p].state \in {"new", "up"} => proc[p].state \in {"new", "up"}
  <2>0. proc[p] = [svc |-> proc[p].svc, parent |-> proc[p].parent, state |-> proc[p].state]
    BY DEF SuperInv, ProcsInv, ProcForm
  <2>1. CASE proc'[p] = proc[p]
    BY <2>0, <2>1 DEF ProcForm
  <2>2. CASE proc'[p] # proc[p]
    <3>1. PICK st : /\ st \in {proc[p].state, "gone"}
                    /\ proc'[p] = [proc[p] EXCEPT !.parent = "init", !.state = st]
      BY <1>1, <2>2 DEF S!Quit
    <3>2. proc'[p] = [svc |-> proc[p].svc, parent |-> "init", state |-> st]
      BY <2>0, <3>1
    <3>. QED
      BY <3>1, <3>2 DEF ProcForm
  <2>. QED
    BY <2>1, <2>2
<1>. QED
  BY <1>1, <1>2, <1>3, <1>4, ProcsStep DEF ProcsKept

LEMMA EndsStep ==
  ASSUME SuperInv, NEW p \in DOMAIN proc, S!TunnelUrl(p) \/ S!Ends(p)
  PROVE  SuperInv'
<1>1. /\ UNCHANGED <<job, pidFile>> /\ p \in 1..Len(proc)
  BY DEF S!TunnelUrl, S!Ends, SuperInv, ProcsInv
<1>2. PICK st : /\ proc' = [proc EXCEPT ![p] = [proc[p] EXCEPT !.state = st]]
                /\ proc[p].state \in {"new", "up"} \/ st \notin {"new", "up"}
  <2>1. CASE S!TunnelUrl(p)
    BY <2>1 DEF S!TunnelUrl
  <2>2. CASE S!Ends(p)
    <3>1. PICK st : /\ st \in {"zombie", "gone"}
                    /\ proc' = [proc EXCEPT ![p] = [proc[p] EXCEPT !.state = st]]
      BY <2>2 DEF S!Ends, S!Dead
    <3>. QED
      BY <3>1
  <2>. QED
    BY <2>1, <2>2
<1>. QED
  BY <1>1, <1>2, ProcUpdate, ProcsStep DEF SuperInv

LEMMA LaunchStep ==
  ASSUME SuperInv, NEW c \in Desks, S!Launch(c)
  PROVE  SuperInv'
<1>1. PICK s, n : s = Service(c) /\ n = Len(proc) + 1
  OBVIOUS
<1>2. /\ job[c].step = "launch" /\ job[c].todo # <<>> /\ S!Serving(s) = {}
      /\ s \in Doing(c) /\ n \in Nat /\ n \notin 1..Len(proc)
      /\ DOMAIN proc = 1..Len(proc) /\ UNCHANGED pidFile
  <2>1. job[c].step = "launch" /\ JobForm(c) /\ JobSound(c) /\ UNCHANGED pidFile
    BY DEF S!Launch, SuperInv, JobsInv
  <2>2. s \in Doing(c)
    BY <1>1, <2>1, ServiceDoing DEF JobForm
  <2>. QED
    BY <1>1, <2>1, <2>2 DEF JobForm, JobSound, SuperInv, ProcsInv
<1>3. PICK m, i : m = "record" /\ i = n
  OBVIOUS
<1>4. job' = [job EXCEPT ![c] = [job[c] EXCEPT !.step = m, !.pid = i]]
  <2>1. PICK v : v = [job[c] EXCEPT !.step = m]
    OBVIOUS
  <2>2. PICK w : w = [v EXCEPT !.pid = i]
    OBVIOUS
  <2>3. w = [job[c] EXCEPT !.step = m, !.pid = i]
    BY <2>1, <2>2
  <2>4. job' = [[job EXCEPT ![c] = v] EXCEPT ![c] = [@ EXCEPT !.pid = i]]
    BY <1>1, <1>3, <2>1 DEF S!Launch
  <2>5. job' = [job EXCEPT ![c] = w]
    BY <2>2, <2>4 DEF SuperInv, JobsInv
  <2>. QED
    BY <2>3, <2>5
<1>5. /\ JobsInv' /\ job'[c].step = "record" /\ job'[c].pid = n /\ Service(c)' = Service(c)
      /\ \A d \in Desks : d # c => job'[d] = job[d]
  BY <1>2, <1>3, <1>4, GotoJob DEF SuperInv
<1>6. PICK old, st :
        /\ old = [p \in 1..Len(proc) |-> IF proc[p].parent = c /\ proc[p].state = "zombie"
                                           THEN [proc[p] EXCEPT !.state = "gone"] ELSE proc[p]]
        /\ st \in {"new", "up"}
        /\ proc' = Append(old, [svc |-> s, parent |-> c, state |-> st])
  BY <1>1, <1>2 DEF S!Launch, Service
<1>7. ASSUME NEW p \in 1..Len(proc)
      PROVE  /\ old[p].svc = proc[p].svc
             /\ old[p] = [svc |-> old[p].svc, parent |-> old[p].parent, state |-> old[p].state]
             /\ old[p].state = proc[p].state \/ {old[p].state, proc[p].state} \cap {"new", "up"} = {}
  <2>1. proc[p] = [svc |-> proc[p].svc, parent |-> proc[p].parent, state |-> proc[p].state]
    BY DEF SuperInv, ProcsInv, ProcForm
  <2>2. CASE old[p] = proc[p]
    BY <2>1, <2>2
  <2>3. CASE old[p] = [proc[p] EXCEPT !.state = "gone"] /\ proc[p].state = "zombie"
    <3>1. old[p] = [svc |-> proc[p].svc, parent |-> proc[p].parent, state |-> "gone"]
      BY <2>1, <2>3
    <3>. QED
      BY <2>3, <3>1
  <2>. QED
    BY <1>6, <2>2, <2>3
<1>8. /\ Len(proc') = n /\ proc' = [p \in 1..Len(proc') |-> proc'[p]]
      /\ \A p \in 1..Len(proc) : proc'[p] = old[p]
      /\ proc'[n].svc = s /\ proc'[n].state \in {"new", "up"} /\ ProcForm(n)'
  <2>1. PICK e : e = [svc |-> s, parent |-> c, state |-> st]
    OBVIOUS
  <2>2. PICK V : /\ e \in V /\ \A p \in 1..Len(proc) : old[p] \in V
    <3>1. \A p \in 1..Len(proc) : old[p] \in {old[q] : q \in 1..Len(proc)}
      OBVIOUS
    <3>2. PICK W : W = {old[q] : q \in 1..Len(proc)} \cup {e}
      OBVIOUS
    <3>. QED
      BY <3>1, <3>2
  <2>3. old \in Seq(V) /\ Len(old) = Len(proc)
    <3>1. old \in [1..Len(proc) -> V]
      BY <1>6, <2>2
    <3>2. Len(proc) \in Nat
      BY DEF SuperInv, ProcsInv
    <3>. QED
      BY <3>1, <3>2
  <2>4. /\ proc' \in Seq(V) /\ Len(proc') = n /\ proc'[n] = e
        /\ \A p \in 1..Len(proc) : proc'[p] = old[p]
    <3>1. proc' = Append(old, e)
      BY <1>6, <2>1
    <3>2. n = Len(old) + 1
      BY <1>1, <2>3
    <3>3. proc' \in Seq(V) /\ Len(proc') = Len(old) + 1
      BY <2>2, <2>3, <3>1
    <3>4. /\ proc'[Len(old) + 1] = e
          /\ \A p \in 1..Len(old) : proc'[p] = old[p]
      BY <2>2, <2>3, <3>1
    <3>. QED
      BY <2>3, <3>2, <3>3, <3>4
  <2>5. proc' = [p \in 1..Len(proc') |-> proc'[p]]
    <3>1. PICK q : q = proc'
      OBVIOUS
    <3>2. q \in [1..Len(q) -> V]
      BY <2>4, <3>1, LenProperties
    <3>3. q = [p \in 1..Len(q) |-> q[p]]
      BY <3>2
    <3>. QED
      BY <3>1, <3>3
  <2>6. proc'[n].svc = s /\ proc'[n].state = st
        /\ proc'[n] = [svc |-> proc'[n].svc, parent |-> proc'[n].parent, state |-> proc'[n].state]
    <3>1. PICK q : q = proc'[n]
      OBVIOUS
    <3>2. q = e
      BY <2>4, <3>1
    <3>3. q = [svc |-> s, parent |-> c, state |-> st]
      BY <2>1, <3>2
    <3>4. q.svc = s /\ q.parent = c /\ q.state = st
      BY <3>3
    <3>. QED
      BY <3>1, <3>3, <3>4
  <2>7. ProcForm(n)'
    BY <2>6 DEF ProcForm
  <2>. QED
    BY <1>6, <2>4, <2>5, <2>6, <2>7
<1>9. ProcsInv'
  <2>1. \A p \in 1..Len(proc') : p \in 1..Len(proc) \/ p = n
    BY <1>1, <1>8 DEF SuperInv, ProcsInv
  <2>2. \A p \in 1..Len(proc') : ProcForm(p)'
    BY <1>7, <1>8, <2>1 DEF ProcForm
  <2>. QED
    BY <1>2, <1>8, <2>2 DEF SuperInv, ProcsInv
<1>10. /\ \A t : t # s => S!Serving(t)' = S!Serving(t)
       /\ S!Serving(s)' = {n}
  <2>1. \A p \in 1..Len(proc) :
          proc'[p].svc = proc[p].svc
          /\ (proc'[p].state \in {"new", "up"} <=> proc[p].state \in {"new", "up"})
    BY <1>7, <1>8
  <2>2. DOMAIN proc' = 1..Len(proc) \cup {n}
    BY <1>1, <1>8 DEF SuperInv, ProcsInv
  <2>. QED
    BY <1>2, <1>8, <2>1, <2>2 DEF S!Serving, S!Running
<1>11. ASSUME NEW d \in Desks
       PROVE  JobSound(d)'
  <2>1. CASE d = c
    BY <1>1, <1>5, <1>8, <1>10, <2>1 DEF JobSound, SuperInv, ProcsInv
  <2>2. CASE d # c
    <3>1. JobSound(d) /\ JobForm(d) /\ job'[d] = job[d] /\ Service(d)' = Service(d)
      BY <1>5, <2>2 DEF SuperInv, JobsInv, Service
    <3>2. CASE job[d].step = "check"
      BY <3>1, <3>2 DEF JobSound
    <3>3. CASE job[d].step # "check"
      <4>1. Service(d) # s
        <5>1. Service(d) \in Doing(d)
          BY <3>1, <3>3, ServiceDoing DEF JobForm
        <5>. QED
          BY <1>2, <2>2, <5>1 DEF SuperInv, JobsInv
      <4>2. S!Serving(Service(d))' = S!Serving(Service(d))
        BY <1>10, <3>1, <4>1
      <4>3. ASSUME NEW q \in 1..Len(proc)
            PROVE  q \in 1..Len(proc') /\ proc'[q].svc = proc[q].svc
        <5>1. proc'[q] = old[q] /\ old[q].svc = proc[q].svc
          BY <1>7, <1>8
        <5>2. Len(proc') = Len(proc) + 1 /\ Len(proc) \in Nat
          BY <1>1, <1>8 DEF SuperInv, ProcsInv
        <5>. QED
          BY <5>1, <5>2
      <4>. QED
        BY <3>1, <4>2, <4>3 DEF JobSound
    <3>. QED
      BY <3>2, <3>3
  <2>. QED
    BY <2>1, <2>2
<1>12. S!Stoppable'
  BY <1>2, <1>5, <1>10 DEF SuperInv, S!Stoppable
<1>. QED
  BY <1>5, <1>9, <1>11, <1>12 DEF SuperInv

LEMMA ServerStep ==
  ASSUME SuperInv, NEW p \in DOMAIN proc, S!ServerStart(p)
  PROVE  SuperInv'
<1>1. /\ UNCHANGED job /\ p \in 1..Len(proc) /\ p \in S!Serving("relayer")
      /\ proc[p].state = "new" /\ "relayer" \in S!Services
  BY DEF S!ServerStart, S!Serving, S!Running, SuperInv, ProcsInv, S!Services
<1>2. PICK st, f :
        /\ proc' = [proc EXCEPT ![p] = [proc[p] EXCEPT !.state = st]]
        /\ pidFile' = [pidFile EXCEPT !["relayer"] = f]
        /\ st \in {"up", "new"} => f = p
  BY DEF S!ServerStart, S!Dead
<1>3. /\ ProcsKept /\ proc'[p].state = st
      /\ \A q \in 1..Len(proc) : q # p => proc'[q] = proc[q]
  BY <1>1, <1>2, ProcUpdate DEF SuperInv
<1>4. /\ \A s : S!Serving(s)' \subseteq S!Serving(s)
      /\ \A d \in Desks : JobSound(d)'
  BY <1>1, <1>3, KeptServing DEF SuperInv
<1>5. \A q \in S!Serving("relayer")' : q = p /\ st \in {"up", "new"}
  <2>1. \A q \in S!Serving("relayer")' : q = p
    BY <1>1, <1>4, OneServes
  <2>. QED
    BY <1>3, <2>1 DEF S!Serving, S!Running
<1>6. ASSUME NEW s \in S!Services, s # "relayer"
      PROVE  pidFile'[s] = pidFile[s]
  BY <1>2, <1>6 DEF SuperInv, ProcsInv
<1>7. pidFile'["relayer"] = f /\ pidFile' = [s \in S!Services |-> pidFile'[s]]
  BY <1>1, <1>2 DEF SuperInv, ProcsInv
<1>8. S!Stoppable'
  BY <1>1, <1>2, <1>4, <1>5, <1>6, <1>7 DEF SuperInv, S!Stoppable
<1>9. JobsInv'
  <2>1. \A c \in Desks : Doing(c)' = Doing(c)
    BY <1>1 DEF Doing
  <2>2. \A c \in Desks : JobForm(c)'
    BY <1>1, <2>1 DEF SuperInv, JobsInv, JobForm
  <2>. QED
    BY <1>1, <2>1, <2>2 DEF SuperInv, JobsInv
<1>. QED
  BY <1>3, <1>4, <1>7, <1>8, <1>9 DEF SuperInv, ProcsInv, ProcsKept

\* onboarding.py's start and stop functions: what runs can be stopped, however
\* many consoles are open, whatever crashes and whoever writes the pid file,
\* while no two consoles are busy with one service at once.
THEOREM SupervisorStoppable == ~MayOverlap => (S!Spec => []Stoppable)
<1> SUFFICES ASSUME ~MayOverlap
             PROVE  S!Spec => []Stoppable
  OBVIOUS
<1>1. S!Init => SuperInv
  <2> SUFFICES ASSUME S!Init
               PROVE  SuperInv
    OBVIOUS
  <2>1. \A c \in Desks : job[c] = S!Idle
    BY DEF S!Init
  <2>2. \A c \in Desks : JobForm(c) /\ Doing(c) = {} /\ JobSound(c)
    <3>0. <<>> \in Seq(Jobs) /\ Len(<<>>) = 0
      OBVIOUS
    <3>1. PICK e : e = <<>> /\ e \in Seq(Jobs) /\ Len(e) = 0
      BY <3>0, Zenon
    <3>2. \A c \in Desks : job[c] = [kind |-> "none", todo |-> e, step |-> "check", pid |-> 0]
      BY <2>1, <3>1, Zenon DEF S!Idle
    <3> SUFFICES ASSUME NEW c \in Desks
                 PROVE  JobForm(c) /\ Doing(c) = {} /\ JobSound(c)
      OBVIOUS
    <3>3. /\ job[c].kind = "none" /\ job[c].todo = e /\ job[c].step = "check"
          /\ job[c] = [kind |-> job[c].kind, todo |-> job[c].todo, step |-> job[c].step,
                       pid |-> job[c].pid]
      BY <3>2
    <3>. QED
      BY <3>1, <3>3 DEF JobForm, Doing, JobSound
  <2>3. JobsInv
    BY <2>2 DEF S!Init, JobsInv
  <2>4. proc = <<>> /\ Len(proc) = 0 /\ DOMAIN proc = {} /\ proc = [p \in 1..Len(proc) |-> proc[p]]
    BY DEF S!Init
  <2>5. ProcsInv /\ S!Stoppable
    BY <2>4 DEF S!Init, ProcsInv, S!Stoppable, S!Serving, S!Running
  <2>. QED
    BY <2>2, <2>3, <2>5 DEF SuperInv
<1>2. SuperInv /\ [S!Next]_S!vars => SuperInv'
  <2> SUFFICES ASSUME SuperInv, [S!Next]_S!vars
               PROVE  SuperInv'
    OBVIOUS
  <2>1. ASSUME NEW c \in Desks, S!Console(c)
        PROVE  SuperInv'
    <3>1. CASE \E todo \in S!Starts : S!Ask(c, "start", todo)
      BY <3>1, AskStep
    <3>2. CASE \E todo \in S!Stops : S!Ask(c, "stop", todo)
      BY <3>2, AskStep
    <3>3. CASE S!CheckStart(c) \/ S!Signal(c)
      BY <3>3, CheckStep
    <3>4. CASE S!Open(c)
      BY <3>4, ProcsStep DEF S!Open, SuperInv, ProcsInv, ProcsKept, ProcForm
    <3>. QED
      BY <2>1, <3>1, <3>2, <3>3, <3>4, LaunchStep, FileStep, RegisterStep, QuitStep
         DEF S!Console
  <2>2. ASSUME NEW p \in DOMAIN proc, S!ServerStart(p) \/ S!TunnelUrl(p) \/ S!Ends(p)
        PROVE  SuperInv'
    BY <2>2, ServerStep, EndsStep
  <2>3. CASE UNCHANGED S!vars
    BY <2>3, ProcsStep DEF S!vars, SuperInv, ProcsInv, ProcsKept, ProcForm
  <2>. QED
    BY <2>1, <2>2, <2>3 DEF S!Next
<1>3. SuperInv => S!Stoppable
  BY DEF SuperInv
<1>. QED
  BY <1>1, <1>2, <1>3, PTL DEF S!Spec, Stoppable

-----------------------------------------------------------------------------
(* The feed.  What aggregate makes of its submissions.                     *)

\* A set of numbers up to a bound has a least and a greatest.
LEMMA LeastGreatest ==
  ASSUME NEW m \in Nat, NEW T, T \subseteq 0..m, T # {}
  PROVE  P!Min(T) \in T /\ P!Max(T) \in T /\ \A n \in T : n <= P!Max(T) /\ P!Min(T) <= n
<1>1. ASSUME NEW U, U \subseteq Nat, U # {}
      PROVE  \E k \in U : \A n \in U : k <= n
  <2>1. IsWellFoundedOn(OpToRel(<, Nat), Nat)
    BY NatLessThanWellFounded
  <2>2. PICK k \in U : \A n \in U : <<n, k>> \notin OpToRel(<, Nat)
    BY <1>1, <2>1, WFMin, Zenon
  <2>3. \A n \in U : ~(n < k)
    BY <1>1, <2>2 DEF OpToRel
  <2>. QED
    BY <1>1, <2>3
<1>2. PICK k \in T : \A n \in T : k <= n
  <2>1. T \subseteq Nat
    OBVIOUS
  <2>. QED
    BY <1>1, <2>1
<1>3. PICK j \in T : \A n \in T : n <= j
  <2> DEFINE U == {m - n : n \in T}
  <2>0. \A n \in T : n \in 0..m /\ m - n \in Nat
    OBVIOUS
  <2>1. U \subseteq Nat /\ U # {}
    BY <2>0
  <2> HIDE DEF U
  <2>2. PICK i \in U : \A n \in U : i <= n
    BY <1>1, <2>1
  <2>3. PICK j \in T : i = m - j
    BY DEF U
  <2>4. \A n \in T : m - j <= m - n
    BY <2>2, <2>3 DEF U
  <2>. QED
    BY <2>0, <2>3, <2>4
<1>. QED
  BY <1>2, <1>3 DEF P!Min, P!Max

LEMMA MedianAmong ==
  ASSUME NEW m \in Nat, NEW subs, subs # {}, \A s \in subs : s.price \in 0..m
  PROVE  P!WeightedMedian(subs) \in {s.price : s \in subs}
<1> DEFINE Prices == {s.price : s \in subs}
<1>1. Prices \subseteq 0..m /\ Prices # {}
  OBVIOUS
<1>2. P!Min(Prices) \in Prices /\ P!Max(Prices) \in Prices
  BY <1>1, LeastGreatest
<1>3. ASSUME NEW Q, Q \subseteq Prices
      PROVE  P!Min(Q \cup {P!Max(Prices)}) \in Prices
  <2>1. Q \cup {P!Max(Prices)} \subseteq 0..m /\ Q \cup {P!Max(Prices)} # {}
    BY <1>1, <1>2, <1>3
  <2>2. P!Min(Q \cup {P!Max(Prices)}) \in Q \cup {P!Max(Prices)}
    BY <2>1, LeastGreatest
  <2>. QED
    BY <1>2, <1>3, <2>2
<1>. QED
  BY <1>2, <1>3, Zenon DEF P!WeightedMedian

\* The width of the prices bounds what each is off the median.
LEMMA BpsWithin ==
  ASSUME NEW p \in Nat, NEW lo \in Nat, NEW hi \in Nat, NEW q \in Nat \ {0},
         lo <= p, p <= hi, lo <= q, q <= hi
  PROVE  /\ P!Bps(p, q, q) \in Nat /\ P!Bps(hi, lo, q) \in Nat
         /\ P!Bps(p, q, q) <= P!Bps(hi, lo, q)
<1>1. PICK a : a = IF p > q THEN p - q ELSE q - p
  OBVIOUS
<1>2. PICK b : b = IF hi > lo THEN hi - lo ELSE lo - hi
  OBVIOUS
<1>3. a * 10000 \in Nat /\ b * 10000 \in Nat /\ a * 10000 <= b * 10000
  <2>1. b = hi - lo /\ b \in Nat
    BY <1>2
  <2>2. a \in Nat /\ a <= b
    BY <1>1, <2>1
  <2>. QED
    BY <2>1, <2>2
<1>4. ASSUME NEW i \in Nat, NEW j \in Nat, i <= j
      PROVE  i \div q \in Nat /\ j \div q \in Nat /\ i \div q <= j \div q
  <2> DEFINE x == i \div q
             y == j \div q
  <2>1. x \in Nat /\ y \in Nat /\ q * x <= i /\ j < q * (y + 1)
    OBVIOUS
  <2> HIDE DEF x, y
  <2>2. ASSUME x >= y + 1
        PROVE  FALSE
    <3>1. q * (x - (y + 1)) >= 0 /\ q * x = q * (y + 1) + q * (x - (y + 1))
      BY <2>1, <2>2
    <3>2. q * x \in Nat /\ q * (y + 1) \in Nat
      BY <2>1
    <3>. QED
      BY <1>4, <2>1, <3>1, <3>2
  <2>3. x <= y
    BY <2>1, <2>2
  <2>. QED
    BY <2>1, <2>3 DEF x, y
<1>. QED
  BY <1>1, <1>2, <1>3, <1>4 DEF P!Bps

Feed(c, u, pr, l, tr, a) ==
  [cycle |-> c, subs |-> u, provided |-> pr, lastAgg |-> l, tripped |-> tr, agg |-> a]

Heard(f, A) ==
  f.agg.price # P!NoPrice =>
    /\ \E s \in f.agg.from : s.price = f.agg.price
    /\ \A s, t \in f.agg.from : s.provider = t.provider => s = t
    /\ \A s \in f.agg.from :
         /\ s.price \in A /\ P!Bps(s.price, f.agg.price, f.agg.price) <= MAX_DEV
         /\ f.agg.topo - s.topo <= MAX_STALE
FeedOK(f, A) ==
  /\ \E c, u, pr, l, tr, a : f = Feed(c, u, pr, l, tr, a)
  /\ \A s \in f.subs : /\ s.price \in A /\ s.price \in 0..MaxQuote /\ s.price # 0
                       /\ s.provider \in f.provided
  /\ \A s, t \in f.subs : s.provider = t.provider => s = t
  /\ Heard(f, A)

LEMMA AggregateTold ==
  ASSUME P!KeeperConstants, NEW f, NEW A, NEW h, FeedOK(f, A)
  PROVE  FeedOK(P!TryAggregate(f, h).feed, A)
<1> DEFINE fresh  == {s \in f.subs : h - s.topo <= MAX_STALE}
           prices == {s.price : s \in fresh}
           median == P!WeightedMedian(fresh)
           agg    == [price |-> median, topo |-> h, from |-> fresh]
           next   == P!NextCycle(f, h)
           trip   == [f EXCEPT !.subs = {}, !.tripped = TRUE]
           posed   == [next EXCEPT !.agg = agg]
<1>1. ASSUME NEW c, NEW l, NEW pr, NEW tr, NEW a,
             a = f.agg \/ Heard(Feed(c, {}, pr, l, tr, a), A)
      PROVE  FeedOK(Feed(c, {}, pr, l, tr, a), A)
  <2>1. PICK g : g = Feed(c, {}, pr, l, tr, a)
    OBVIOUS
  <2>2. g.subs = {} /\ g.agg = a
    BY <2>1 DEF Feed
  <2>3. Heard(g, A)
    BY <1>1, <2>1, <2>2 DEF FeedOK, Heard
  <2>. QED
    BY <2>1, <2>2, <2>3 DEF FeedOK
<1>2. PICK c, u, pr, l, tr, a : f = Feed(c, u, pr, l, tr, a)
  BY DEF FeedOK
<1>3. f.agg = a /\ f.cycle = c
  BY <1>2 DEF Feed
<1>4. FeedOK(trip, A)
  <2>1. PICK g : g = [f EXCEPT !.subs = {}]
    OBVIOUS
  <2>2. g = Feed(c, {}, pr, l, tr, a)
    BY <1>2, <2>1 DEF Feed
  <2>0. PICK y : y = TRUE
    OBVIOUS
  <2>3. [g EXCEPT !.tripped = y] = Feed(c, {}, pr, l, y, a)
    BY <2>2 DEF Feed
  <2>4. trip = Feed(c, {}, pr, l, y, a)
    BY <2>0, <2>1, <2>3
  <2> HIDE DEF trip
  <2>. QED
    BY <1>1, <1>3, <2>4
<1>5. next = Feed(c + 1, {}, {}, h, tr, a)
  <2>1. PICK g1 : g1 = [f EXCEPT !.cycle = f.cycle + 1]
    OBVIOUS
  <2>2. PICK g2 : g2 = [g1 EXCEPT !.subs = {}]
    OBVIOUS
  <2>3. PICK g3 : g3 = [g2 EXCEPT !.provided = {}]
    OBVIOUS
  <2>4. g1 = Feed(c + 1, u, pr, l, tr, a)
    BY <1>2, <1>3, <2>1 DEF Feed
  <2>5. g2 = Feed(c + 1, {}, pr, l, tr, a)
    BY <2>2, <2>4 DEF Feed
  <2>6. g3 = Feed(c + 1, {}, {}, l, tr, a)
    BY <2>3, <2>5 DEF Feed
  <2>7. [g3 EXCEPT !.lastAgg = h] = Feed(c + 1, {}, {}, h, tr, a)
    BY <2>6 DEF Feed
  <2>. QED
    BY <2>1, <2>2, <2>3, <2>7 DEF P!NextCycle
<1>6. FeedOK(next, A)
  BY <1>1, <1>3, <1>5
<1>7. ASSUME fresh # {}, ~(P!Bps(P!Max(prices), P!Min(prices), median) > MAX_DEV)
      PROVE  FeedOK(posed, A)
  <2>0. ASSUME NEW m, NEW x, m = [next EXCEPT !.agg = x]
        PROVE  m = Feed(c + 1, {}, {}, h, tr, x) /\ m.agg = x
    BY <1>5, <2>0 DEF Feed
  <2>1. posed = Feed(c + 1, {}, {}, h, tr, agg) /\ posed.agg = agg
    <3> HIDE DEF next, agg
    <3>. QED
      BY <2>0
  <2>2. /\ \A s \in fresh : s.price \in 0..MaxQuote /\ s.price # 0 /\ s.price \in A
        /\ \A s, t \in fresh : s.provider = t.provider => s = t
        /\ MaxQuote \in Nat /\ MAX_DEV \in Nat
    BY DEF FeedOK, P!KeeperConstants
  <2>3. median \in prices
    BY <1>7, <2>2, MedianAmong
  <2>4. prices \subseteq 0..MaxQuote /\ prices # {}
    BY <1>7, <2>2
  <2>5. /\ P!Min(prices) \in prices /\ P!Max(prices) \in prices
        /\ \A n \in prices : n <= P!Max(prices) /\ P!Min(prices) <= n
    BY <2>2, <2>4, LeastGreatest
  <2>6. ASSUME NEW s \in fresh
        PROVE  P!Bps(s.price, median, median) <= MAX_DEV
    <3>1. s.price \in prices
      OBVIOUS
    <3> HIDE DEF prices, median
    <3>2. /\ s.price \in Nat /\ P!Min(prices) \in Nat /\ P!Max(prices) \in Nat
          /\ median \in Nat \ {0}
      BY <2>2, <2>3, <2>4, <2>5, <3>1 DEF prices
    <3>3. /\ P!Bps(s.price, median, median) \in Nat
          /\ P!Bps(P!Max(prices), P!Min(prices), median) \in Nat
          /\ P!Bps(s.price, median, median) <= P!Bps(P!Max(prices), P!Min(prices), median)
      BY <2>3, <2>5, <3>1, <3>2, BpsWithin
    <3>. QED
      BY <1>7, <2>2, <3>3
  <2>7. agg.price = median /\ agg.topo = h /\ agg.from = fresh
    OBVIOUS
  <2> HIDE DEF agg, median
  <2>8. Heard(posed, A)
    BY <2>1, <2>2, <2>3, <2>6, <2>7 DEF Heard
  <2>. QED
    BY <1>1, <2>1, <2>8
<1>8. P!TryAggregate(f, h).feed \in {f, next, trip}
      \/ /\ fresh # {} /\ ~(P!Bps(P!Max(prices), P!Min(prices), median) > MAX_DEV)
         /\ P!TryAggregate(f, h).feed = posed
  <2>1. CASE h < f.lastAgg + AGG_BLOCKS
    BY <2>1 DEF P!TryAggregate
  <2>2. CASE ~(h < f.lastAgg + AGG_BLOCKS)
    <3>1. P!TryAggregate(f, h) = P!Aggregate(f, h)
      BY <2>2 DEF P!TryAggregate
    <3> HIDE DEF next, trip, posed, median, prices, fresh
    <3>2. \/ \E w : P!Aggregate(f, h) \in {[feed |-> next, slashed |-> w], [feed |-> trip, slashed |-> w]}
          \/ /\ fresh # {} /\ ~(P!Bps(P!Max(prices), P!Min(prices), median) > MAX_DEV)
             /\ \E w : P!Aggregate(f, h) = [feed |-> posed, slashed |-> w]
      BY Zenon DEF P!Aggregate, next, trip, posed, median, prices, fresh, agg
    <3>. QED
      BY <3>1, <3>2
  <2>. QED
    BY <2>1, <2>2
<1>. QED
  BY <1>4, <1>6, <1>7, <1>8, Zenon

LEMMA FeedOKMore ==
  ASSUME NEW f, NEW A, NEW B, A \subseteq B, FeedOK(f, A)
  PROVE  FeedOK(f, B)
BY DEF FeedOK, Heard

LEMMA SubmittedTold ==
  ASSUME P!KeeperConstants, NEW f, NEW A, NEW h, NEW call, FeedOK(f, A), P!Takes(f, call)
  PROVE  FeedOK(P!Submitted(f, call, h), A \cup {call.price})
<1>1. PICK c, u, pr, l, tr, a : f = Feed(c, u, pr, l, tr, a)
  BY DEF FeedOK
<1>2. /\ f.subs = u /\ f.provided = pr /\ f.agg = a
  BY <1>1 DEF Feed
<1>3. PICK s : s = [provider |-> call.by, price |-> call.price, topo |-> h]
  OBVIOUS
<1>4. PICK v, q : v = u \cup {s} /\ q = pr \cup {call.by}
  OBVIOUS
<1>a. PICK g : g = [f EXCEPT !.subs = v]
  OBVIOUS
<1>b. PICK j : j = [g EXCEPT !.provided = q]
  OBVIOUS
<1>5. g = Feed(c, v, pr, l, tr, a)
  BY <1>1, <1>a DEF Feed
<1>6. j = Feed(c, v, q, l, tr, a)
  BY <1>b, <1>5 DEF Feed
<1>7. j.subs = v /\ j.provided = q /\ j.agg = a
  BY <1>6 DEF Feed
<1>8. P!Submitted(f, call, h) = j
  <2>1. v = f.subs \cup {s} /\ q = f.provided \cup {call.by}
    BY <1>2, <1>4
  <2>2. P!Submitted(f, call, h) = [[f EXCEPT !.subs = f.subs \cup {s}] EXCEPT !.provided = f.provided \cup {call.by}]
    BY <1>3, Zenon DEF P!Submitted
  <2>. QED
    BY <1>a, <1>b, <2>1, <2>2
<1>9. s.price = call.price /\ s.provider = call.by /\ s.topo = h
  BY <1>3
<1>10. /\ call.price \in 0..MaxQuote /\ call.price # 0 /\ call.by \notin pr
  BY <1>2 DEF P!Takes, P!KeeperConstants
<1>11. /\ \A t \in v : /\ t.price \in A \cup {call.price} /\ t.price \in 0..MaxQuote
                       /\ t.price # 0 /\ t.provider \in q
       /\ \A t1, t2 \in v : t1.provider = t2.provider => t1 = t2
  BY <1>2, <1>4, <1>9, <1>10 DEF FeedOK
<1>12. Heard(j, A \cup {call.price})
  BY <1>2, <1>7 DEF FeedOK, Heard
<1>. QED
  BY <1>6, <1>7, <1>8, <1>11, <1>12 DEF FeedOK

-----------------------------------------------------------------------------
(* The keeper.  It waits for one call at a time, the only one in flight    *)
(* whose answer it takes; and what it is told was taken is what it sent.   *)

Priced == Quotes \cup {P!NoPrice}
Calls ==
  {c \in [op : {"heartbeat", "aggregate_now", "submit_price"}, by : P!Wallets, price : Priced,
          awaited : BOOLEAN] : c.op # "submit_price" => c.price = P!NoPrice}
Loop(pcs, todo, topos, hb, good, tries, reply) ==
  [pc |-> pcs, todo |-> todo, lastTopo |-> topos, lastHb |-> hb, good |-> good,
   tries |-> tries, reply |-> reply]

LoopInv ==
  /\ \E a, b, c, d, e, f, g : keeper = Loop(a, b, c, d, e, f, g)
  /\ keeper.todo \in Seq(Calls) /\ \A i \in 1..Len(keeper.todo) : keeper.todo[i].awaited
  /\ keeper.pc # "sleep" => keeper.todo # <<>>
  /\ keeper.pc # "wait" => keeper.reply = "none"
  /\ keeper.good \in Priced /\ saved \in Priced
FlightInv ==
  /\ flight \in Seq(Calls)
  /\ \A i \in 1..Len(flight) : flight[i].awaited =>
       /\ keeper.pc = "wait" /\ keeper.reply = "none" /\ flight[i] = Head(keeper.todo)
       /\ \A j \in 1..Len(flight) : flight[j].awaited => j = i
TakenInv ==
  /\ keeper.pc = "wait" /\ keeper.reply = "ok" => Head(keeper.todo).price \in accepted \cup {P!NoPrice}
  /\ P!FallbackAccepted
KeeperInv == FeedOK(feed, accepted) /\ LoopInv /\ FlightInv /\ TakenInv

LEMMA OnwardForm ==
  ASSUME LoopInv, keeper.todo # <<>>
  PROVE  \E p \in {"sleep", "send"} :
           /\ P!Onward(keeper) = Loop(p, Tail(keeper.todo), keeper.lastTopo, keeper.lastHb,
                                      keeper.good, 0, "none")
           /\ p = "send" => Tail(keeper.todo) # <<>>
<1>1. PICK a, b, c, d, e, f, g : keeper = Loop(a, b, c, d, e, f, g)
  BY DEF LoopInv
<1>2. /\ keeper.pc = a /\ keeper.todo = b /\ keeper.lastTopo = c /\ keeper.lastHb = d
      /\ keeper.good = e /\ keeper.tries = f /\ keeper.reply = g
  BY <1>1 DEF Loop
<1>3. PICK p : p = IF Len(b) = 1 THEN "sleep" ELSE "send"
  OBVIOUS
<1>4. PICK t, n, z : t = Tail(b) /\ n = "none" /\ z = 0
  OBVIOUS
<1>a. PICK k1 : k1 = [keeper EXCEPT !.todo = t]
  OBVIOUS
<1>b. PICK k2 : k2 = [k1 EXCEPT !.tries = z]
  OBVIOUS
<1>c. PICK k3 : k3 = [k2 EXCEPT !.reply = n]
  OBVIOUS
<1>d. PICK k4 : k4 = [k3 EXCEPT !.pc = p]
  OBVIOUS
<1>6. k1 = Loop(a, t, c, d, e, f, g)
  BY <1>1, <1>a DEF Loop
<1>7. k2 = Loop(a, t, c, d, e, z, g)
  BY <1>b, <1>6 DEF Loop
<1>8. k3 = Loop(a, t, c, d, e, z, n)
  BY <1>c, <1>7 DEF Loop
<1>9. k4 = Loop(p, t, c, d, e, z, n)
  BY <1>d, <1>8 DEF Loop
<1>10. P!Onward(keeper) = k4
  BY <1>2, <1>3, <1>4, <1>a, <1>b, <1>c, <1>d DEF P!Onward
<1>11. p = "send" => Tail(b) # <<>>
  <2>1. b \in Seq(Calls) /\ b # <<>>
    BY <1>2 DEF LoopInv
  <2>2. Len(b) \in Nat /\ Len(Tail(b)) = Len(b) - 1
    BY <2>1
  <2>3. Len(<<>>) = 0 /\ (Len(b) = 0 => b = <<>>)
    BY <2>1, EmptySeq
  <2>4. Len(b) # 1 => Tail(b) # <<>>
    <3>1. Len(b) # 1 => Len(Tail(b)) # 0
      BY <2>2
    <3>. QED
      BY <2>3, <3>1, Zenon
  <2>. QED
    BY <1>3, <2>4
<1>12. p \in {"sleep", "send"}
  BY <1>3
<1>. QED
  BY <1>2, <1>4, <1>9, <1>10, <1>11, <1>12

\* What every step of the keeper that ends a wait or starts over leaves.
LEMMA OnwardInv ==
  ASSUME KeeperInv, keeper.todo # <<>>, NEW k, k = P!Onward(keeper), NEW g \in Priced,
         \/ keeper' = [k EXCEPT !.good = g]
         \/ keeper' = k /\ g = keeper.good
  PROVE  /\ LoopInv' <=> saved' \in Priced
         /\ keeper'.good = g /\ keeper'.pc \in {"sleep", "send"} /\ keeper'.reply = "none"
<1>1. PICK p \in {"sleep", "send"} :
           /\ k = Loop(p, Tail(keeper.todo), keeper.lastTopo, keeper.lastHb, keeper.good, 0, "none")
           /\ p = "send" => Tail(keeper.todo) # <<>>
  BY OnwardForm DEF KeeperInv
<1>2. PICK t, c, d, e, z, n : /\ k = Loop(p, t, c, d, e, z, n) /\ t = Tail(keeper.todo) /\ n = "none"
                              /\ e = keeper.good
  BY <1>1
<1>a. k = Loop(p, t, c, d, e, z, n)
  BY <1>2
<1>3. keeper' = Loop(p, t, c, d, g, z, n)
  <2>1. CASE keeper' = [k EXCEPT !.good = g]
    BY <1>a, <2>1 DEF Loop
  <2>2. CASE keeper' = k /\ g = keeper.good
    BY <1>2, <2>2
  <2>. QED
    BY <2>1, <2>2
<1>4. /\ keeper'.pc = p /\ keeper'.todo = t /\ keeper'.good = g /\ keeper'.reply = "none"
  BY <1>2, <1>3 DEF Loop
<1>5. t \in Seq(Calls) /\ \A i \in 1..Len(t) : t[i].awaited
  <2>1. keeper.todo \in Seq(Calls) /\ keeper.todo # <<>>
    BY DEF KeeperInv, LoopInv
  <2>2. /\ Tail(keeper.todo) \in Seq(Calls)
        /\ \A i \in 1..Len(Tail(keeper.todo)) :
             i + 1 \in 1..Len(keeper.todo) /\ Tail(keeper.todo)[i] = keeper.todo[i + 1]
    BY <2>1
  <2>. QED
    BY <1>2, <2>2 DEF KeeperInv, LoopInv
<1>6. p = "send" => t # <<>>
  BY <1>1, <1>2
<1>. QED
  BY <1>3, <1>4, <1>5, <1>6 DEF LoopInv

\* Calls the keeper still has to send, all of them to be waited for.
AwaitedCalls(s) == s \in Seq(Calls) /\ \A i \in 1..Len(s) : s[i].awaited

LEMMA EmptyAwaited == AwaitedCalls(<<>>)
BY DEF AwaitedCalls

LEMMA JoinAwaited ==
  ASSUME NEW s, NEW t, AwaitedCalls(s), AwaitedCalls(t)
  PROVE  AwaitedCalls(s \o t) /\ (s # <<>> \/ t # <<>> => s \o t # <<>>)
<1>1. s \in Seq(Calls) /\ t \in Seq(Calls)
  BY DEF AwaitedCalls
<1>2. PICK u : u = s \o t
  OBVIOUS
<1>3. /\ u \in Seq(Calls) /\ Len(u) = Len(s) + Len(t)
      /\ \A i \in 1..(Len(s) + Len(t)) : u[i] = IF i <= Len(s) THEN s[i] ELSE t[i - Len(s)]
  BY <1>1, <1>2, ConcatProperties, Zenon
<1>4. Len(s) \in Nat /\ Len(t) \in Nat
  BY <1>1
<1>4a. (s # <<>> => Len(s) # 0) /\ (t # <<>> => Len(t) # 0)
  BY <1>1, EmptySeq, Zenon
<1>5. \A i \in 1..Len(u) : u[i].awaited
  BY <1>3, <1>4 DEF AwaitedCalls
<1>6. s # <<>> \/ t # <<>> => u # <<>>
  <2>1. s # <<>> \/ t # <<>> => Len(u) # 0
    BY <1>3, <1>4, <1>4a
  <2>2. Len(<<>>) = 0
    BY EmptySeq
  <2>. QED
    BY <2>1, <2>2, Zenon
<1>. QED
  BY <1>2, <1>3, <1>5, <1>6, Zenon DEF AwaitedCalls

LEMMA CallAllAwaited ==
  ASSUME P!KeeperConstants, NEW op \in {"heartbeat", "aggregate_now", "submit_price"}
  PROVE  AwaitedCalls(P!CallAll(op)) /\ P!CallAll(op) # <<>>
<1>1. /\ Len(Providers) \in Nat /\ Len(Providers) # 0
      /\ \A i \in 1..Len(Providers) : Providers[i] \in P!Wallets
  BY EmptySeq DEF P!KeeperConstants
<1>2. PICK s : s = [i \in 1..Len(Providers) |-> P!Call(op, Providers[i])]
  OBVIOUS
<1>3. \A i \in 1..Len(Providers) : s[i] \in Calls /\ s[i].awaited
  BY <1>1, <1>2 DEF Calls, P!Call, Priced
<1>4. s \in Seq(Calls) /\ Len(s) = Len(Providers)
  BY <1>1, <1>2, <1>3
<1>5. s # <<>>
  <2>1. Len(<<>>) = 0
    BY EmptySeq
  <2>. QED
    BY <1>1, <1>4, <2>1, Zenon
<1>. QED
  BY <1>1, <1>2, <1>3, <1>4, <1>5 DEF AwaitedCalls, P!CallAll

\* The keeper's own steps but those that put a call in flight.
LEMMA QuietStep ==
  ASSUME KeeperInv, P!KeeperConstants,
         P!Wake \/ P!FetchPrice \/ P!NoFetch \/ P!Refused \/ P!Sent
  PROVE  KeeperInv'
<1>0. /\ FeedOK(feed, accepted) /\ LoopInv /\ FlightInv /\ TakenInv
  BY DEF KeeperInv
<1>a. ASSUME UNCHANGED <<feed, flight, accepted>>, LoopInv', TakenInv', keeper.pc # "wait" \/ keeper.reply # "none"
      PROVE  KeeperInv'
  <2>1. FeedOK(feed, accepted)'
    BY <1>0, <1>a DEF FeedOK, Heard
  <2>2. \A i \in 1..Len(flight) : ~flight[i].awaited
    BY <1>0, <1>a DEF FlightInv
  <2>3. FlightInv'
    BY <1>0, <1>a, <2>2 DEF FlightInv
  <2>. QED
    BY <1>a, <2>1, <2>3 DEF KeeperInv
<1>b. PICK a, b, c, d, e, f, g : keeper = Loop(a, b, c, d, e, f, g)
  BY <1>0 DEF LoopInv
<1>c. /\ keeper.pc = a /\ keeper.todo = b /\ keeper.lastTopo = c /\ keeper.lastHb = d
      /\ keeper.good = e /\ keeper.tries = f /\ keeper.reply = g
  BY <1>b DEF Loop
<1>1. CASE P!Refused
  <2>1. /\ keeper.pc = "wait" /\ keeper.reply = "reverted" /\ keeper.todo # <<>>
        /\ UNCHANGED <<feed, flight, saved, accepted, unread>>
    BY <1>0, <1>1 DEF P!Refused, LoopInv
  <2>2. PICK k, q : k = P!Onward(keeper) /\ q = keeper.good
    OBVIOUS
  <2>3. keeper' = k /\ q \in Priced
    BY <1>0, <1>1, <2>2 DEF P!Refused, LoopInv
  <2>4. /\ LoopInv' /\ keeper'.good = keeper.good /\ keeper'.pc \in {"sleep", "send"}
    BY <1>0, <2>1, <2>2, <2>3, OnwardInv DEF LoopInv
  <2>5. TakenInv'
    BY <1>0, <2>1, <2>4 DEF TakenInv, P!FallbackAccepted
  <2>. QED
    BY <1>a, <2>1, <2>4, <2>5
<1>2. CASE P!Sent
  <2>1. /\ keeper.pc = "wait" /\ keeper.reply # "none" /\ keeper.todo # <<>>
        /\ UNCHANGED <<feed, flight, accepted>>
        /\ unread \subseteq unread'
    BY <1>0, <1>2 DEF P!Sent, LoopInv
  <2>2. PICK k, p : k = P!Onward(keeper) /\ p = Head(keeper.todo).price
    OBVIOUS
  <2>3. p \in Priced
    <3>1. keeper.todo \in Seq(Calls) /\ keeper.todo # <<>>
      BY <1>0, <2>1 DEF LoopInv
    <3>2. Head(keeper.todo) \in Calls
      BY <3>1
    <3>. QED
      BY <2>2, <3>2 DEF Calls
  <2>4. p \in accepted \cup unread' \cup {P!NoPrice}
    BY <1>0, <1>2, <2>2 DEF P!Sent, TakenInv
  <2>5. PICK q \in Priced : /\ keeper' = [k EXCEPT !.good = q] \/ (keeper' = k /\ q = keeper.good)
                            /\ \/ q = keeper.good /\ saved' = saved
                               \/ q = p /\ saved' = p
    <3>1. P!KeepPrice(p)
      BY <1>2, <2>2 DEF P!Sent
    <3>2. CASE p = P!NoPrice
      BY <1>0, <2>2, <3>1, <3>2 DEF P!KeepPrice, LoopInv
    <3>3. CASE p # P!NoPrice
      BY <2>2, <2>3, <3>1, <3>3 DEF P!KeepPrice
    <3>. QED
      BY <3>2, <3>3
  <2>6. saved' \in Priced
    BY <1>0, <2>3, <2>5 DEF LoopInv
  <2>7. /\ LoopInv' /\ keeper'.good = q /\ keeper'.pc \in {"sleep", "send"}
    BY <2>1, <2>2, <2>5, <2>6, OnwardInv
  <2>8. TakenInv'
    BY <1>0, <2>1, <2>4, <2>5, <2>7 DEF TakenInv, P!FallbackAccepted
  <2>. QED
    BY <1>a, <2>1, <2>7, <2>8
<1>3. CASE P!NoFetch
  <2>1. /\ keeper.pc = "send" /\ keeper' = [keeper EXCEPT !.pc = "build"]
        /\ UNCHANGED <<feed, flight, saved, accepted, unread>>
    BY <1>3 DEF P!NoFetch
  <2>2. PICK n : n = "build"
    OBVIOUS
  <2>3. keeper' = Loop(n, b, c, d, e, f, g)
    BY <1>b, <2>1, <2>2 DEF Loop
  <2>4. keeper'.pc = "build" /\ keeper'.todo = b /\ keeper'.good = e /\ keeper'.reply = g
    BY <2>2, <2>3 DEF Loop
  <2>5. LoopInv'
    BY <1>0, <1>c, <2>1, <2>3, <2>4 DEF LoopInv
  <2>6. TakenInv'
    BY <1>0, <1>c, <2>1, <2>4 DEF TakenInv, P!FallbackAccepted
  <2>. QED
    BY <1>a, <2>1, <2>5, <2>6
<1>4. CASE P!FetchPrice
  <2>1. /\ keeper.pc = "send" /\ UNCHANGED <<feed, flight, saved, accepted, unread>>
        /\ keeper.todo # <<>> /\ keeper.todo \in Seq(Calls) /\ Head(keeper.todo).op = "submit_price"
    BY <1>0, <1>4 DEF P!FetchPrice, LoopInv
  <2>2. PICK p \in Priced :
          \/ keeper' = P!Onward(keeper)
          \/ keeper' = [keeper EXCEPT !.pc = "build", !.todo[1].price = p]
    BY <1>0, <1>4 DEF P!FetchPrice, LoopInv, Priced
  <2>3. CASE keeper' = P!Onward(keeper)
    <3>1. PICK k, q : k = P!Onward(keeper) /\ q = keeper.good
      OBVIOUS
    <3>2. keeper' = k /\ q \in Priced
      BY <1>0, <2>3, <3>1 DEF LoopInv
    <3>3. /\ LoopInv' /\ keeper'.good = keeper.good /\ keeper'.pc \in {"sleep", "send"}
      BY <1>0, <2>1, <3>1, <3>2, OnwardInv DEF LoopInv
    <3>4. TakenInv'
      BY <1>0, <2>1, <3>3 DEF TakenInv, P!FallbackAccepted
    <3>. QED
      BY <1>a, <2>1, <3>3, <3>4
  <2>4. CASE keeper' = [keeper EXCEPT !.pc = "build", !.todo[1].price = p]
    <3>1. PICK h : h = [b[1] EXCEPT !.price = p]
      OBVIOUS
    <3>2. PICK t : t = [b EXCEPT ![1] = h]
      OBVIOUS
    <3>3. PICK n : n = "build"
      OBVIOUS
    <3>4. PICK k : k = [keeper EXCEPT !.pc = n]
      OBVIOUS
    <3>5. k = Loop(n, b, c, d, e, f, g)
      BY <1>b, <3>4 DEF Loop
    <3>6. PICK m : m = [k EXCEPT !.todo = t]
      OBVIOUS
    <3>7. m = Loop(n, t, c, d, e, f, g)
      BY <3>5, <3>6 DEF Loop
    <3>8. keeper' = m
      BY <1>c, <2>4, <3>1, <3>2, <3>3, <3>4, <3>6
    <3>9. keeper'.pc = "build" /\ keeper'.todo = t /\ keeper'.good = e /\ keeper'.reply = g
      BY <3>3, <3>7, <3>8 DEF Loop
    <3>10. h \in Calls /\ h.awaited
      <4>1. b \in Seq(Calls) /\ b # <<>> /\ Len(b) \in Nat
        BY <1>c, <2>1
      <4>2. 1 \in 1..Len(b) /\ b[1] \in Calls /\ b[1].op = "submit_price"
        BY <1>c, <2>1, <4>1
      <4>3. b[1].awaited
        BY <1>0, <1>c, <4>2 DEF LoopInv
      <4>. QED
        BY <3>1, <4>2, <4>3 DEF Calls
    <3>11. t \in Seq(Calls) /\ t # <<>> /\ Len(t) = Len(b) /\ \A i \in 1..Len(t) : t[i].awaited
      <4>1. b \in Seq(Calls) /\ b # <<>>
        BY <1>c, <2>1
      <4>2. t \in Seq(Calls) /\ Len(t) = Len(b) /\ \A i \in 1..Len(b) : t[i] = IF i = 1 THEN h ELSE b[i]
        BY <3>2, <3>10, <4>1
      <4>. QED
        BY <1>0, <1>c, <3>10, <4>1, <4>2 DEF LoopInv
    <3>12. LoopInv'
      BY <1>0, <1>c, <2>1, <3>7, <3>8, <3>9, <3>11 DEF LoopInv
    <3>13. TakenInv'
      BY <1>0, <1>c, <2>1, <3>9 DEF TakenInv, P!FallbackAccepted
    <3>. QED
      BY <1>a, <2>1, <3>12, <3>13
  <2>. QED
    BY <2>2, <2>3, <2>4
<1>5. CASE P!Wake
  <2>1. /\ keeper.pc = "sleep" /\ UNCHANGED <<feed, flight, saved, accepted, unread>>
        /\ keeper.reply = "none"
    BY <1>0, <1>5 DEF P!Wake, LoopInv
  <2>2. PICK beat : beat = (height >= keeper.lastHb + HEARTBEAT_EVERY)
    OBVIOUS
  <2>3. PICK due : due = (height >= keeper.lastTopo + SUBMIT_EVERY)
    OBVIOUS
  <2>4. PICK beats : beats = IF beat THEN P!CallAll("heartbeat") ELSE <<>>
    OBVIOUS
  <2>5. PICK submits :
          submits = IF due THEN <<P!Call("aggregate_now", Providers[1])>> \o P!CallAll("submit_price")
                    ELSE <<>>
    OBVIOUS
  <2>6. PICK hb, topos : /\ hb = IF beat THEN height ELSE keeper.lastHb
                         /\ topos = IF due THEN height ELSE keeper.lastTopo
    OBVIOUS
  <2>7. PICK n, t : n = "send" /\ t = beats \o submits
    OBVIOUS
  <2>8. beat \/ due
    BY <1>5, <2>2, <2>3 DEF P!Wake
  <2>9. keeper' = [[[[keeper EXCEPT !.pc = n] EXCEPT !.todo = t] EXCEPT !.lastHb = hb] EXCEPT !.lastTopo = topos]
    BY <1>5, <2>2, <2>3, <2>4, <2>5, <2>6, <2>7 DEF P!Wake
  <2>10. PICK k : k = [keeper EXCEPT !.pc = n]
    OBVIOUS
  <2>11. PICK m : m = [k EXCEPT !.todo = t]
    OBVIOUS
  <2>12. PICK q : q = [m EXCEPT !.lastHb = hb]
    OBVIOUS
  <2>13. PICK r : r = [q EXCEPT !.lastTopo = topos]
    OBVIOUS
  <2>14. k = Loop(n, b, c, d, e, f, g)
    BY <1>b, <2>10 DEF Loop
  <2>15. m = Loop(n, t, c, d, e, f, g)
    BY <2>11, <2>14 DEF Loop
  <2>16. q = Loop(n, t, c, hb, e, f, g)
    BY <2>12, <2>15 DEF Loop
  <2>17. r = Loop(n, t, topos, hb, e, f, g)
    BY <2>13, <2>16 DEF Loop
  <2>18. keeper' = r
    BY <2>9, <2>10, <2>11, <2>12, <2>13
  <2>19. /\ keeper'.pc = "send" /\ keeper'.todo = t /\ keeper'.good = e /\ keeper'.reply = g
    BY <2>7, <2>17, <2>18 DEF Loop
  <2>20. ASSUME NEW op \in {"heartbeat", "aggregate_now", "submit_price"}
         PROVE  AwaitedCalls(P!CallAll(op)) /\ P!CallAll(op) # <<>>
    BY <2>20, CallAllAwaited
  <2>21. AwaitedCalls(beats) /\ (beat => beats # <<>>)
    BY <2>4, <2>20, EmptyAwaited
  <2>22. AwaitedCalls(submits) /\ (due => submits # <<>>)
    <3>1. AwaitedCalls(<<P!Call("aggregate_now", Providers[1])>>)
      <4>1. Providers[1] \in P!Wallets
        BY DEF P!KeeperConstants
      <4>. QED
        BY <4>1 DEF AwaitedCalls, Calls, P!Call, Priced
    <3>2. AwaitedCalls(P!CallAll("submit_price")) /\ P!CallAll("submit_price") # <<>>
      BY <2>20
    <3>. QED
      BY <2>5, <3>1, <3>2, JoinAwaited, EmptyAwaited, Zenon
  <2>23. AwaitedCalls(t) /\ t # <<>>
    BY <2>7, <2>8, <2>21, <2>22, JoinAwaited, Zenon
  <2>24. LoopInv'
    BY <1>0, <1>c, <2>1, <2>17, <2>18, <2>19, <2>23 DEF LoopInv, AwaitedCalls
  <2>25. TakenInv'
    BY <1>0, <1>c, <2>1, <2>19 DEF TakenInv, P!FallbackAccepted
  <2>. QED
    BY <1>a, <2>1, <2>24, <2>25
<1>. QED
  BY <1>1, <1>2, <1>3, <1>4, <1>5

LEMMA ForgetAwaited ==
  ASSUME NEW s \in Seq(Calls)
  PROVE  /\ [i \in DOMAIN s |-> [s[i] EXCEPT !.awaited = FALSE]] \in Seq(Calls)
         /\ \A i \in 1..Len([j \in DOMAIN s |-> [s[j] EXCEPT !.awaited = FALSE]]) :
              ~[j \in DOMAIN s |-> [s[j] EXCEPT !.awaited = FALSE]][i].awaited
<1>1. Len(s) \in Nat /\ DOMAIN s = 1..Len(s) /\ \A i \in 1..Len(s) : s[i] \in Calls
  OBVIOUS
<1>2. PICK t : t = [i \in 1..Len(s) |-> [s[i] EXCEPT !.awaited = FALSE]]
  OBVIOUS
<1>3. \A i \in 1..Len(s) : t[i] \in Calls /\ ~t[i].awaited
  <2>1. \A c \in Calls : [c EXCEPT !.awaited = FALSE] \in Calls /\ ~[c EXCEPT !.awaited = FALSE].awaited
    BY DEF Calls
  <2>. QED
    BY <1>1, <1>2, <2>1
<1>4. t \in Seq(Calls) /\ Len(t) = Len(s)
  BY <1>1, <1>2, <1>3
<1>5. t = [j \in DOMAIN s |-> [s[j] EXCEPT !.awaited = FALSE]]
  BY <1>1, <1>2
<1>. QED
  BY <1>3, <1>4, <1>5

LEMMA AppendCall ==
  ASSUME NEW s \in Seq(Calls), NEW c \in Calls
  PROVE  /\ Append(s, c) \in Seq(Calls) /\ Len(Append(s, c)) = Len(s) + 1 /\ Len(s) \in Nat
         /\ \A i \in 1..Len(s) : Append(s, c)[i] = s[i]
         /\ Append(s, c)[Len(s) + 1] = c
<1>1. Len(s) \in Nat
  OBVIOUS
<1>. QED
  BY <1>1, AppendProperties

\* The steps of the keeper that put a call in flight, or leave one behind.
LEMMA SendStep ==
  ASSUME KeeperInv, P!KeeperConstants,
         P!Build \/ P!BuildUnanswered \/ P!GiveUp \/ P!KillKeeper
  PROVE  KeeperInv'
<1>0. /\ FeedOK(feed, accepted) /\ LoopInv /\ FlightInv /\ TakenInv
  BY DEF KeeperInv
<1>1. UNCHANGED <<feed, saved, accepted, unread>> /\ keeper.pc # "sleep"
  BY DEF P!Build, P!BuildUnanswered, P!GiveUp, P!KillKeeper
<1>2. FeedOK(feed, accepted)'
  BY <1>0, <1>1 DEF FeedOK, Heard
<1>3. /\ keeper.todo # <<>> /\ keeper.todo \in Seq(Calls) /\ flight \in Seq(Calls)
      /\ Head(keeper.todo) \in Calls /\ Head(keeper.todo).awaited /\ saved' \in Priced
  <2>1. keeper.todo # <<>> /\ keeper.todo \in Seq(Calls) /\ flight \in Seq(Calls) /\ saved' \in Priced
    BY <1>0, <1>1 DEF LoopInv, FlightInv
  <2>2. 1 \in 1..Len(keeper.todo) /\ Head(keeper.todo) = keeper.todo[1] /\ keeper.todo[1] \in Calls
    BY <2>1
  <2>. QED
    BY <1>0, <2>1, <2>2 DEF LoopInv
<1>4. ASSUME flight' \in Seq(Calls), \A i \in 1..Len(flight') : ~flight'[i].awaited
      PROVE  FlightInv'
  BY <1>4 DEF FlightInv
<1>5. keeper.pc # "wait" => \A i \in 1..Len(flight) : ~flight[i].awaited
  BY <1>0 DEF FlightInv
<1>6. ASSUME keeper' = P!Onward(keeper)
      PROVE  LoopInv' /\ TakenInv'
  <2>1. PICK k, q : k = P!Onward(keeper) /\ q = keeper.good
    OBVIOUS
  <2>2. keeper' = k /\ q \in Priced
    BY <1>0, <1>6, <2>1 DEF LoopInv
  <2>3. /\ LoopInv' /\ keeper'.good = keeper.good /\ keeper'.pc \in {"sleep", "send"}
    BY <1>3, <2>1, <2>2, OnwardInv
  <2>4. TakenInv'
    BY <1>0, <1>1, <2>3 DEF TakenInv, P!FallbackAccepted
  <2>. QED
    BY <2>3, <2>4
<1>b. PICK a, b, c, d, e, f, g : keeper = Loop(a, b, c, d, e, f, g)
  BY <1>0 DEF LoopInv
<1>c. /\ keeper.pc = a /\ keeper.todo = b /\ keeper.lastTopo = c /\ keeper.lastHb = d
      /\ keeper.good = e /\ keeper.tries = f /\ keeper.reply = g
  BY <1>b DEF Loop
<1>7. CASE P!Build
  <2>1. /\ keeper.pc = "build" /\ keeper.reply = "none"
        /\ flight' = Append(flight, Head(keeper.todo)) /\ keeper' = [keeper EXCEPT !.pc = "wait"]
    BY <1>0, <1>7 DEF P!Build, LoopInv
  <2>2. PICK n : n = "wait"
    OBVIOUS
  <2>3. keeper' = Loop(n, b, c, d, e, f, g)
    BY <1>b, <2>1, <2>2 DEF Loop
  <2>4. /\ keeper'.pc = "wait" /\ keeper'.todo = b /\ keeper'.good = e /\ keeper'.reply = g
    BY <2>2, <2>3 DEF Loop
  <2>5. LoopInv'
    BY <1>0, <1>1, <1>c, <1>3, <2>3, <2>4 DEF LoopInv
  <2>6. g = "none"
    BY <1>c, <2>1
  <2>7. TakenInv'
    BY <1>0, <1>1, <1>c, <2>4, <2>6 DEF TakenInv, P!FallbackAccepted
  <2>8. FlightInv'
    <3>1. PICK h : h = Head(keeper.todo)
      OBVIOUS
    <3>2. h \in Calls /\ h.awaited /\ flight' = Append(flight, h) /\ h = Head(keeper'.todo)
      BY <1>c, <1>3, <2>1, <2>4, <3>1
    <3>3. /\ flight' \in Seq(Calls) /\ Len(flight') = Len(flight) + 1 /\ Len(flight) \in Nat
          /\ \A i \in 1..Len(flight) : flight'[i] = flight[i]
          /\ flight'[Len(flight) + 1] = h
      BY <1>3, <3>2, AppendCall
    <3>4. \A i \in 1..Len(flight) : ~flight[i].awaited
      BY <1>5, <2>1
    <3>5. \A i \in 1..Len(flight') : flight'[i].awaited => i = Len(flight) + 1
      BY <3>3, <3>4
    <3>. QED
      BY <2>4, <2>6, <3>2, <3>3, <3>5 DEF FlightInv
  <2>. QED
    BY <1>2, <2>5, <2>7, <2>8 DEF KeeperInv
<1>8. CASE P!BuildUnanswered
  <2>1. /\ keeper.pc = "build" /\ keeper.reply = "none"
        /\ flight' \in {flight, Append(flight, [Head(keeper.todo) EXCEPT !.awaited = FALSE])}
        /\ \/ keeper' = [keeper EXCEPT !.tries = keeper.tries + 1]
           \/ keeper' = P!Onward(keeper)
    BY <1>0, <1>8 DEF P!BuildUnanswered, LoopInv
  <2>2. \A i \in 1..Len(flight) : ~flight[i].awaited
    BY <1>5, <2>1
  <2>3. FlightInv'
    <3>1. CASE flight' = flight
      BY <1>3, <1>4, <2>2, <3>1
    <3>2. CASE flight' = Append(flight, [Head(keeper.todo) EXCEPT !.awaited = FALSE])
      <4>1. PICK h : h = [Head(keeper.todo) EXCEPT !.awaited = FALSE]
        OBVIOUS
      <4>2. h \in Calls /\ ~h.awaited
        BY <1>3, <4>1 DEF Calls
      <4>3. /\ flight' \in Seq(Calls) /\ Len(flight') = Len(flight) + 1 /\ Len(flight) \in Nat
            /\ \A i \in 1..Len(flight) : flight'[i] = flight[i]
            /\ flight'[Len(flight) + 1] = h
        BY <1>3, <3>2, <4>1, <4>2, AppendCall
      <4>4. \A i \in 1..Len(flight') : ~flight'[i].awaited
        BY <2>2, <4>2, <4>3
      <4>. QED
        BY <1>4, <4>3, <4>4
    <3>. QED
      BY <2>1, <3>1, <3>2
  <2>4. LoopInv' /\ TakenInv'
    <3>1. CASE keeper' = [keeper EXCEPT !.tries = keeper.tries + 1]
      <4>1. PICK n : n = keeper.tries + 1
        OBVIOUS
      <4>2. keeper' = [keeper EXCEPT !.tries = n]
        BY <3>1, <4>1
      <4>3. keeper' = Loop(a, b, c, d, e, n, g)
        BY <1>b, <4>2 DEF Loop
      <4>4. /\ keeper'.pc = a /\ keeper'.todo = b /\ keeper'.good = e /\ keeper'.reply = g
        BY <4>3 DEF Loop
      <4>5. LoopInv'
        BY <1>0, <1>c, <1>3, <4>3, <4>4 DEF LoopInv
      <4>6. TakenInv'
        BY <1>0, <1>1, <1>c, <4>4 DEF TakenInv, P!FallbackAccepted
      <4>. QED
        BY <4>5, <4>6
    <3>. QED
      BY <1>6, <2>1, <3>1
  <2>. QED
    BY <1>2, <2>3, <2>4 DEF KeeperInv
<1>9. CASE P!GiveUp
  <2>1. /\ keeper' = P!Onward(keeper)
        /\ flight' = [i \in DOMAIN flight |-> [flight[i] EXCEPT !.awaited = FALSE]]
    BY <1>9 DEF P!GiveUp
  <2>2. FlightInv'
    BY <1>3, <1>4, <2>1, ForgetAwaited
  <2>. QED
    BY <1>2, <1>6, <2>1, <2>2 DEF KeeperInv
<1>10. CASE P!KillKeeper
  <2>1. /\ keeper' = P!Restarted
        /\ flight' = [i \in DOMAIN flight |-> [flight[i] EXCEPT !.awaited = FALSE]]
    BY <1>10 DEF P!KillKeeper
  <2>2. FlightInv'
    BY <1>3, <1>4, <2>1, ForgetAwaited
  <2>3. PICK s, o, z, n, v : s = "sleep" /\ o = <<>> /\ z = 0 /\ n = "none" /\ v = saved
    OBVIOUS
  <2>4. keeper' = Loop(s, o, z, z, v, z, n)
    BY <2>1, <2>3 DEF P!Restarted, Loop
  <2>5. /\ keeper'.pc = "sleep" /\ keeper'.todo = o /\ keeper'.good = saved /\ keeper'.reply = "none"
    BY <2>3, <2>4 DEF Loop
  <2>6. o \in Seq(Calls) /\ \A i \in 1..Len(o) : o[i].awaited
    BY <2>3, EmptyAwaited DEF AwaitedCalls
  <2>7. LoopInv'
    BY <1>0, <1>3, <2>4, <2>5, <2>6 DEF LoopInv
  <2>8. TakenInv'
    BY <1>0, <1>1, <2>5 DEF TakenInv, P!FallbackAccepted
  <2>. QED
    BY <1>2, <2>2, <2>7, <2>8 DEF KeeperInv
<1>. QED
  BY <1>7, <1>8, <1>9, <1>10

LEMMA RemoveCall ==
  ASSUME NEW s \in Seq(Calls), NEW i \in 1..Len(s)
  PROVE  /\ P!RemoveAt(s, i) \in Seq(Calls) /\ Len(s) \in Nat
         /\ Len(P!RemoveAt(s, i)) = Len(s) - 1
         /\ \A j \in 1..(Len(s) - 1) : P!RemoveAt(s, i)[j] = s[IF j < i THEN j ELSE j + 1]
<1>1. Len(s) \in Nat /\ i \in Nat /\ i >= 1 /\ i <= Len(s)
  OBVIOUS
<1>2. PICK l : l = SubSeq(s, 1, i - 1)
  OBVIOUS
<1>3. PICK r : r = SubSeq(s, i + 1, Len(s))
  OBVIOUS
<1>4. l \in Seq(Calls) /\ Len(l) = i - 1 /\ \A j \in 1..(i - 1) : l[j] = s[j]
  BY <1>1, <1>2, SubSeqProperties
<1>5. r \in Seq(Calls) /\ Len(r) = Len(s) - i /\ \A j \in 1..(Len(s) - i) : r[j] = s[i + j]
  <2>1. i + 1 \in 1..(Len(s) + 1) /\ Len(s) \in i..Len(s)
    BY <1>1
  <2>. QED
    BY <1>1, <1>3, <2>1, SubSeqProperties
<1>6. PICK u : u = l \o r
  OBVIOUS
<1>7. /\ u \in Seq(Calls) /\ Len(u) = Len(l) + Len(r)
      /\ \A j \in 1..(Len(l) + Len(r)) : u[j] = IF j <= Len(l) THEN l[j] ELSE r[j - Len(l)]
  BY <1>4, <1>5, <1>6, ConcatProperties, Zenon
<1>8. Len(u) = Len(s) - 1
  BY <1>1, <1>4, <1>5, <1>7
<1>9. ASSUME NEW j \in 1..(Len(s) - 1)
      PROVE  u[j] = s[IF j < i THEN j ELSE j + 1]
  <2>1. CASE j < i
    <3>1. j \in 1..(Len(l) + Len(r)) /\ j <= Len(l) /\ j \in 1..(i - 1)
      BY <1>1, <1>4, <1>5, <1>9, <2>1
    <3>2. u[j] = l[j]
      BY <1>7, <3>1
    <3>. QED
      BY <1>4, <2>1, <3>1, <3>2
  <2>2. CASE ~(j < i)
    <3>1. /\ j \in 1..(Len(l) + Len(r)) /\ ~(j <= Len(l)) /\ j - Len(l) \in 1..(Len(s) - i)
          /\ i + (j - Len(l)) = j + 1
      BY <1>1, <1>4, <1>5, <1>9, <2>2
    <3>2. u[j] = r[j - Len(l)]
      BY <1>7, <3>1
    <3>3. r[j - Len(l)] = s[i + (j - Len(l))]
      BY <1>5, <3>1
    <3>. QED
      BY <2>2, <3>1, <3>2, <3>3
  <2>. QED
    BY <2>1, <2>2
<1>10. P!RemoveAt(s, i) = u
  BY <1>2, <1>3, <1>6 DEF P!RemoveAt
<1>. QED
  BY <1>1, <1>7, <1>8, <1>9, <1>10

\* What a call of the keeper makes of the feed when it lands.
LEMMA ExecuteFeed ==
  ASSUME FeedOK(feed, accepted), P!KeeperConstants, NEW call, NEW h, P!Execute(call, h)
  PROVE  /\ FeedOK(feed, accepted)' /\ accepted \subseteq accepted'
         /\ \/ P!Answer(call, "reverted")
            \/ /\ P!Answer(call, "ok")
               /\ call.op = "submit_price" => call.price \in accepted'
<1>1. CASE call.op = "heartbeat" /\ P!Answer(call, "ok") /\ UNCHANGED <<feed, slashed, accepted>>
  <2>1. FeedOK(feed, accepted)'
    BY <1>1 DEF FeedOK, Heard
  <2>. QED
    BY <1>1, <2>1
<1>2. CASE /\ call.op = "aggregate_now" /\ P!Answer(call, "ok")
           /\ feed' = P!TryAggregate(feed, h).feed /\ UNCHANGED accepted
  <2>1. PICK f, A : f = P!TryAggregate(feed, h).feed /\ A = accepted
    OBVIOUS
  <2>2. FeedOK(f, A)
    BY <2>1, AggregateTold
  <2>3. FeedOK(feed, accepted)'
    BY <1>2, <2>1, <2>2 DEF FeedOK, Heard
  <2>. QED
    BY <1>2, <2>3
<1>3. CASE /\ call.op = "submit_price" /\ P!Takes(feed, call) /\ P!Answer(call, "ok")
           /\ feed' = P!TryAggregate(P!Submitted(feed, call, h), h).feed
           /\ accepted' = accepted \cup {call.price}
  <2>1. PICK f, A : f = P!Submitted(feed, call, h) /\ A = accepted \cup {call.price}
    OBVIOUS
  <2>2. FeedOK(f, A)
    BY <1>3, <2>1, SubmittedTold
  <2>3. PICK g : g = P!TryAggregate(f, h).feed
    OBVIOUS
  <2>4. FeedOK(g, A)
    BY <2>2, <2>3, AggregateTold
  <2>5. FeedOK(feed, accepted)'
    BY <1>3, <2>1, <2>3, <2>4 DEF FeedOK, Heard
  <2>. QED
    BY <1>3, <2>5
<1>4. CASE P!Answer(call, "reverted") /\ UNCHANGED <<feed, slashed, accepted>>
  <2>1. FeedOK(feed, accepted)'
    BY <1>4 DEF FeedOK, Heard
  <2>. QED
    BY <1>4, <2>1
<1>. QED
  BY <1>1, <1>2, <1>3, <1>4 DEF P!Execute

\* A block takes a call of the keeper, and tells it what became of it.
LEMMA LandStep ==
  ASSUME KeeperInv, P!KeeperConstants, NEW i \in DOMAIN flight, NEW h,
         flight' = P!RemoveAt(flight, i), P!Execute(flight[i], h), UNCHANGED <<saved, unread>>
  PROVE  KeeperInv'
<1>0. /\ FeedOK(feed, accepted) /\ LoopInv /\ FlightInv /\ TakenInv
  BY DEF KeeperInv
<1>1. flight \in Seq(Calls) /\ i \in 1..Len(flight) /\ flight[i] \in Calls
  BY <1>0 DEF FlightInv
<1>2. PICK call : call = flight[i]
  OBVIOUS
<1>3. /\ FeedOK(feed, accepted)' /\ accepted \subseteq accepted'
      /\ \/ P!Answer(call, "reverted")
         \/ /\ P!Answer(call, "ok")
            /\ call.op = "submit_price" => call.price \in accepted'
  <2>1. PICK k : k = h
    OBVIOUS
  <2>2. P!Execute(call, k)
    BY <1>2, <2>1 DEF P!Execute, P!Answer
  <2>. QED
    BY <1>0, <2>2, ExecuteFeed
<1>4. /\ flight' \in Seq(Calls) /\ Len(flight) \in Nat /\ Len(flight') = Len(flight) - 1
      /\ \A j \in 1..(Len(flight) - 1) : flight'[j] = flight[IF j < i THEN j ELSE j + 1]
  BY <1>1, RemoveCall
<1>4a. ASSUME NEW j \in 1..Len(flight')
       PROVE  \E m \in 1..Len(flight) : flight'[j] = flight[m] /\ m = IF j < i THEN j ELSE j + 1
  <2>1. /\ j \in 1..(Len(flight) - 1) /\ i \in Int /\ j \in Int
        /\ (IF j < i THEN j ELSE j + 1) \in 1..Len(flight)
    BY <1>1, <1>4, <1>4a
  <2>. QED
    BY <1>4, <2>1
<1>5. CASE ~call.awaited
  <2>1. keeper' = keeper
    BY <1>3, <1>5 DEF P!Answer
  <2>2. LoopInv'
    BY <1>0, <2>1 DEF LoopInv
  <2>3. TakenInv'
    BY <1>0, <1>3, <2>1 DEF TakenInv, P!FallbackAccepted
  <2>4. FlightInv'
    <3>1. ASSUME NEW j \in 1..Len(flight'), flight'[j].awaited
          PROVE  /\ keeper'.pc = "wait" /\ keeper'.reply = "none" /\ flight'[j] = Head(keeper'.todo)
                 /\ \A k \in 1..Len(flight') : flight'[k].awaited => k = j
      <4>1. PICK m \in 1..Len(flight) : flight'[j] = flight[m] /\ m = IF j < i THEN j ELSE j + 1
        BY <1>4a, <3>1
      <4>2. /\ keeper.pc = "wait" /\ keeper.reply = "none" /\ flight[m] = Head(keeper.todo)
            /\ \A k \in 1..Len(flight) : flight[k].awaited => k = m
        BY <1>0, <3>1, <4>1 DEF FlightInv
      <4>3. ASSUME NEW k \in 1..Len(flight'), flight'[k].awaited
            PROVE  k = j
        <5>1. PICK n \in 1..Len(flight) : flight'[k] = flight[n] /\ n = IF k < i THEN k ELSE k + 1
          BY <1>4a, <4>3
        <5>2. n = m
          BY <4>2, <4>3, <5>1
        <5>3. j \in Int /\ k \in Int /\ i \in Int
          BY <1>1, <1>4, <3>1, <4>3
        <5>. QED
          BY <4>1, <5>1, <5>2, <5>3
      <4>. QED
        BY <2>1, <4>1, <4>2, <4>3
    <3>. QED
      BY <1>4, <3>1 DEF FlightInv
  <2>. QED
    BY <1>3, <2>2, <2>3, <2>4 DEF KeeperInv
<1>6. CASE call.awaited
  <2>1. /\ keeper.pc = "wait" /\ keeper.reply = "none" /\ call = Head(keeper.todo)
        /\ \A j \in 1..Len(flight) : flight[j].awaited => j = i
    BY <1>0, <1>1, <1>2, <1>6 DEF FlightInv
  <2>2. FlightInv'
    <3>1. ASSUME NEW j \in 1..Len(flight')
          PROVE  ~flight'[j].awaited
      <4>1. PICK m \in 1..Len(flight) : flight'[j] = flight[m] /\ m = IF j < i THEN j ELSE j + 1
        BY <1>4a, <3>1
      <4>2. m # i
        <5>1. j \in Int /\ i \in Int
          BY <1>1, <1>4, <3>1
        <5>. QED
          BY <4>1, <5>1
      <4>. QED
        BY <2>1, <4>1, <4>2
    <3>. QED
      BY <1>4, <3>1 DEF FlightInv
  <2>3. PICK r \in {"ok", "reverted"} :
          /\ keeper' = [keeper EXCEPT !.reply = r]
          /\ r = "ok" /\ call.op = "submit_price" => call.price \in accepted'
    BY <1>3, <1>6 DEF P!Answer
  <2>b. PICK a, b, c, d, e, f, g : keeper = Loop(a, b, c, d, e, f, g)
    BY <1>0 DEF LoopInv
  <2>c. /\ keeper.pc = a /\ keeper.todo = b /\ keeper.lastTopo = c /\ keeper.lastHb = d
        /\ keeper.good = e /\ keeper.tries = f /\ keeper.reply = g
    BY <2>b DEF Loop
  <2>4. keeper' = Loop(a, b, c, d, e, f, r)
    BY <2>b, <2>3 DEF Loop
  <2>5. /\ keeper'.pc = a /\ keeper'.todo = b /\ keeper'.good = e /\ keeper'.reply = r
    BY <2>4 DEF Loop
  <2>6. LoopInv'
    BY <1>0, <2>1, <2>c, <2>4, <2>5 DEF LoopInv
  <2>7. r = "ok" => call.price \in accepted' \cup {P!NoPrice}
    BY <1>1, <1>2, <2>3 DEF Calls
  <2>8. TakenInv'
    BY <1>0, <1>3, <2>1, <2>c, <2>5, <2>7 DEF TakenInv, P!FallbackAccepted
  <2>. QED
    BY <1>3, <2>2, <2>6, <2>8 DEF KeeperInv
<1>. QED
  BY <1>5, <1>6

LEMMA KeeperStep ==
  ASSUME KeeperInv, P!KeeperConstants, [P!KeeperNext]_P!keeperVars
  PROVE  KeeperInv'
<1>0. /\ FeedOK(feed, accepted) /\ LoopInv /\ FlightInv /\ TakenInv
  BY DEF KeeperInv
<1>1. ASSUME UNCHANGED <<flight, keeper, saved, accepted, unread>>, FeedOK(feed', accepted)
      PROVE  KeeperInv'
  <2>1. FeedOK(feed, accepted)'
    BY <1>1 DEF FeedOK, Heard
  <2>2. LoopInv' /\ FlightInv' /\ TakenInv'
    BY <1>0, <1>1 DEF LoopInv, FlightInv, TakenInv, P!FallbackAccepted
  <2>. QED
    BY <2>1, <2>2 DEF KeeperInv
<1>2. CASE UNCHANGED <<feed, flight, keeper, saved, accepted, unread>>
  BY <1>0, <1>1, <1>2
<1>3. CASE P!ResetBreaker
  <2>1. /\ feed' = [feed EXCEPT !.tripped = FALSE]
        /\ UNCHANGED <<flight, keeper, saved, accepted, unread>>
    BY <1>3 DEF P!ResetBreaker
  <2>2. PICK c, u, pr, l, tr, a : feed = Feed(c, u, pr, l, tr, a)
    BY <1>0 DEF FeedOK
  <2>3. PICK z : z = FALSE
    OBVIOUS
  <2>4. feed' = Feed(c, u, pr, l, z, a)
    BY <2>1, <2>2, <2>3 DEF Feed
  <2>5. /\ feed.subs = u /\ feed'.subs = u /\ feed.provided = pr /\ feed'.provided = pr
        /\ feed.agg = a /\ feed'.agg = a
    BY <2>2, <2>4 DEF Feed
  <2>6. FeedOK(feed', accepted)
    BY <1>0, <2>4, <2>5 DEF FeedOK, Heard
  <2>. QED
    BY <1>1, <2>1, <2>6
<1>4. CASE P!Block
  <2>1. UNCHANGED <<saved, unread>>
    BY <1>4 DEF P!Block
  <2>2. CASE UNCHANGED <<feed, flight, slashed, keeper, accepted>>
    BY <1>2, <2>1, <2>2
  <2>3. CASE \E i \in DOMAIN flight :
                flight' = P!RemoveAt(flight, i) /\ P!Execute(flight[i], height + 1)
    BY <2>1, <2>3, LandStep
  <2>. QED
    BY <1>4, <2>2, <2>3 DEF P!Block
<1>. QED
  BY <1>2, <1>3, <1>4, QuietStep, SendStep DEF P!KeeperNext, P!keeperVars

-----------------------------------------------------------------------------
(***************************************************************************)
(* The agents of the tokens, the relayer and the oracle keeper, whatever   *)
(* the daemon, the wallet, the chain and the breaker do and whenever each  *)
(* of them is restarted: a record is only anchored of a text that is true  *)
(* of the chain, at most once; a published price is one a provider said of *)
(* it, in range, close to the others and fresh; and the price fallen back  *)
(* on is one the feed took.                                                *)
(***************************************************************************)
THEOREM AgentsAlways == R!Spec /\ P!KeeperSpec => []AgentsSound
<1>. P!KeeperConstants
  BY AgentConstants
<1>1. P!KeeperInit => KeeperInv
  <2>. SUFFICES ASSUME P!KeeperInit
                PROVE  KeeperInv
    OBVIOUS
  <2>1. /\ flight = <<>> /\ keeper = P!Restarted /\ saved = P!NoPrice
        /\ feed = Feed(0, {}, {}, 0, FALSE, [price |-> P!NoPrice, topo |-> 0, from |-> {}])
    BY DEF P!KeeperInit, Feed
  <2>2. feed.subs = {} /\ feed.agg.price = P!NoPrice
    BY <2>1 DEF Feed
  <2>3. FeedOK(feed, accepted)
    BY <2>1, <2>2 DEF FeedOK, Heard
  <2>4. keeper = Loop("sleep", <<>>, 0, 0, P!NoPrice, 0, "none")
    BY <2>1 DEF P!Restarted, Loop
  <2>5. /\ keeper.pc = "sleep" /\ keeper.todo = <<>> /\ keeper.good = P!NoPrice
        /\ keeper.reply = "none"
    BY <2>4 DEF Loop
  <2>6. AwaitedCalls(<<>>)
    BY EmptyAwaited
  <2>7. LoopInv
    BY <2>1, <2>4, <2>5, <2>6 DEF LoopInv, AwaitedCalls, Priced
  <2>8. FlightInv
    <3>1. <<>> \in Seq(Calls) /\ Len(<<>>) = 0
      BY EmptySeq
    <3>. QED
      BY <2>1, <3>1 DEF FlightInv
  <2>9. TakenInv
    BY <2>1, <2>5 DEF TakenInv, P!FallbackAccepted
  <2>. QED
    BY <2>3, <2>7, <2>8, <2>9 DEF KeeperInv
<1>2. KeeperInv /\ [P!KeeperNext]_P!keeperVars => KeeperInv'
  BY KeeperStep
<1>3. KeeperInv => P!PublishedHonest /\ P!FallbackAccepted
  BY DEF KeeperInv, FeedOK, Heard, TakenInv, P!PublishedHonest
<1>. QED
  BY <1>1, <1>2, <1>3, RelayerOnce, RelayerHonest, PTL DEF P!KeeperSpec, AgentsSound
=============================================================================
