------------------------------ MODULE PriceKeeper ------------------------------
(***************************************************************************)
(* The oracle keeper (legacy/scripts/oracle_keeper3.py), which keeps one   *)
(* feed alive for its provider wallets, and the feed (StakedOracle.slx) it *)
(* submits to.  The keeper sends one call after the other and waits for    *)
(* each; a call may land after the keeper gave it up, an answer of the     *)
(* wallet may be lost after the call was taken, and the keeper may die.    *)
(* The wallets, the exchanges and the contract of the miners (stakes,      *)
(* slashing) are external.  One block takes at most one call.              *)
(***************************************************************************)
EXTENDS Integers, Sequences, SequencesExt, FiniteSetsExt

CONSTANTS
  Providers,        \* the keeper's wallets, in order
  Stake,            \* [provider -> what it and its delegators have staked]
  Quotes,           \* prices the exchanges may quote; zero is none of them
  MinQuote, MaxQuote,  \* the range of the feed
  AGG_BLOCKS, MAX_STALE, MAX_DEV, CB_THRESH,  \* StakedOracle's settings
  SUBMIT_EVERY, HEARTBEAT_EVERY, ATTEMPTS,    \* the keeper's
  MaxHeight, MaxFaults  \* bounds

VARIABLES
  height,   \* the chain's topoheight
  feed,     \* the feed: cycle, submissions of it, who made one, last aggregation
  flight,   \* calls sent and not in a block yet
  slashed,  \* providers the feed had slashed
  keeper,   \* the keeper's loop
  saved,    \* the cache file: the last good price, 0 for none
  faults,   \* history: answers lost, waits given up, deaths
  accepted, \* ghost: prices the feed took
  unread    \* ghost: prices whose revert the keeper could not read in time

keeperVars == <<height, feed, flight, slashed, keeper, saved, faults, accepted, unread>>

NoPrice == 0
Wallets == ToSet(Providers)
KeeperConstants ==
  /\ MinQuote \in Nat /\ MaxQuote \in Nat /\ MAX_DEV \in Nat
  /\ Providers \in Seq(Wallets) /\ Providers # <<>>

Trouble == faults < MaxFaults /\ faults' = faults + 1

-----------------------------------------------------------------------------
(***************************************************************************)
(* StakedOracle.                                                           *)
(***************************************************************************)
\* the larger a share of the stake, the less of it counts
Weight(stake, total) ==
  LET share == (stake * 10000) \div total
      factor == IF share <= 800 THEN 10000
                ELSE IF share >= 2000 THEN 3000
                ELSE 10000 - ((share - 800) * 7000) \div 1200
  IN  (stake * factor) \div 10000

\* the lowest price up to which there is more than half of the weight
WeightedMedian(subs) ==
  LET total == MapThenSumSet(LAMBDA s : Stake[s.provider], subs)
      weight(some) == MapThenSumSet(LAMBDA s : Weight(Stake[s.provider], total), some)
      prices == {s.price : s \in subs}
      passed == {p \in prices : weight({s \in subs : s.price <= p}) > weight(subs) \div 2}
  IN  IF weight(subs) = 0 THEN Min(prices) ELSE Min(passed \cup {Max(prices)})

Bps(p, q, base) == ((IF p > q THEN p - q ELSE q - p) * 10000) \div base
NextCycle(f, h) ==
  [f EXCEPT !.cycle = @ + 1, !.subs = {}, !.provided = {}, !.lastAgg = h]

\* what aggregate makes of the feed at height h, and whom it has slashed
Aggregate(f, h) ==
  LET fresh == {s \in f.subs : h - s.topo <= MAX_STALE}
      prices == {s.price : s \in fresh}
      median == WeightedMedian(fresh)
      done(g, who) == [feed |-> g, slashed |-> who]
  IN  IF fresh = {} THEN done(NextCycle(f, h), {})
      ELSE IF Bps(Max(prices), Min(prices), median) > MAX_DEV
      THEN done(NextCycle(f, h), {s.provider : s \in fresh})
      ELSE IF f.agg.price > 0 /\ Bps(median, f.agg.price, f.agg.price) > CB_THRESH
      \* the cycle stays, and with it who has submitted in it
      THEN done([f EXCEPT !.subs = {}, !.tripped = TRUE], {})
      ELSE done([NextCycle(f, h) EXCEPT !.agg = [price |-> median, topo |-> h, from |-> fresh]], {})

TryAggregate(f, h) ==
  IF h < f.lastAgg + AGG_BLOCKS THEN [feed |-> f, slashed |-> {}] ELSE Aggregate(f, h)

\* mutant: a provider may submit twice in a cycle
NoOnce_(f, call) ==
  /\ call.price > 0 /\ call.price \in MinQuote..MaxQuote /\ ~f.tripped
Takes(f, call) ==
  /\ call.price > 0 /\ call.price \in MinQuote..MaxQuote /\ ~f.tripped
  /\ call.by \notin f.provided

Submitted(f, call, h) ==
  [f EXCEPT !.subs = @ \cup {[provider |-> call.by, price |-> call.price, topo |-> h]},
            !.provided = @ \cup {call.by}]

-----------------------------------------------------------------------------
(***************************************************************************)
(* The chain.                                                              *)
(***************************************************************************)
\* the keeper's answer, when it still waits for this call
Answer(call, result) ==
  keeper' = IF call.awaited THEN [keeper EXCEPT !.reply = result] ELSE keeper

\* a slashed miner may have fallen below the stake of a provider
Execute(call, h) ==
  \/ /\ call.op = "heartbeat" /\ Answer(call, "ok")
     /\ UNCHANGED <<feed, slashed, accepted>>
  \/ /\ call.op = "aggregate_now" /\ Answer(call, "ok")
     /\ LET out == TryAggregate(feed, h)
        IN  feed' = out.feed /\ slashed' = slashed \cup out.slashed
     /\ UNCHANGED accepted
  \/ /\ call.op = "submit_price" /\ Takes(feed, call) /\ Answer(call, "ok")
     /\ LET out == TryAggregate(Submitted(feed, call, h), h)
        IN  feed' = out.feed /\ slashed' = slashed \cup out.slashed
     /\ accepted' = accepted \cup {call.price}
  \/ /\ call.op = "submit_price" /\ (~Takes(feed, call) \/ call.by \in slashed)
     /\ Answer(call, "reverted")
     /\ UNCHANGED <<feed, slashed, accepted>>

\* a block, with or without a call; the calls of one wallet land in order
Block ==
  /\ height < MaxHeight /\ height' = height + 1
  /\ \/ UNCHANGED <<feed, flight, slashed, keeper, accepted>>
     \/ \E i \in DOMAIN flight :
          /\ \A j \in 1..(i - 1) : flight[j].by # flight[i].by
          /\ flight' = RemoveAt(flight, i) /\ Execute(flight[i], height + 1)
  /\ UNCHANGED <<saved, faults, unread>>

\* the guardian or the admin resets the circuit breaker
ResetBreaker ==
  /\ feed.tripped /\ feed' = [feed EXCEPT !.tripped = FALSE]
  /\ UNCHANGED <<height, flight, slashed, keeper, saved, faults, accepted, unread>>

-----------------------------------------------------------------------------
(***************************************************************************)
(* The keeper.                                                             *)
(***************************************************************************)
Call(op, by) == [op |-> op, by |-> by, price |-> NoPrice, awaited |-> TRUE]
CallAll(op) == [i \in 1..Len(Providers) |-> Call(op, Providers[i])]

Restarted ==
  [pc |-> "sleep", todo |-> <<>>, lastTopo |-> 0, lastHb |-> 0, good |-> saved,
   tries |-> 0, reply |-> "none"]

KeeperInit ==
  /\ height = SUBMIT_EVERY /\ flight = <<>> /\ slashed = {} /\ saved = NoPrice
  /\ feed = [cycle |-> 0, subs |-> {}, provided |-> {}, lastAgg |-> 0, tripped |-> FALSE,
             agg |-> [price |-> NoPrice, topo |-> 0, from |-> {}]]
  /\ keeper = Restarted /\ faults = 0 /\ accepted = {} /\ unread = {}

\* one turn of the loop: heartbeats when they are due, and a poke and the
\* submissions when those are
Wake ==
  /\ keeper.pc = "sleep"
  /\ LET beat == height >= keeper.lastHb + HEARTBEAT_EVERY
         submit == height >= keeper.lastTopo + SUBMIT_EVERY
         beats == IF beat THEN CallAll("heartbeat") ELSE <<>>
         submits == IF submit
                    THEN <<Call("aggregate_now", Providers[1])>> \o CallAll("submit_price")
                    ELSE <<>>
     IN  /\ beat \/ submit
         /\ keeper' = [keeper EXCEPT
              !.pc = "send", !.todo = beats \o submits,
              !.lastHb = IF beat THEN height ELSE @,
              !.lastTopo = IF submit THEN height ELSE @]
  /\ UNCHANGED <<height, feed, flight, slashed, saved, faults, accepted, unread>>

Onward(k) ==
  [k EXCEPT !.todo = Tail(@), !.tries = 0, !.reply = "none",
            !.pc = IF Len(k.todo) = 1 THEN "sleep" ELSE "send"]

\* a price of the exchanges, or the last good one, or the provider is skipped
FetchPrice ==
  /\ keeper.pc = "send" /\ Head(keeper.todo).op = "submit_price"
  /\ \E quote \in Quotes \cup {NoPrice} :
       LET price == IF quote # NoPrice THEN quote ELSE keeper.good
       IN  keeper' = IF price = NoPrice THEN Onward(keeper)
                     ELSE [keeper EXCEPT !.pc = "build", !.todo[1].price = price]
  /\ UNCHANGED <<height, feed, flight, slashed, saved, faults, accepted, unread>>
NoFetch ==
  /\ keeper.pc = "send" /\ Head(keeper.todo).op # "submit_price"
  /\ keeper' = [keeper EXCEPT !.pc = "build"]
  /\ UNCHANGED <<height, feed, flight, slashed, saved, faults, accepted, unread>>

Build ==
  /\ keeper.pc = "build"
  /\ flight' = Append(flight, Head(keeper.todo)) /\ keeper' = [keeper EXCEPT !.pc = "wait"]
  /\ UNCHANGED <<height, feed, slashed, saved, faults, accepted, unread>>

\* _with_retries: without an answer the call is built again, taken or not; a
\* call the wallet refuses for good is not
BuildUnanswered ==
  /\ keeper.pc = "build" /\ Trouble
  /\ flight' \in {flight, Append(flight, [Head(keeper.todo) EXCEPT !.awaited = FALSE])}
  /\ \/ keeper.tries + 1 < ATTEMPTS /\ keeper' = [keeper EXCEPT !.tries = @ + 1]
     \/ keeper' = Onward(keeper)
  /\ UNCHANGED <<height, feed, slashed, saved, accepted, unread>>

\* the wait ended without the call in a block; it may land later
GiveUp ==
  /\ keeper.pc = "wait" /\ keeper.reply = "none" /\ Trouble
  /\ keeper' = Onward(keeper)
  /\ flight' = [i \in DOMAIN flight |-> [flight[i] EXCEPT !.awaited = FALSE]]
  /\ UNCHANGED <<height, feed, slashed, saved, accepted, unread>>

\* the price that was taken is the one to fall back on, in memory and on disk
KeepPrice(price) ==
  IF price = NoPrice THEN keeper' = Onward(keeper) /\ UNCHANGED saved
  ELSE keeper' = [Onward(keeper) EXCEPT !.good = price] /\ saved' = price

\* mutant: whatever was sent is kept
KeepsAny_ ==
  /\ keeper.pc = "wait" /\ keeper.reply = "reverted"
  /\ KeepPrice(Head(keeper.todo).price)
  /\ UNCHANGED <<height, feed, flight, slashed, faults, accepted, unread>>
Refused ==
  /\ keeper.pc = "wait" /\ keeper.reply = "reverted"
  /\ keeper' = Onward(keeper)
  /\ UNCHANGED <<height, feed, flight, slashed, saved, faults, accepted, unread>>

\* revert_reason says nothing of a revert whose log does not come in time
Sent ==
  /\ keeper.pc = "wait" /\ keeper.reply # "none"
  /\ KeepPrice(Head(keeper.todo).price)
  /\ IF keeper.reply = "ok" THEN UNCHANGED <<faults, unread>>
     ELSE Trouble /\ unread' = unread \cup {Head(keeper.todo).price}
  /\ UNCHANGED <<height, feed, flight, slashed, accepted>>

KillKeeper ==
  /\ keeper.pc # "sleep" /\ Trouble
  /\ keeper' = Restarted
  /\ flight' = [i \in DOMAIN flight |-> [flight[i] EXCEPT !.awaited = FALSE]]
  /\ UNCHANGED <<height, feed, slashed, saved, accepted, unread>>

KeeperNext ==
  \/ Block \/ ResetBreaker
  \/ Wake \/ FetchPrice \/ NoFetch \/ Build \/ BuildUnanswered \/ GiveUp \/ Refused \/ Sent
  \/ KillKeeper

KeeperSpec == KeeperInit /\ [][KeeperNext]_keeperVars

-----------------------------------------------------------------------------
(***************************************************************************)
(* A published price is what providers said of it: one of the prices it    *)
(* was made of, each said by a different provider, in range, close to it,  *)
(* and not long before.  Calls that are built twice, land late or meet a   *)
(* breaker that was reset in the middle of a cycle change nothing of it.   *)
(***************************************************************************)
PublishedHonest ==
  LET from == feed.agg.from IN
  feed.agg.price # NoPrice =>
    /\ \E s \in from : s.price = feed.agg.price
    /\ \A s, t \in from : s.provider = t.provider => s = t
    /\ \A s \in from :
         /\ s.price \in accepted /\ Bps(s.price, feed.agg.price, feed.agg.price) <= MAX_DEV
         /\ feed.agg.topo - s.topo <= MAX_STALE

(***************************************************************************)
(* The price the keeper falls back on when no exchange answers, after a    *)
(* restart too, is one the feed accepted, unless the chain did not tell    *)
(* in time that it was refused.                                            *)
(***************************************************************************)
FallbackAccepted == {keeper.good, saved} \subseteq accepted \cup unread \cup {NoPrice}
=============================================================================
