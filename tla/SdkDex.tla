-------------------------------- MODULE SdkDex --------------------------------
(***************************************************************************)
(* sdk/xvault/xvault/dex.py and the dex commands of cli.py: a provider's   *)
(* terminal next to LaunchDEX.                                             *)
(*                                                                         *)
(* The SDK repeats the contract's formulas, and reads its slots one RPC at *)
(* a time: blocks of other wallets' calls fall between any two reads, and  *)
(* between the last read and the inclusion of what the command sends.  The   *)
(* wallet runs one command at a time.                                      *)
(***************************************************************************)
EXTENDS LaunchDEX

CONSTANTS Me,      \* the terminal's wallet
          Parts    \* amounts of parts its user asks to remove

ASSUME SdkConstants == Me \in Wallets /\ Parts \subseteq Amounts /\ 0 \in MinOuts

VARIABLES
  term,   \* the command that runs: its name, parts, and slots read so far
  call    \* the transaction it has broadcast, Nothing before and after
-----------------------------------------------------------------------------
(* The formulas of dex.py.                                                 *)

fee_take(amount, bps) == (amount * bps) \div BPS_DENOM

fee_after_(x, y, xelIn, bps) == LET out == (y * xelIn) \div (x + xelIn) IN out - fee_take(out, bps)
xel_to_tokens_out(x, y, xelIn, bps) ==
  LET net == xelIn - fee_take(xelIn, bps) IN (y * net) \div (x + net)
tokens_to_xel_out(x, y, tokensIn, bps) ==
  LET net == tokensIn - fee_take(tokensIn, bps) IN (x * net) \div (y + net)

fee_split(fee, lpBps) == [admin |-> fee - fee_take(fee, lpBps), lp |-> fee_take(fee, lpBps)]
accrual_increment(lpPart, depth) == IF depth <= 0 THEN 0 ELSE (lpPart * ACC_SCALE) \div depth

lp_earnings_all_(accrued, snapshot, parts) == (accrued * parts) \div ACC_SCALE
lp_earnings(accrued, snapshot, parts) ==
  IF parts <= 0 \/ accrued <= snapshot THEN 0
  ELSE ((accrued - snapshot) * parts) \div ACC_SCALE

\* the pair that joins the pool; a refusal has no pair
Refused == [ok |-> FALSE, x |-> 0, y |-> 0]
liquidity_fit(x, y, xelIn, tokIn) ==
  LET needTok == (y * xelIn) \div x
      needXel == (x * tokIn) \div y
      eff == IF tokIn >= needTok THEN [ok |-> TRUE, x |-> xelIn, y |-> needTok]
                                 ELSE [ok |-> xelIn >= needXel, x |-> needXel, y |-> tokIn]
  IN IF eff.ok /\ eff.x >= 1 /\ eff.y >= 1 /\ eff.x >= MIN_LP_ADD_XEL THEN eff ELSE Refused

remove_outs(x, y, parts, depth) ==
  LET outX == (parts * x) \div depth
      outY == (parts * y) \div depth
  IN IF /\ depth > 0 /\ parts > 0 /\ parts < depth
        /\ outX >= 1 /\ outY >= 1 /\ outX < x /\ outY < y
     THEN [ok |-> TRUE, x |-> outX, y |-> outY] ELSE Refused

\* DexReader.quotes and the label of DexReader.pool
Quote(a, s, d) ==
  LET res == IF Live(a) THEN pool[a].res ELSE Zero
  IN IF d = 0 THEN 0
     ELSE IF s = "x" THEN xel_to_tokens_out(res["x"], res["y"], d, config.swapFee)
                     ELSE tokens_to_xel_out(res["x"], res["y"], d, config.swapFee)
status_label(a) ==
  IF config.paused THEN "emergency" ELSE IF pool[a].bp THEN "buys-paused" ELSE "live"
-----------------------------------------------------------------------------
(* What DexReader reads, one RPC each, in its order.                       *)

Lp == <<"parts", "cx", "cy", "ax", "sx", "ay", "sy", "w">>
Depths == <<"xr", "yr", "tl">>
Reads(cmd) == [lp |-> Lp \o Depths, claim |-> Lp, remove |-> Lp \o Depths \o Lp][cmd]

\* an unwritten slot reads as 0
Slot(a, f) ==
  LET me == pos[a][Me]
      p == IF Live(a) THEN pool[a] ELSE [res |-> Zero, acc |-> Zero, tl |-> 0]
  IN [parts |-> me.parts, w |-> me.w, cx |-> me.claim["x"], cy |-> me.claim["y"],
      sx |-> me.snap["x"], sy |-> me.snap["y"], ax |-> p.acc["x"], ay |-> p.acc["y"],
      xr |-> p.res["x"], yr |-> p.res["y"], tl |-> p.tl][f]

\* lp_info over the slots read from position n on
Info(got, n) ==
  [parts |-> got[n + 1], w |-> got[n + 8],
   available |-> [x |-> got[n + 2] + lp_earnings(got[n + 4], got[n + 5], got[n + 1]),
                  y |-> got[n + 3] + lp_earnings(got[n + 6], got[n + 7], got[n + 1])]]

Nothing == [cmd |-> "none", a |-> XEL, n |-> 0, shown |-> Zero]
Shell == [cmd |-> "none", a |-> XEL, n |-> 0, got |-> <<>>, owed |-> Zero]

SdkInit == term = Shell /\ call = Nothing

Keep == UNCHANGED vars

\* cmd_dex_lp, cmd_dex_claim_lp_fees, cmd_dex_remove_liquidity
Start(a) ==
  /\ term = Shell /\ call = Nothing /\ Live(a)
  /\ \E cmd \in {"lp", "claim", "remove"}, n \in Parts :
       term' = [cmd |-> cmd, a |-> a, n |-> IF cmd = "remove" THEN n ELSE 0,
                got |-> <<>>, owed |-> Crystallised(a, Me)]
  /\ Keep /\ UNCHANGED call

Unread == Len(term.got) < Len(Reads(term.cmd))
ReadSlot ==
  /\ term # Shell /\ Unread
  /\ term' = [term EXCEPT !.got = Append(@, Slot(term.a, Reads(term.cmd)[Len(@) + 1]))]
  /\ Keep /\ UNCHANGED call

\* the checks a command makes on what it has read
RemovePasses_(got, n) == remove_outs(got[9], got[10], n, got[11]).ok
RemovePasses(got, n) ==
  /\ n <= Info(got, 0).w /\ n <= Info(got, 11).w
  /\ remove_outs(got[9], got[10], n, got[11]).ok
Passes ==
  /\ ~Unread
  /\ \/ term.cmd = "claim" /\ Info(term.got, 0).parts > 0
     \/ term.cmd = "remove" /\ RemovePasses(term.got, term.n)

\* the command is over, or goes on to WalletClient.invoke
Send ==
  /\ term # Shell /\ Passes
  /\ call' = [cmd |-> term.cmd, a |-> term.a, n |-> term.n,
              shown |-> Info(term.got, 0).available]
  /\ term' = Shell
  /\ Keep
Quit ==
  /\ term # Shell /\ ~Passes
  /\ term' = Shell
  /\ Keep /\ UNCHANGED call

\* the chain takes the call, or reverts it; no floor was asked for
Accepted == IF call.cmd = "claim" THEN ClaimAccepted(Me, call.a)
                                  ELSE RemoveAccepted(Me, call.a, call.n, Zero)
Include ==
  /\ call # Nothing
  /\ IF ~Accepted THEN Keep
     ELSE IF call.cmd = "claim" THEN ClaimLpFees(Me, call.a)
                                ELSE RemoveLiquidity(Me, call.a, call.n, Zero)
  /\ call' = Nothing
  /\ UNCHANGED term

Terminal == (\E a \in Assets : Start(a)) \/ ReadSlot \/ Send \/ Quit \/ Include
AtRest == term = Shell /\ call = Nothing

\* The other wallets' calls, and the wallet's own between its commands: while
\* one runs, no other transaction of Me moves a position it holds.
Elsewhere ==
  /\ Next /\ UNCHANGED <<term, call>>
  /\ AtRest \/ \A a \in Assets : Live(a) => pos'[a][Me] = pos[a][Me]

SdkSpec == Init /\ SdkInit /\ [][Elsewhere \/ Terminal]_<<vars, term, call>>
-----------------------------------------------------------------------------
(* What the SDK is for.                                                    *)

\* dex.py:4-6, "byte-identical to the contract": in every state of a pool, the
\* quotes are what the swap would pay, the split and the accrual what it would
\* book, the fit and the exit what the entries would move, with a refusal where
\* they refuse for the same reason, the earnings what a claim would pay, and the
\* label says whether buys are open.
MirrorExact ==
  \A a \in Assets : Live(a) =>
    LET res == pool[a].res
    IN /\ \A s \in Side, d \in Amounts : Quote(a, s, d) = AmountOut(a, s, d)
       /\ \A s \in Side, d \in Amounts \ {0} :
            LET t == Terms(a, s, d) split == fee_split(t.fee, config.lpShare)
            IN t.lpPart = split.lp /\ t.accUp = accrual_increment(split.lp, pool[a].tl)
       /\ \A in \in [Side -> Amounts \ {0}] :
            LET fit == liquidity_fit(res["x"], res["y"], in["x"], in["y"])
                eff == Fit(res, in)
            IN IF fit.ok THEN eff["x"] = fit.x /\ eff["y"] = fit.y
               ELSE \/ \E s \in Side : eff[s] < 1 \/ eff[s] > in[s]
                    \/ eff["x"] < MIN_LP_ADD_XEL
       /\ \A u \in Wallets, n \in Amounts :
            n \in 1..pos[a][u].w =>
              LET quote == remove_outs(res["x"], res["y"], n, pool[a].tl)
              IN IF quote.ok THEN Slice(a, n)["x"] = quote.x /\ Slice(a, n)["y"] = quote.y
                             ELSE ~RemoveAccepted(u, a, n, Zero)
       /\ \A u \in Wallets, s \in Side :
            Crystallised(a, u)[s] = pos[a][u].claim[s]
              + lp_earnings(pool[a].acc[s], pos[a][u].snap[s], pos[a][u].parts)
       /\ (status_label(a) = "live") = BuyGate(a)

\* cli.py:885, "claimable now": whatever trades fell between the eight reads,
\* the earnings shown lie between those owed when the command began and those
\* owed now.
ShownIsOwed ==
  term # Shell /\ Len(term.got) >= Len(Lp) =>
    \A s \in Side :
      LET shown == Info(term.got, 0).available[s]
      IN term.owed[s] <= shown /\ shown <= Crystallised(term.a, Me)[s]

\* A claim with something to pay, and a removal still worth a unit on each side,
\* land: what was checked holds until the inclusion whatever others do.
CheckedLands ==
  call # Nothing =>
    /\ call.cmd = "claim" /\ (\E s \in Side : call.shown[s] > 0) => Accepted
    /\ call.cmd = "remove" /\ (\A s \in Side : Slice(call.a, call.n)[s] >= 1) => Accepted

\* A provider at a terminal is told and sends the truth.
ClientTrue == MirrorExact /\ ShownIsOwed /\ CheckedLands
=============================================================================
