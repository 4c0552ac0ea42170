----------------------------- MODULE SdkCommunity -----------------------------
(***************************************************************************)
(* sdk/xvault/xvault/community.py: the formulas and deposits a frontend    *)
(* computes before it calls CommunityLaunch.  The reader of the same file  *)
(* asks the daemon for a method the client library does not have.          *)
(***************************************************************************)
EXTENDS CommunityLaunch

fee_take(amount, bps) == (amount * bps) \div BPS_DENOM

buy_real_(xr, yr, y0, vx, net) == (yr * net) \div (xr + net)
buy_tokens_out(xr, yr, y0, vx, net) == ((yr + y0) * net) \div (xr + vx + net)
sell_xel_out(xr, yr, y0, vx, tokens) == ((xr + vx) * tokens) \div (yr + y0 + tokens)

graduated(xr, yr, y0, vx, gdx) == xr >= gdx /\ xr * y0 >= yr * vx

spot_price(xr, yr, y0, vx, scale) ==
  IF yr + y0 = 0 THEN 0
  ELSE LET price == ((xr + vx) * scale) \div (yr + y0)
       IN  IF price <= U64_MAX THEN price ELSE U64_MAX
market_cap(xr, yr, y0, vx, supply) == spot_price(xr, yr, y0, vx, supply)
launch_fdv(vx, y0, supply) == (vx * supply) \div (2 * y0)

launch_deposits(fee, budget) == fee + budget
-----------------------------------------------------------------------------
\* community.py:58, "the contract's exact integer formulas": on every curve that
\* trades, what the frontend quotes for a buy or a sell is what the trade pays,
\* the graduation it announces is the one the contract takes, and the whale guard
\* it describes (a quote above the real inventory) is where the buy is refused; a
\* coin is worth its launch valuation when it is born.
MirrorExact ==
  \A i \in Ids : Trading(i) =>
    LET c == coin[i]
    IN  /\ \A d \in Deposits :
             buy_tokens_out(c.xr, c.yr, c.y0, c.vx, d - fee_take(d, TradingFee(c)))
               = BuyOut(c, d - FeeTake(d, TradingFee(c)))
        /\ \A d \in Sales : sell_xel_out(c.xr, c.yr, c.y0, c.vx, d) = SellOut(c, d)
        /\ graduated(c.xr, c.yr, c.y0, c.vx, c.gx) = Graduates(c)
        /\ c.tc = 0 => market_cap(c.xr, c.yr, c.y0, c.vx, c.supply)
                         = launch_fdv(c.vx, c.y0, c.supply)

\* A live coin is live on every screen, and in the contract: C2's point is taken
\* by the trade that reaches it.
ShownRight == MirrorExact /\ GraduationNotMissed
=============================================================================
