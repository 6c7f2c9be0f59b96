----------------------------- MODULE SwapRoutes -----------------------------
(***************************************************************************)
(* POST /v1/swap/quote: the orders of the pair, their candidates, a        *)
(* simulated purchase and the quote made of it; POST /v1/swap/calldata: one *)
(* library call, whose approval, transaction or error becomes the answer.  *)
(*                                                                         *)
(* The listing is OrderPages'.  Amounts are small numbers, a price is the  *)
(* input that one unit of output costs.  What the library makes of prices, *)
(* and which candidates it buys from, is open.                             *)
(***************************************************************************)
EXTENDS OrderPages

CONSTANTS
    Takes, Gives,   \* the token each order takes in, and gives
    Capacity,       \* the amount each order can give
    Price,          \* what it asks for one unit
    Amounts,        \* the amounts that requests ask for
    Unparsable,     \* an amount that is no number
    DefaultPageSize,\* what the library takes for a page when not told
    ChainId         \* CHAIN_ID, the one chain that calldata are made for

ASSUME TokensAssumption == DOMAIN Takes = Orders /\ DOMAIN Gives = Orders
ASSUME MarketAssumption ==
    {Capacity, Price} \subseteq [Orders -> Nat \ {0}]
    /\ Amounts \subseteq Nat \ {0} /\ Unparsable \notin Amounts
ASSUME PageAssumption == DefaultPageSize \in Nat \ {0}

VARIABLE swap

\* `page` is the orders of the pair, then the candidates made of them, `bought` what
\* the simulation buys from each.  History: `known`, the orders of the pair listed
\* when the request came; `said`, the error or the result of the library.
IdleSwap ==
    [pc |-> "idle", kind |-> "quote", sell |-> Unparsable, buy |-> Unparsable,
     amount |-> Unparsable, page |-> {}, bought |-> <<>>, status |-> 0,
     known |-> {}, said |-> "nothing"]

SwapAt(kind, pc) == swap.kind = kind /\ swap.pc = pc
Ends(status, said) == swap' = [swap EXCEPT !.pc = "reply", !.status = status, !.said = said]

\* The library's filter, active orders of the pair: their places in the listing.
OfPair(sell, buy) == {i \in DOMAIN orders : Takes[orders[i]] = sell /\ Gives[orders[i]] = buy}

StartSwap(kind, sell, buy, amount) ==
    /\ swap.pc = "idle"
    /\ swap' = [IdleSwap EXCEPT !.pc = "orders", !.kind = kind, !.sell = sell, !.buy = buy,
            !.amount = amount,
            !.known = {orders[i] : i \in OfPair(sell, buy)}]
    /\ UNCHANGED vars

-----------------------------------------------------------------------------
\* POST /v1/swap/quote

\* get_orders_for_pair: a page of the library's own size.
ReadPair ==
    LET page == Slice(Increasing(OfPair(swap.sell, swap.buy)), 1, DefaultPageSize)
    IN  /\ SwapAt("quote", "orders")
        /\ IF page = <<>> THEN Ends(404, "no liquidity")
           ELSE swap' = [swap EXCEPT !.pc = "candidates", !.page = {orders[i] : i \in ToSet(page)}]
        /\ UNCHANGED vars

\* build_candidates_for_pair: the orders that have a price now.  Only then is the
\* amount looked at.
BuildCandidates ==
    /\ SwapAt("quote", "candidates")
    /\ \E candidates \in SUBSET swap.page :
        IF candidates = {} THEN Ends(404, "no candidates")
        ELSE IF swap.amount = Unparsable THEN Ends(400, "bad amount")
        ELSE swap' = [swap EXCEPT !.pc = "simulate", !.page = candidates]
    /\ UNCHANGED vars

Total(bought) == MapThenSumSet(LAMBDA o : bought[o], DOMAIN bought)
Cost(bought) == MapThenSumSet(LAMBDA o : bought[o] * Price[o], DOMAIN bought)

\* What simulate_buy_over_candidates may return: at most the amount, from each
\* candidate at most what it has.
Purchases(candidates, amount) ==
    {bought \in [candidates -> 0..amount] :
        (\A o \in candidates : bought[o] <= Capacity[o]) /\ Total(bought) <= amount}

\* A purchase without legs is no quote; one that falls short of the amount is.
Simulate ==
    /\ SwapAt("quote", "simulate")
    /\ \E bought \in Purchases(swap.page, swap.amount) :
        IF Total(bought) = 0 THEN Ends(404, "no legs")
        ELSE swap' = [swap EXCEPT !.pc = "reply", !.status = 200, !.said = "purchase",
                                  !.page = {}, !.bought = bought]
    /\ UNCHANGED vars

\* The quote.  A ratio is <<dividend, divisor>>.
\* Mutant: a quote for the amount that was asked for.
QuoteOfAmount ==
    [output_amount |-> swap.amount, estimated_output |-> swap.amount,
     estimated_input |-> Cost(swap.bought), ratio |-> <<Cost(swap.bought), swap.amount>>]
Quote ==
    [output_amount |-> swap.amount, estimated_output |-> Total(swap.bought),
     estimated_input |-> Cost(swap.bought),
     ratio |-> <<Cost(swap.bought), Total(swap.bought)>>]

\* Mutant: a failed call is an empty answer.
QuoteCallFailsUnseen ==
    /\ swap.kind = "quote" /\ swap.pc \in {"orders", "candidates", "simulate"}
    /\ Ends(404, "failure")
    /\ UNCHANGED vars

\* The query, the candidates, the simulation, or the arithmetic after it fails.
QuoteCallFails ==
    /\ swap.kind = "quote" /\ swap.pc \in {"orders", "candidates", "simulate"}
    /\ Ends(500, "failure")
    /\ UNCHANGED vars

-----------------------------------------------------------------------------
\* POST /v1/swap/calldata

LiquidityErrors == {"NoLiquidity", "InsufficientLiquidity"}
RequestErrors ==
    {"SameTokenPair", "NonPositiveAmount", "NegativePriceCap", "FromHexError", "Float",
     "PreflightError"}

\* map_raindex_error
StatusOf(error) ==
    IF error \in LiquidityErrors THEN 404 ELSE IF error \in RequestErrors THEN 400 ELSE 500

\* What get_take_orders_calldata may say of the request: of the orders of its
\* sell_token and buy_token on its one chain, an approval if one is needed first, or
\* the transaction.  Its errors are not only the client's: Float is also what its own
\* arithmetic and a bad price cap give, PreflightError also an RPC call that fails,
\* and it may have no liquidity to offer of a pair with orders.
Sayings(sell, buy, amount) ==
    LET listed == {i \in OfPair(sell, buy) : Chain[orders[i]] = ChainId}
    IN  IF sell = buy THEN RequestErrors
        ELSE LiquidityErrors \cup (RequestErrors \ {"SameTokenPair"})
             \cup (IF amount = Unparsable \/ listed = {} THEN {} ELSE {"approval", "transaction"})

\* process_swap_calldata; the input token is sold and the output token bought.  A
\* result that is neither an approval nor a transaction, and an expected_sell that
\* cannot be written, are internal errors.
TakeOrders ==
    /\ SwapAt("calldata", "orders")
    /\ \/ \E said \in Sayings(swap.sell, swap.buy, swap.amount) :
            IF said \in {"approval", "transaction"} THEN Ends(200, said)
            ELSE Ends(StatusOf(said), said)
       \/ Ends(StatusOf("failure"), "failure")
    /\ UNCHANGED vars

\* The answer to an approval has no transaction yet, the answer with the
\* transaction no approvals.
Calldata ==
    [data      |-> IF swap.said = "transaction" THEN "transaction" ELSE "empty",
     approvals |-> IF swap.said = "approval" THEN <<swap.sell>> ELSE <<>>]

RespondSwap ==
    /\ swap.pc = "reply"
    /\ swap' = IdleSwap
    /\ UNCHANGED vars

Tokens == {Takes[o] : o \in Orders} \cup {Gives[o] : o \in Orders}

SwapInit == swap = IdleSwap
SwapBegins ==
    \E kind \in {"quote", "calldata"}, sell, buy \in Tokens, amount \in Amounts \cup {Unparsable} :
        StartSwap(kind, sell, buy, amount)
SwapServes ==
    ReadPair \/ BuildCandidates \/ Simulate \/ QuoteCallFails \/ TakeOrders \/ RespondSwap

-----------------------------------------------------------------------------
SwapTypeOK ==
    /\ swap.pc \in {"idle", "orders", "candidates", "simulate", "reply"}
    /\ swap.kind \in {"quote", "calldata"} /\ swap.status \in {0, 200, 400, 404, 500}
    /\ {swap.sell, swap.buy} \subseteq Tokens \cup {Unparsable}
    /\ swap.amount \in Amounts \cup {Unparsable}
    /\ swap.page \cup swap.known \cup DOMAIN swap.bought \subseteq Orders

SwapReplied(kind, status) == SwapAt(kind, "reply") /\ swap.status = status

\* A quote promises no more than was asked for, and no more than listed orders of
\* that very pair can give; its input is what those orders ask, and its ratio is
\* that of its own two amounts, also when the orders fall short of the amount.
QuoteIsCovered ==
    SwapReplied("quote", 200) =>
        LET quote == Quote
            legs  == {o \in DOMAIN swap.bought : swap.bought[o] > 0}
        IN  /\ \A o \in legs : /\ o \in ToSet(orders)
                               /\ Takes[o] = swap.sell /\ Gives[o] = swap.buy
            /\ quote.estimated_output <= swap.amount
            /\ quote.estimated_output <= MapThenSumSet(LAMBDA o : Capacity[o], legs)
            /\ quote.estimated_input >= quote.estimated_output * Min({Price[o] : o \in legs})
            /\ quote.estimated_input <= quote.estimated_output * Max({Price[o] : o \in legs})
            /\ quote.ratio[1] * quote.estimated_output = quote.ratio[2] * quote.estimated_input

\* A quote never says "no liquidity" of a pair that had an order when the request
\* came; a failed call of it passes neither for a lack of liquidity nor for the
\* client's mistake; 400 is for an amount that is no number, and no such amount is
\* quoted.  Calldata promise none of that: they say "no liquidity" of a pair with
\* orders too, and 400 for the library's own Float and preflight errors
\* (map_raindex_error).  A client that gets no approvals from them to make gets the
\* transaction.
SwapErrorsAreHonest ==
    /\ SwapAt("quote", "reply") =>
        /\ swap.said = "no liquidity" => swap.known = {}
        /\ swap.status = 500 <=> swap.said = "failure"
        /\ swap.status = 400 => swap.amount = Unparsable
        /\ swap.status = 200 => swap.amount # Unparsable
    /\ SwapReplied("calldata", 200) => (Calldata.approvals = <<>> <=> Calldata.data # "empty")
=============================================================================
