----------------------------- MODULE SingleOrder -----------------------------
(***************************************************************************)
(* The requests about one order, by its hash:                              *)
(*                                                                         *)
(*   GET /v1/order/{order_hash}: the order, its first quote, its trades and *)
(*   its vaults, each from a call of its own;                              *)
(*                                                                         *)
(*   POST /v1/order/cancel: the transaction that removes it, and a summary *)
(*   of the vaults that then hold something.                               *)
(*                                                                         *)
(* The listing (orders, trades) is OrderPages'.  An order that was added to *)
(* two orderbooks has one hash and is listed twice.  A vault is its        *)
(* position in vaults_list.                                                *)
(***************************************************************************)
EXTENDS OrderPages

CONSTANTS
    Hashes,         \* the hashes that requests ask for
    HashOf,         \* the hash of each order
    VaultKinds      \* the vault types of each order, in vaults_list's order

ASSUME HashAssumption == HashOf \in [Orders -> Hashes]
ASSUME VaultsAssumption ==
    /\ DOMAIN VaultKinds = Orders
    /\ \A order \in Orders : VaultKinds[order] \in Seq({"input", "output", "both"})

VARIABLE single

\* `order` is the order found and `holding` its vaults with a balance, as the
\* query returned them.  History: `known`, whether an order of that hash was listed
\* when the request came, `since`, the number of trades then; `priced`, whether the
\* first quote had a price; `broke`, whether a call failed.
IdleSingle ==
    [pc |-> "idle", kind |-> "detail", hash |-> NoRatio, order |-> NoRatio, holding |-> {},
     ratio |-> NoRatio, trades |-> {}, status |-> 0, known |-> FALSE, since |-> 0,
     priced |-> FALSE, broke |-> FALSE]

SingleAt(kind, pc) == single.kind = kind /\ single.pc = pc
Reply(status) == [single EXCEPT !.pc = "reply", !.status = status]

-----------------------------------------------------------------------------
\* The lists are the library's; the choice from them is the code's.

Inputs(order) == {v \in DOMAIN VaultKinds[order] : VaultKinds[order][v] \in {"input", "both"}}
Outputs(order) == {v \in DOMAIN VaultKinds[order] : VaultKinds[order][v] \in {"output", "both"}}

\* resolve_io_vaults: the first vault that can be the input, the first that can be
\* the output; a vault that is both may be either, or each.
Resolves(order) == Inputs(order) # {} /\ Outputs(order) # {}

\* The places of the orders of a hash in the listing.
Matching(hash) == {i \in DOMAIN orders : HashOf[orders[i]] = hash}

-----------------------------------------------------------------------------
\* get_order on a miss of its cache (CachedReads has the cache); post_order_cancel.
StartSingle(kind, hash) ==
    /\ single.pc = "idle"
    /\ single' = [IdleSingle EXCEPT !.pc = "find", !.kind = kind, !.hash = hash,
                        !.known = Matching(hash) # {}, !.since = Len(trades)]
    /\ UNCHANGED vars

\* get_orders_by_hash; the first order is taken.
FindOrder ==
    /\ single.pc = "find"
    /\ IF Matching(single.hash) = {} THEN single' = Reply(404)
       ELSE LET order == orders[Min(Matching(single.hash))]
                found == [single EXCEPT !.order = order]
            IN  IF single.kind = "detail" THEN single' = [found EXCEPT !.pc = "quotes"]
                ELSE \E holding \in SUBSET DOMAIN VaultKinds[order] :
                        single' = [found EXCEPT !.pc = "calldata", !.holding = holding]
    /\ UNCHANGED vars

\* get_order_quotes: the first quote's ratio, if there is one with a price.
QuoteOrder ==
    /\ SingleAt("detail", "quotes")
    /\ \E priced \in BOOLEAN :
        single' = [single EXCEPT !.pc = "trades", !.priced = priced,
                                 !.ratio = IF priced THEN single.order ELSE NoRatio]
    /\ UNCHANGED vars

\* Mutant: the trades are asked for by the hash, whatever the orderbook.
ReadTradesByHash ==
    /\ SingleAt("detail", "trades")
    /\ single' = [single EXCEPT !.pc = "build",
                    !.trades = {t \in DOMAIN trades : HashOf[trades[t]] = single.hash}]
    /\ UNCHANGED vars

\* get_order_trades of the order that was found.
ReadTrades ==
    /\ SingleAt("detail", "trades")
    /\ single' = [single EXCEPT !.pc = "build", !.trades = TradesOf(single.order)]
    /\ UNCHANGED vars

\* build_order_detail; the rest of the answer is in `single` and in Detail.
BuildDetail ==
    /\ SingleAt("detail", "build")
    /\ single' = IF Resolves(single.order) THEN Reply(200) ELSE Reply(500)
    /\ UNCHANGED vars

\* get_remove_calldata for the order that was found.
RemoveCalldata ==
    /\ SingleAt("cancel", "calldata")
    /\ single' = [single EXCEPT !.pc = "summary"]
    /\ UNCHANGED vars

\* The answer is in Cancellation.
Summarise ==
    /\ SingleAt("cancel", "summary")
    /\ single' = Reply(200)
    /\ UNCHANGED vars

\* Mutant: a failed query is an empty one.
CallFailsUnseen ==
    /\ single.pc \in {"find", "quotes", "trades", "calldata", "summary"}
    /\ single' = [Reply(IF single.pc = "find" THEN 404 ELSE 500) EXCEPT !.broke = TRUE]
    /\ UNCHANGED vars

\* A library call fails: the query of the orders, the quotes, the trades, the
\* calldata, or (in the summary) is_zero of some balance.
CallFails ==
    /\ single.pc \in {"find", "quotes", "trades", "calldata", "summary"}
    /\ single' = [Reply(500) EXCEPT !.broke = TRUE]
    /\ UNCHANGED vars

RespondSingle ==
    /\ single.pc = "reply"
    /\ single' = IdleSingle
    /\ UNCHANGED vars

-----------------------------------------------------------------------------
\* The body of a successful answer; the order's type, which is read off its source or
\* bytecode alone, is left out.
Detail ==
    [order  |-> single.order, ratio |-> single.ratio,
     input  |-> Min(Inputs(single.order)), output |-> Min(Outputs(single.order)),
     trades |-> single.trades]

\* Mutant: the vaults of the first side only.
TokensReturnedOfInputs(order, holding) == Increasing(Inputs(order) \cap holding)

\* One entry per non-empty vault of inputs_list, then of outputs_list;
\* vaults_to_withdraw is their number.
TokensReturned(order, holding) ==
    Increasing(Inputs(order) \cap holding) \o Increasing(Outputs(order) \cap holding)

Cancellation ==
    [to |-> single.order, returned |-> TokensReturned(single.order, single.holding)]

SingleInit == single = IdleSingle
SingleBegins == \E kind \in {"detail", "cancel"}, hash \in Hashes : StartSingle(kind, hash)
SingleServes ==
    \/ FindOrder \/ QuoteOrder \/ ReadTrades \/ BuildDetail
    \/ RemoveCalldata \/ Summarise \/ CallFails \/ RespondSingle

-----------------------------------------------------------------------------
SingleTypeOK ==
    /\ single.pc \in {"idle", "find", "quotes", "trades", "build", "calldata", "summary", "reply"}
    /\ single.kind \in {"detail", "cancel"} /\ single.status \in {0, 200, 404, 500}
    /\ single.hash \in Hashes \cup {NoRatio}
    /\ {single.order, single.ratio} \subseteq Orders \cup {NoRatio}
    /\ single.holding \subseteq Nat /\ single.trades \subseteq DOMAIN trades
    /\ single.since \in Nat /\ {single.known, single.priced, single.broke} \subseteq BOOLEAN

Replied(kind, status) == SingleAt(kind, "reply") /\ single.status = status

\* The parts of an order's detail, read one after the other while orders and trades
\* are added, are of one order, and that order has the hash asked for: the trades
\* of that very order and orderbook, none missing that was there when the request
\* came; its own price; vaults that can play their parts.
DetailIsOwn ==
    Replied("detail", 200) =>
        LET detail == Detail IN
        /\ HashOf[detail.order] = single.hash
        /\ {t \in 1..single.since : trades[t] = detail.order} \subseteq detail.trades
        /\ \A t \in detail.trades : trades[t] = detail.order
        /\ detail.ratio = IF single.priced THEN detail.order ELSE NoRatio
        /\ VaultKinds[detail.order][detail.input] # "output"
        /\ VaultKinds[detail.order][detail.output] # "input"

\* The summary of a cancellation is of the order that the transaction removes, and
\* has every vault of it that holds something, none that is empty, and none twice
\* unless it is an input and an output ("The summary shows what tokens you will
\* receive back", docs/src/orders.md).
SummaryIsComplete ==
    Replied("cancel", 200) =>
        LET order    == Cancellation.to
            returned == Cancellation.returned
        IN  /\ HashOf[order] = single.hash
            /\ ToSet(returned) = single.holding
            /\ \A i, j \in DOMAIN returned :
                i # j /\ returned[i] = returned[j] => VaultKinds[order][returned[i]] = "both"

\* "order not found" is never said of an order that was listed when the request
\* came, and 500 only if a call failed or the order lacks one side: a failed call
\* passes neither for an answer nor for absence.
OrderErrorsAreHonest ==
    single.pc = "reply" =>
        /\ single.status = 404 => ~single.known /\ ~single.broke
        /\ single.broke => single.status = 500
        /\ single.status = 500 => single.broke \/ ~Resolves(single.order)
=============================================================================
