----------------------------- MODULE QuoteCache -----------------------------
(***************************************************************************)
(* The quotes of the relayer (crates/shielder-relayer: quote.rs,           *)
(* quote_cache.rs, price_feed, and the quote check of relay/mod.rs).       *)
(*                                                                         *)
(* A quote is kept under the prices it was computed from and gives no      *)
(* other handle to the client, so that equal prices give the same quote.   *)
(* Every access to the cache reads the clock first and then waits for the  *)
(* lock: others get the lock in between, and time passes.                  *)
(***************************************************************************)
EXTENDS Integers

CONSTANTS
    Requests,       \* HTTP requests under way
    Tokens,         \* tokens of the configuration
    NativeToken,
    Fetched,        \* tokens whose price provider is a URL, not a static price
    GasPrices,
    UnitPrices,     \* prices the provider may report
    StaticPrice,    \* the price of the other tokens
    Validity,       \* quote_validity
    PriceValidity,  \* price_feed_validity
    MaxTime,        \* bound on the clock
    MaxLag          \* bound on how old a price may be that the provider reports

ASSUME QuoteAssumption ==
    /\ NativeToken \in Tokens /\ Fetched \subseteq Tokens
    /\ Validity \in Nat \ {0} /\ PriceValidity \in Nat /\ MaxTime \in Nat /\ MaxLag \in Nat
    /\ StaticPrice \in UnitPrices

VARIABLES
    now,        \* the clock
    feed,       \* token -> its price and when that expires; 0 if never fetched
    cache,      \* quote -> expiration; 0 if it is not in the map
    sweep,      \* the time the garbage collector has read, or -1
    request,    \* request -> where it stands
    shown,      \* quote -> until when a client was last told it is good
    backed      \* quote -> expiration of the prices it was last made from

vars == <<now, feed, cache, sweep, request, shown, backed>>

Quote == [token : Tokens, gas : GasPrices, native : UnitPrices, fee : UnitPrices]

Idle == [pc |-> "idle"]
Larger(a, b) == IF a < b THEN b ELSE a
Smaller(a, b) == IF a < b THEN a ELSE b

-----------------------------------------------------------------------------
(* The price feed. *)

\* Prices::price: there is a price and it has not expired.
Available(token) == token \in Fetched => now < feed[token].expiration

\* Prices::update, for one token: what the provider says, with its own time.
Update(token, price, fetched) ==
    /\ feed' = [feed EXCEPT ![token] = [price |-> price, expiration |-> fetched + PriceValidity]]
    /\ UNCHANGED <<now, cache, sweep, request, shown, backed>>

\* The expiration of a quote's prices; a static price has none.
Expiration(token) == IF token \in Fetched THEN feed[token].expiration
                     ELSE MaxTime + PriceValidity

-----------------------------------------------------------------------------
(* The quote endpoint. *)

\* _quote_fees up to the lock; without prices it is an error.  The prices and then
\* the clock are read without an await: one instant.
QuoteFees(r, token, gas) ==
    LET quote == [token |-> token, gas |-> gas, native |-> feed[NativeToken].price,
                  fee |-> feed[token].price]
    IN  /\ request[r].pc = "idle"
        /\ Available(NativeToken) /\ Available(token)
        /\ request' = [request EXCEPT ![r] = [pc |-> "store", quote |-> quote, at |-> now]]
        /\ backed' = [backed EXCEPT ![quote] =
                        Larger(@, Smaller(Expiration(NativeToken), Expiration(token)))]
        /\ UNCHANGED <<now, feed, cache, sweep, shown>>

\* Mutant: the last one to get the lock decides.
StoreLast(previous, expiration) == expiration

\* and_modify or or_insert: the longer validity is kept.
Stored(previous, expiration) == Larger(previous, expiration)

\* store_quote_response, and the answer to the client.
StoreQuoteResponse(r) ==
    LET quote == request[r].quote
        expiration == request[r].at + Validity
    IN  /\ request[r].pc = "store"
        /\ cache' = [cache EXCEPT ![quote] = Stored(@, expiration)]
        /\ shown' = [shown EXCEPT ![quote] = Larger(@, expiration)]
        /\ request' = [request EXCEPT ![r] = Idle]
        /\ UNCHANGED <<now, feed, sweep, backed>>

-----------------------------------------------------------------------------
(* The relay endpoint. *)

\* check_quote_validity for any quote a client may send, up to the lock.
CheckQuoteValidity(r, quote) ==
    /\ request[r].pc = "idle"
    /\ request' = [request EXCEPT ![r] = [pc |-> "check", quote |-> quote, at |-> now,
                                          promised |-> shown[quote]]]
    /\ UNCHANGED <<now, feed, cache, sweep, shown, backed>>

\* Mutant: any quote in the map is good.
ValidIfCached(quote, at) == cache[quote] > 0

Valid(quote, at) == cache[quote] > at

\* is_quote_valid once it has the lock.
IsQuoteValid(r) ==
    /\ request[r].pc = "check"
    /\ request' = [request EXCEPT ![r].pc =
                     IF Valid(request[r].quote, request[r].at) THEN "accepted" ELSE "refused"]
    /\ UNCHANGED <<now, feed, cache, sweep, shown, backed>>

\* The rest of the request is in module Relayer.
Leave(r) ==
    /\ request[r].pc \in {"accepted", "refused"}
    /\ request' = [request EXCEPT ![r] = Idle]
    /\ UNCHANGED <<now, feed, cache, sweep, shown, backed>>

-----------------------------------------------------------------------------
(* The garbage collector, at any time. *)

CollectGarbage ==
    /\ sweep = -1
    /\ sweep' = now
    /\ UNCHANGED <<now, feed, cache, request, shown, backed>>

\* cache.retain, once it has the lock.
Retain ==
    /\ sweep # -1
    /\ cache' = [q \in Quote |-> IF cache[q] > sweep THEN cache[q] ELSE 0]
    /\ sweep' = -1
    /\ UNCHANGED <<now, feed, request, shown, backed>>

Tick ==
    /\ now < MaxTime
    /\ now' = now + 1
    /\ UNCHANGED <<feed, cache, sweep, request, shown, backed>>

-----------------------------------------------------------------------------
Init ==
    /\ now = 0
    /\ feed = [t \in Tokens |-> [price |-> StaticPrice, expiration |-> 0]]
    /\ cache = [q \in Quote |-> 0]
    /\ sweep = -1
    /\ request = [r \in Requests |-> Idle]
    /\ shown = [q \in Quote |-> 0]
    /\ backed = [q \in Quote |-> 0]

Next ==
    \/ \E token \in Fetched, price \in UnitPrices, lag \in 0..MaxLag :
          lag <= now /\ Update(token, price, now - lag)
    \/ \E r \in Requests :
          \/ \E token \in Tokens, gas \in GasPrices : QuoteFees(r, token, gas)
          \/ StoreQuoteResponse(r)
          \/ \E quote \in Quote : CheckQuoteValidity(r, quote)
          \/ IsQuoteValid(r)
          \/ Leave(r)
    \/ CollectGarbage
    \/ Retain
    \/ Tick

Spec == Init /\ [][Next]_vars

-----------------------------------------------------------------------------
(* Properties. *)

\* A quote the relayer has answered with is honoured until its time is over,
\* however its accesses to the cache interleave with those of other requests and
\* of the garbage collector ("How long the quote provided by the service is
\* valid", README.md of the relayer): it is refused only at its end or later.
QuotesHonoured ==
    [][\A r \in Requests :
          request[r].pc = "check" /\ request'[r].pc = "refused"
          => request[r].promised <= now]_vars

\* No withdrawal is relayed for prices older than the price feed's and the
\* quote's validity together: when a request that passes was made, the prices
\* behind its quote had expired for less than the validity of a quote.
AcceptedPricesFresh ==
    \A r \in Requests :
       request[r].pc = "accepted" => request[r].at < backed[request[r].quote] + Validity

=============================================================================
