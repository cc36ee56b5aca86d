------------------------ MODULE RelayerServicesProofs ------------------------
(***************************************************************************)
(* Theorems on the relayer's quotes and health checks, for every set of    *)
(* requests, tokens, prices and callers, and every validity.               *)
(***************************************************************************)
EXTENDS RelayerServices, FiniteSetTheorems, TLAPS

-----------------------------------------------------------------------------
(* Quotes. *)

RequestState ==
    {Idle}
    \cup [pc : {"store"}, quote : Quote, at : Nat]
    \cup [pc : {"check", "accepted", "refused"}, quote : Quote, at : Nat, promised : Nat]

QuoteTypeOK ==
    /\ now \in 0..MaxTime
    /\ feed \in [Tokens -> [price : UnitPrices, expiration : Nat]]
    /\ cache \in [Quote -> Nat]
    /\ sweep \in -1..now
    /\ request \in [Requests -> RequestState]
    /\ shown \in [Quote -> Nat]
    /\ backed \in [Quote -> Nat]

\* A quote in the map is good for no longer than its validity after its prices
\* have expired; a quote on its way to the map was made from good prices.
CacheBacked ==
    /\ \A q \in Quote : cache[q] <= backed[q] + Validity
    /\ \A r \in Requests :
          /\ request[r].pc = "store" => request[r].at <= backed[request[r].quote]
          /\ request[r].pc = "accepted" => request[r].at < backed[request[r].quote] + Validity

\* A quote that is missing from the map, or there for less time than a client was
\* told, is over; a request that is checked was told nothing else.
ShownKept ==
    /\ \A q \in Quote : shown[q] <= cache[q] \/ shown[q] <= now
    /\ \A r \in Requests :
          request[r].pc = "check" => /\ request[r].at <= now
                                     /\ request[r].promised <= shown[request[r].quote]

QuoteInv == QuoteTypeOK /\ CacheBacked /\ ShownKept

\* What the fields of a request are.
LEMMA RequestFields ==
    ASSUME QuoteTypeOK, NEW r \in Requests
    PROVE  /\ request[r].pc \in {"idle", "store", "check", "accepted", "refused"}
           /\ request[r].pc # "idle" => request[r].quote \in Quote /\ request[r].at \in Nat
           /\ request[r].pc = "check" => request[r].promised \in Nat
           /\ request[r].pc = "store" =>
                 request[r] \in [pc : {"store"}, quote : Quote, at : Nat]
           /\ request[r].pc \in {"check", "accepted", "refused"} =>
                 request[r] \in [pc : {"check", "accepted", "refused"}, quote : Quote, at : Nat,
                                 promised : Nat]
  BY DEF QuoteTypeOK, RequestState, Idle

\* What the larger and the smaller of two numbers are.
LEMMA LargerSmaller ==
    ASSUME NEW a \in Nat, NEW b \in Nat
    PROVE  /\ Larger(a, b) \in Nat /\ a <= Larger(a, b) /\ b <= Larger(a, b)
           /\ Larger(a, b) \in {a, b}
           /\ Smaller(a, b) \in Nat /\ Smaller(a, b) \in {a, b}
  BY DEF Larger, Smaller

\* Every step of the quotes keeps the invariant.
LEMMA QuoteStep == QuoteInv /\ [Next]_vars => QuoteInv'
  <1> USE QuoteAssumption
  <1> SUFFICES ASSUME QuoteInv, [Next]_vars PROVE QuoteInv'
    OBVIOUS
  <1>0. QuoteTypeOK /\ CacheBacked /\ ShownKept
    BY DEF QuoteInv
  <1>1. ASSUME NEW token \in Fetched, NEW price \in UnitPrices, NEW lag \in 0..MaxLag,
               lag <= now, Update(token, price, now - lag)
        PROVE  QuoteInv'
    <2>1. now - lag + PriceValidity \in Nat
      BY <1>0, <1>1 DEF QuoteTypeOK
    <2>2. feed' \in [Tokens -> [price : UnitPrices, expiration : Nat]]
      BY <1>0, <1>1, <2>1 DEF QuoteTypeOK, Update
    <2> QED
      BY <1>0, <1>1, <2>2 DEF Update, QuoteInv, QuoteTypeOK, CacheBacked, ShownKept
  <1>2. ASSUME NEW r \in Requests, NEW token \in Tokens, NEW gas \in GasPrices,
               QuoteFees(r, token, gas)
        PROVE  QuoteInv'
    <2> DEFINE quote == [token |-> token, gas |-> gas, native |-> feed[NativeToken].price,
                         fee |-> feed[token].price]
               until == Smaller(Expiration(NativeToken), Expiration(token))
               new == [pc |-> "store", quote |-> quote, at |-> now]
    <2>1. quote \in Quote
      BY <1>0 DEF QuoteTypeOK, Quote
    <2>2. ASSUME NEW t \in Tokens, Available(t)
          PROVE  Expiration(t) \in Nat /\ now <= Expiration(t)
      BY <1>0, <2>2 DEF Available, Expiration, QuoteTypeOK
    <2>3. until \in Nat /\ now <= until
      <3>1. /\ Expiration(NativeToken) \in Nat /\ now <= Expiration(NativeToken)
            /\ Expiration(token) \in Nat /\ now <= Expiration(token)
        BY <1>2, <2>2 DEF QuoteFees
      <3> QED
        BY <3>1 DEF Smaller
    <2>4. new \in RequestState /\ new.pc = "store" /\ new.quote = quote /\ new.at = now
      BY <1>0, <2>1 DEF RequestState, QuoteTypeOK
    <2>5. /\ request' = [request EXCEPT ![r] = new]
          /\ backed' = [backed EXCEPT ![quote] = Larger(@, until)]
          /\ UNCHANGED <<now, feed, cache, sweep, shown>>
      BY <1>2 DEF QuoteFees
    <2> HIDE DEF quote, until, new
    <2>6. /\ backed' \in [Quote -> Nat]
          /\ \A q \in Quote : backed[q] <= backed'[q]
          /\ now <= backed'[quote]
      <3>1. /\ backed \in [Quote -> Nat] /\ now \in Nat
            /\ Larger(backed[quote], until) \in Nat
            /\ backed[quote] <= Larger(backed[quote], until)
            /\ until <= Larger(backed[quote], until)
        <4>1. backed \in [Quote -> Nat] /\ now \in Nat
          BY <1>0 DEF QuoteTypeOK
        <4>2. backed[quote] \in Nat
          BY <2>1, <4>1
        <4> QED
          BY <2>3, <4>1, <4>2, LargerSmaller
      <3> QED
        BY <2>1, <2>3, <2>5, <3>1
    <2>7. QuoteTypeOK'
      BY <1>0, <2>4, <2>5, <2>6 DEF QuoteTypeOK
    <2>8. CacheBacked'
      <3>1. \A q \in Quote : cache'[q] <= backed'[q] + Validity
        BY <1>0, <2>5, <2>6 DEF QuoteTypeOK, CacheBacked
      <3>2. ASSUME NEW p \in Requests
            PROVE  /\ request'[p].pc = "store" => request'[p].at <= backed'[request'[p].quote]
                   /\ request'[p].pc = "accepted" =>
                         request'[p].at < backed'[request'[p].quote] + Validity
        <4>1. CASE p = r
          BY <1>0, <2>4, <2>5, <2>6, <4>1 DEF QuoteTypeOK
        <4>2. CASE p # r
          <5>1. request'[p] = request[p]
            BY <1>0, <2>5, <4>2 DEF QuoteTypeOK
          <5> QED
            BY <1>0, <2>6, <5>1, RequestFields DEF QuoteTypeOK, CacheBacked
        <4> QED
          BY <4>1, <4>2
      <3> QED
        BY <3>1, <3>2 DEF CacheBacked
    <2>9. ShownKept'
      BY <1>0, <2>4, <2>5 DEF QuoteTypeOK, ShownKept
    <2> QED
      BY <2>7, <2>8, <2>9 DEF QuoteInv
  <1>3. ASSUME NEW r \in Requests, StoreQuoteResponse(r) PROVE QuoteInv'
    <2> DEFINE quote == request[r].quote
               until == request[r].at + Validity
    <2>1. /\ quote \in Quote /\ until \in Nat
          /\ cache' = [cache EXCEPT ![quote] = Larger(@, until)]
          /\ shown' = [shown EXCEPT ![quote] = Larger(@, until)]
          /\ request' = [request EXCEPT ![r] = Idle]
          /\ UNCHANGED <<now, feed, sweep, backed>>
          /\ request[r].pc = "store"
      BY <1>0, <1>3, RequestFields DEF StoreQuoteResponse, Stored
    <2>2. until <= backed[quote] + Validity
      BY <1>0, <2>1, RequestFields DEF CacheBacked, QuoteTypeOK
    <2> HIDE DEF quote, until
    <2>3. Idle \in RequestState /\ Idle.pc = "idle"
      BY DEF Idle, RequestState
    <2>4. /\ cache' \in [Quote -> Nat]
          /\ \A q \in Quote : /\ cache[q] <= cache'[q]
                              /\ cache'[q] = cache[q] \/ (q = quote /\ cache'[q] = until)
      <3>1. cache \in [Quote -> Nat] /\ cache[quote] \in Nat
        BY <1>0, <2>1 DEF QuoteTypeOK
      <3>2. /\ Larger(cache[quote], until) \in Nat
            /\ cache[quote] <= Larger(cache[quote], until)
            /\ Larger(cache[quote], until) \in {cache[quote], until}
        BY <2>1, <3>1, LargerSmaller
      <3> QED
        BY <2>1, <3>1, <3>2
    <2>5. /\ shown' \in [Quote -> Nat]
          /\ \A q \in Quote : /\ shown[q] <= shown'[q]
                              /\ \/ shown'[q] = shown[q]
                                 \/ shown'[q] <= cache'[q]
      <3>1. /\ cache \in [Quote -> Nat] /\ cache[quote] \in Nat
            /\ shown \in [Quote -> Nat] /\ shown[quote] \in Nat
        BY <1>0, <2>1 DEF QuoteTypeOK
      <3>2. /\ Larger(shown[quote], until) \in Nat
            /\ shown[quote] <= Larger(shown[quote], until)
            /\ Larger(shown[quote], until) \in {shown[quote], until}
            /\ until <= Larger(cache[quote], until)
        BY <2>1, <3>1, LargerSmaller
      <3> QED
        BY <2>1, <3>1, <3>2
    <2>6. QuoteTypeOK'
      BY <1>0, <2>1, <2>3, <2>4, <2>5 DEF QuoteTypeOK
    <2>7. CacheBacked'
      BY <1>0, <2>1, <2>2, <2>3, <2>4 DEF CacheBacked, QuoteTypeOK
    <2>8. ShownKept'
      <3>1. \A q \in Quote : shown'[q] <= cache'[q] \/ shown'[q] <= now'
        BY <1>0, <2>1, <2>4, <2>5 DEF ShownKept, QuoteTypeOK
      <3>2. ASSUME NEW p \in Requests, request'[p].pc = "check"
            PROVE  request'[p].at <= now' /\ request'[p].promised <= shown'[request'[p].quote]
        <4>1. p # r /\ request'[p] = request[p]
          BY <1>0, <2>1, <2>3, <3>2 DEF QuoteTypeOK
        <4> QED
          BY <1>0, <2>1, <2>5, <3>2, <4>1, RequestFields DEF ShownKept, QuoteTypeOK
      <3> QED
        BY <3>1, <3>2 DEF ShownKept
    <2> QED
      BY <2>6, <2>7, <2>8 DEF QuoteInv
  <1>4. ASSUME NEW r \in Requests, NEW quote \in Quote, CheckQuoteValidity(r, quote)
        PROVE  QuoteInv'
    <2> DEFINE new == [pc |-> "check", quote |-> quote, at |-> now, promised |-> shown[quote]]
    <2>1. /\ new \in RequestState /\ new.pc = "check" /\ new.quote = quote /\ new.at = now
          /\ new.promised = shown[quote]
      BY <1>0 DEF RequestState, QuoteTypeOK
    <2>2. request' = [request EXCEPT ![r] = new] /\ UNCHANGED <<now, feed, cache, sweep, shown, backed>>
      BY <1>4 DEF CheckQuoteValidity
    <2> HIDE DEF new
    <2> QED
      BY <1>0, <2>1, <2>2 DEF QuoteInv, QuoteTypeOK, CacheBacked, ShownKept
  <1>5. ASSUME NEW r \in Requests, IsQuoteValid(r) PROVE QuoteInv'
    <2> DEFINE verdict == IF Valid(request[r].quote, request[r].at) THEN "accepted" ELSE "refused"
               new == [request[r] EXCEPT !.pc = verdict]
    <2>1. request[r].pc = "check" /\ request' = [request EXCEPT ![r] = new]
          /\ UNCHANGED <<now, feed, cache, sweep, shown, backed>>
      BY <1>5 DEF IsQuoteValid
    <2>2. /\ new \in RequestState /\ new.pc \in {"accepted", "refused"}
          /\ new.quote = request[r].quote /\ new.at = request[r].at /\ new.quote \in Quote
          /\ new.at \in Nat
      BY <1>0, <2>1, RequestFields DEF RequestState
    <2>3. new.pc = "accepted" => cache[new.quote] > new.at
      BY <1>0, <2>1, <2>2, RequestFields DEF Valid
    <2> HIDE DEF new
    <2>4. new.pc = "accepted" => new.at < backed[new.quote] + Validity
      BY <1>0, <2>2, <2>3 DEF CacheBacked, QuoteTypeOK
    <2> QED
      BY <1>0, <2>1, <2>2, <2>4 DEF QuoteInv, QuoteTypeOK, CacheBacked, ShownKept
  <1>6. ASSUME NEW r \in Requests, Leave(r) PROVE QuoteInv'
    <2>1. Idle \in RequestState /\ Idle.pc = "idle"
      BY DEF Idle, RequestState
    <2> QED
      BY <1>0, <1>6, <2>1 DEF Leave, QuoteInv, QuoteTypeOK, CacheBacked, ShownKept
  <1>7. CASE CollectGarbage
    BY <1>0, <1>7 DEF CollectGarbage, QuoteInv, QuoteTypeOK, CacheBacked, ShownKept
  <1>8. CASE Retain
    <2>1. cache' \in [Quote -> Nat]
          /\ \A q \in Quote : cache'[q] = cache[q] \/ (cache'[q] = 0 /\ cache[q] <= now)
      BY <1>0, <1>8 DEF Retain, QuoteTypeOK
    <2>2. UNCHANGED <<now, feed, request, shown, backed>> /\ sweep' = -1
      BY <1>8 DEF Retain
    <2>3. QuoteTypeOK'
      BY <1>0, <2>1, <2>2 DEF QuoteTypeOK
    <2>4. CacheBacked'
      BY <1>0, <2>1, <2>2 DEF QuoteTypeOK, CacheBacked
    <2>5. ShownKept'
      BY <1>0, <2>1, <2>2 DEF QuoteTypeOK, ShownKept
    <2> QED
      BY <2>3, <2>4, <2>5 DEF QuoteInv
  <1>9. CASE Tick
    <2>1. now' = now + 1 /\ now < MaxTime /\ UNCHANGED <<feed, cache, sweep, request, shown, backed>>
      BY <1>9 DEF Tick
    <2>2. QuoteTypeOK' /\ CacheBacked'
      BY <1>0, <2>1 DEF QuoteTypeOK, CacheBacked
    <2>3. ShownKept'
      BY <1>0, <2>1, RequestFields DEF QuoteTypeOK, ShownKept
    <2> QED
      BY <2>2, <2>3 DEF QuoteInv
  <1>10. CASE UNCHANGED vars
    BY <1>0, <1>10 DEF vars, QuoteInv, QuoteTypeOK, CacheBacked, ShownKept
  <1> QED
    BY <1>1, <1>2, <1>3, <1>4, <1>5, <1>6, <1>7, <1>8, <1>9, <1>10 DEF Next

\* The invariant of the quotes holds whatever the traffic is.
LEMMA QuotesInvariant == ServicesSpec => []QuoteInv
  <1> USE QuoteAssumption
  <1>1. ServicesInit => QuoteInv
    <2> SUFFICES ASSUME Init PROVE QuoteInv
      BY DEF ServicesInit
    <2>1. \A r \in Requests : request[r].pc = "idle"
      BY DEF Init, Idle
    <2>2. QuoteTypeOK
      BY DEF Init, QuoteTypeOK, RequestState
    <2> QED
      BY <2>1, <2>2 DEF Init, QuoteInv, CacheBacked, ShownKept
  <1>2. [ServicesNext]_serviceVars => [Next]_vars
    BY DEF ServicesNext, Quotes, HealthChecks, serviceVars
  <1> QED
    BY <1>1, <1>2, QuoteStep, PTL DEF ServicesSpec

\* No withdrawal is relayed for prices older than the validities of the price
\* feed and of a quote together.
THEOREM PricesStayFresh == ServicesSpec => []AcceptedPricesFresh
  <1>1. QuoteInv => AcceptedPricesFresh
    BY DEF QuoteInv, CacheBacked, AcceptedPricesFresh
  <1> QED
    BY <1>1, QuotesInvariant, PTL

\* A quote a client was told to be good is refused only once its time is over.
THEOREM QuotesStayGood == ServicesSpec => QuotesHonoured
  <1> DEFINE Refused(r) == request[r].pc = "check" /\ request'[r].pc = "refused"
  <1>1. QuoteInv /\ [ServicesNext]_serviceVars
        => [\A r \in Requests : Refused(r) => request[r].promised <= now]_vars
    <2> SUFFICES ASSUME QuoteInv, Next, NEW r \in Requests, Refused(r)
                 PROVE  request[r].promised <= now
      BY DEF ServicesNext, Quotes, HealthChecks, serviceVars, vars
    <2>0. QuoteTypeOK /\ ShownKept
      BY DEF QuoteInv
    <2>1. CASE UNCHANGED request
      BY <2>1
    <2>2. ASSUME NEW p \in Requests, IsQuoteValid(p) PROVE request[r].promised <= now
      <3>1. p = r
        BY <2>0, <2>2 DEF IsQuoteValid, QuoteTypeOK
      <3>2. ~Valid(request[r].quote, request[r].at)
        <4>1. request[r] \in [pc : {"check", "accepted", "refused"}, quote : Quote, at : Nat,
                              promised : Nat]
          BY <2>0, RequestFields
        <4> QED
          BY <2>0, <2>2, <3>1, <4>1 DEF IsQuoteValid, QuoteTypeOK
      <3> QED
        BY <2>0, <3>2, RequestFields DEF Valid, ShownKept, QuoteTypeOK
    <2>3. ASSUME NEW p \in Requests, request[p].pc # "check",
                 NEW new, request' = [request EXCEPT ![p] = new]
          PROVE  request[r].promised <= now
      BY <2>0, <2>3 DEF QuoteTypeOK
    <2>4. ASSUME NEW token \in Fetched, NEW price \in UnitPrices, NEW fetched,
                 Update(token, price, fetched)
          PROVE  request[r].promised <= now
      BY <2>1, <2>4 DEF Update
    <2>5. ASSUME NEW p \in Requests, NEW token \in Tokens, NEW gas \in GasPrices,
                 QuoteFees(p, token, gas)
          PROVE  request[r].promised <= now
      BY <2>3, <2>5 DEF QuoteFees
    <2>6. ASSUME NEW p \in Requests, StoreQuoteResponse(p) PROVE request[r].promised <= now
      BY <2>3, <2>6 DEF StoreQuoteResponse
    <2>7. ASSUME NEW p \in Requests, NEW quote \in Quote, CheckQuoteValidity(p, quote)
          PROVE  request[r].promised <= now
      BY <2>3, <2>7 DEF CheckQuoteValidity
    <2>8. ASSUME NEW p \in Requests, Leave(p) PROVE request[r].promised <= now
      BY <2>3, <2>8 DEF Leave
    <2>9. CASE CollectGarbage \/ Retain \/ Tick
      BY <2>1, <2>9 DEF CollectGarbage, Retain, Tick
    <2> QED
      BY <2>2, <2>4, <2>5, <2>6, <2>7, <2>8, <2>9 DEF Next
  <1> QED
    BY <1>1, QuotesInvariant, PTL DEF ServicesSpec, QuotesHonoured

-----------------------------------------------------------------------------
(* Health checks. *)

CallerState == {NoCaller} \cup [pc : {"checking", "reading"}, at : Nat]

\* Checks began more than the validity apart, none after the time was moved last, and
\* the timer ends each.
ChecksApart ==
    /\ \A c \in Callers : Checking(c) => /\ caller[c].at <= last_check_started
                                         /\ clock - caller[c].at <= Timeout + MaxDelay
    /\ \A c, d \in Callers :
          /\ Checking(c) /\ Checking(d) /\ c # d
          /\ caller[c].at <= caller[d].at
          => caller[d].at - caller[c].at > CacheValidity

\* The record is of the last check, unless that one has not ended, and whoever
\* reads it came within the validity of that check.
RecordOfLast ==
    /\ \/ is_healthy.asOf >= last_check_started
       \/ \E c \in Callers : Checking(c)
       \/ abandoned
    /\ \A c \in Callers :
          caller[c].pc = "reading" => caller[c].at - last_check_started <= CacheValidity

MonitorInv ==
    /\ clock \in Nat
    /\ last_check_started \in 0..clock
    /\ is_healthy \in [ok : BOOLEAN, asOf : Nat]
    /\ caller \in [Callers -> CallerState]
    /\ \A c \in Callers : caller[c].pc # "idle" => caller[c].at <= clock
    /\ abandoned \in BOOLEAN
    /\ ChecksApart
    /\ RecordOfLast

\* What the fields of a caller are.
LEMMA CallerFields ==
    ASSUME NEW state \in CallerState
    PROVE  /\ state.pc \in {"idle", "checking", "reading"}
           /\ state.pc # "idle" => /\ state.at \in Nat
                                   /\ state \in [pc : {"checking", "reading"}, at : Nat]
  BY DEF CallerState, NoCaller

\* Every step of the health checks keeps the invariant.
LEMMA MonitorStep == MonitorInv /\ [MonitorNext]_monitorVars => MonitorInv'
  <1> USE MonitorAssumption
  <1> SUFFICES ASSUME MonitorInv, [MonitorNext]_monitorVars PROVE MonitorInv'
    OBVIOUS
  <1>0. /\ clock \in Nat /\ last_check_started \in Nat /\ last_check_started <= clock
        /\ is_healthy \in [ok : BOOLEAN, asOf : Nat]
        /\ caller \in [Callers -> CallerState] /\ abandoned \in BOOLEAN
        /\ \A c \in Callers : /\ caller[c] \in CallerState
                              /\ caller[c].pc # "idle" => caller[c].at \in Nat
                              /\ caller[c].pc # "idle" => caller[c].at <= clock
        /\ ChecksApart /\ RecordOfLast
    BY CallerFields DEF MonitorInv
  <1>1. ASSUME NEW c \in Callers, IsHealthy(c) PROVE MonitorInv'
    <2>1. CASE requires_update
      <3> DEFINE new == [pc |-> "checking", at |-> clock]
      <3>1. /\ caller' = [caller EXCEPT ![c] = new] /\ last_check_started' = clock
            /\ abandoned' = FALSE /\ UNCHANGED <<clock, node, is_healthy>>
        BY <1>0, <1>1, <2>1 DEF IsHealthy, TimeOfCheck
      <3>2. new \in CallerState /\ new.pc = "checking" /\ new.at = clock
        BY <1>0 DEF CallerState
      <3>3. \A d \in Callers : Checking(d) => clock - caller[d].at > CacheValidity
        <4>1. clock - last_check_started > CacheValidity
          BY <2>1 DEF requires_update
        <4> QED
          BY <1>0, <4>1 DEF ChecksApart, Checking
      <3> HIDE DEF new
      <3>4. ChecksApart'
        <4>1. caller'[c] = new /\ \A d \in Callers \ {c} : caller'[d] = caller[d]
          BY <1>0, <3>1
        <4>2. ASSUME NEW d \in Callers, Checking(d)'
              PROVE  /\ caller'[d].at <= last_check_started'
                     /\ clock' - caller'[d].at <= Timeout + MaxDelay
          <5>1. CASE d = c
            BY <1>0, <3>1, <3>2, <4>1, <5>1
          <5>2. CASE d # c
            BY <1>0, <3>1, <4>1, <4>2, <5>2 DEF ChecksApart, Checking
          <5> QED
            BY <5>1, <5>2
        <4>3. ASSUME NEW d \in Callers, NEW e \in Callers, Checking(d)', Checking(e)', d # e,
                     caller'[d].at <= caller'[e].at
              PROVE  caller'[e].at - caller'[d].at > CacheValidity
          <5>1. CASE e = c
            <6>1. caller'[d] = caller[d] /\ Checking(d) /\ caller'[e].at = clock
              BY <3>2, <4>1, <4>3, <5>1 DEF Checking
            <6> QED
              BY <3>3, <6>1
          <5>2. CASE d = c
            <6>1. caller'[e] = caller[e] /\ Checking(e) /\ caller'[d].at = clock
              BY <3>2, <4>1, <4>3, <5>2 DEF Checking
            <6>2. caller[e].at \in Nat /\ clock - caller[e].at > CacheValidity /\ clock <= caller[e].at
              BY <1>0, <3>3, <4>3, <6>1 DEF Checking
            <6> QED
              BY <1>0, <6>2
          <5>3. CASE d # c /\ e # c
            BY <4>1, <4>3, <5>3, <1>0 DEF ChecksApart, Checking
          <5> QED
            BY <5>1, <5>2, <5>3
        <4> QED
          BY <4>2, <4>3 DEF ChecksApart
      <3>5. RecordOfLast'
        <4>1. Checking(c)'
          BY <1>0, <3>1, <3>2 DEF Checking
        <4>2. ASSUME NEW d \in Callers, caller'[d].pc = "reading"
              PROVE  caller'[d].at - clock <= CacheValidity
          BY <1>0, <3>1, <3>2, <4>2
        <4> QED
          BY <3>1, <4>1, <4>2 DEF RecordOfLast
      <3>6. caller' \in [Callers -> CallerState]
            /\ \A d \in Callers : caller'[d].pc # "idle" => caller'[d].at <= clock
        BY <1>0, <3>1, <3>2
      <3>7. clock' \in Nat /\ last_check_started' \in 0..clock'
        BY <1>0, <3>1
      <3>8. abandoned' \in BOOLEAN /\ is_healthy' \in [ok : BOOLEAN, asOf : Nat] /\ clock' = clock
        BY <1>0, <3>1
      <3> QED
        BY <3>4, <3>5, <3>6, <3>7, <3>8 DEF MonitorInv
    <2>2. CASE ~requires_update
      <3> DEFINE new == [pc |-> "reading", at |-> clock]
      <3>1. /\ caller' = [caller EXCEPT ![c] = new] /\ last_check_started' = last_check_started
            /\ abandoned' = abandoned /\ UNCHANGED <<clock, node, is_healthy>>
            /\ caller[c].pc = "idle"
        BY <1>0, <1>1, <2>2 DEF IsHealthy, TimeOfCheck
      <3>2. new \in CallerState /\ new.pc = "reading" /\ new.at = clock
        BY <1>0 DEF CallerState
      <3>3. clock - last_check_started <= CacheValidity
        BY <1>0, <2>2 DEF requires_update
      <3> HIDE DEF new
      <3>4. \A d \in Callers : Checking(d)' <=> Checking(d)
        BY <1>0, <3>1, <3>2 DEF Checking
      <3>5. ChecksApart'
        <4>1. \A d \in Callers : Checking(d) => caller'[d] = caller[d]
          BY <1>0, <3>1 DEF Checking
        <4> QED
          BY <1>0, <3>1, <3>4, <4>1 DEF ChecksApart
      <3>6. RecordOfLast'
        BY <1>0, <3>1, <3>2, <3>3, <3>4 DEF RecordOfLast
      <3> QED
        BY <1>0, <3>1, <3>2, <3>5, <3>6 DEF MonitorInv
    <2> QED
      BY <2>1, <2>2
  <1>2. ASSUME NEW c \in Callers, Checking(c), NEW healthy \in BOOLEAN, UpdateHealth(c, healthy)
        PROVE  MonitorInv'
    <2> DEFINE new == [caller[c] EXCEPT !.pc = "reading"]
    <2>1. /\ caller' = [caller EXCEPT ![c] = new] /\ is_healthy' = [ok |-> healthy, asOf |-> clock]
          /\ UNCHANGED <<clock, node, last_check_started, abandoned>>
      BY <1>2 DEF UpdateHealth
    <2>2. new \in CallerState /\ new.pc = "reading" /\ new.at = caller[c].at
      BY <1>0, <1>2, CallerFields DEF Checking, CallerState
    <2>3. new.at \in Nat /\ new.at <= last_check_started
      BY <1>0, <1>2, <2>2 DEF ChecksApart, Checking
    <2> HIDE DEF new
    <2>4. ChecksApart'
      BY <1>0, <2>1, <2>2 DEF ChecksApart, Checking
    <2>5. RecordOfLast'
      BY <1>0, <2>1, <2>2, <2>3 DEF RecordOfLast
    <2> QED
      BY <1>0, <2>1, <2>2, <2>3, <2>4, <2>5 DEF MonitorInv
  <1>3. ASSUME NEW c \in Callers, HealthyNoTimeout(c) \/ CheckTimesOut(c) PROVE MonitorInv'
    BY <1>2, <1>3 DEF HealthyNoTimeout, CheckTimesOut
  <1>4. ASSUME NEW c \in Callers, Health(c) \/ ClientLeaves(c) PROVE MonitorInv'
    <2>1. /\ caller' = [caller EXCEPT ![c] = NoCaller]
          /\ abandoned' \in BOOLEAN /\ (abandoned => abandoned')
          /\ Checking(c) => abandoned'
          /\ UNCHANGED <<clock, node, is_healthy, last_check_started>>
      BY <1>0, <1>4 DEF Health, ClientLeaves, Checking
    <2>2. NoCaller \in CallerState /\ NoCaller.pc = "idle"
      BY DEF CallerState, NoCaller
    <2>3. \A d \in Callers : Checking(d)' <=> d # c /\ Checking(d)
      BY <1>0, <2>1, <2>2 DEF Checking
    <2>4. ChecksApart'
      BY <1>0, <2>1, <2>3 DEF ChecksApart
    <2>5. RecordOfLast'
      BY <1>0, <2>1, <2>2, <2>3 DEF RecordOfLast
    <2> QED
      BY <1>0, <2>1, <2>2, <2>4, <2>5 DEF MonitorInv
  <1>5. ASSUME NEW state, NodeBecomes(state) PROVE MonitorInv'
    BY <1>0, <1>5 DEF NodeBecomes, MonitorInv, ChecksApart, RecordOfLast, Checking
  <1>6. CASE MonitorTick
    <2>1. /\ clock' = clock + 1
          /\ \A c \in Callers : Checking(c) => clock - caller[c].at < Timeout + MaxDelay
          /\ UNCHANGED <<is_healthy, last_check_started, caller, abandoned>>
      BY <1>6 DEF MonitorTick
    <2>2. ChecksApart'
      <3>1. \A c \in Callers : Checking(c)' <=> Checking(c)
        BY <2>1 DEF Checking
      <3>2. ASSUME NEW c \in Callers, Checking(c) PROVE clock' - caller[c].at <= Timeout + MaxDelay
        <4>1. caller[c].at \in Nat /\ clock - caller[c].at < Timeout + MaxDelay
          BY <1>0, <2>1, <3>2 DEF Checking
        <4> QED
          BY <1>0, <2>1, <4>1
      <3> QED
        BY <1>0, <2>1, <3>1, <3>2 DEF ChecksApart
    <2>3. RecordOfLast'
      BY <1>0, <2>1 DEF RecordOfLast, Checking
    <2> QED
      BY <1>0, <2>1, <2>2, <2>3 DEF MonitorInv
  <1>7. CASE UNCHANGED monitorVars
    BY <1>0, <1>7 DEF monitorVars, MonitorInv, ChecksApart, RecordOfLast, Checking
  <1> QED
    BY <1>1, <1>3, <1>4, <1>5, <1>6, <1>7 DEF MonitorNext

\* The invariant of the health checks holds whatever the traffic is.
LEMMA MonitorInvariant == ServicesSpec => []MonitorInv
  <1> USE MonitorAssumption
  <1>1. ServicesInit => MonitorInv
    <2> SUFFICES ASSUME MonitorInit PROVE MonitorInv
      BY DEF ServicesInit
    <2>1. NoCaller \in CallerState /\ \A c \in Callers : caller[c].pc = "idle"
      BY DEF MonitorInit, CallerState, NoCaller
    <2>2. is_healthy \in [ok : BOOLEAN, asOf : Nat] /\ is_healthy.asOf = 0
      BY DEF MonitorInit
    <2>3. ChecksApart
      BY <2>1 DEF ChecksApart, Checking
    <2>4. clock = 0 /\ last_check_started = 0 /\ caller = [c \in Callers |-> NoCaller]
          /\ abandoned \in BOOLEAN
      BY DEF MonitorInit
    <2>5. RecordOfLast
      BY <2>1, <2>2, <2>4 DEF RecordOfLast
    <2> QED
      BY <2>1, <2>2, <2>3, <2>4, <2>5 DEF MonitorInv
  <1>2. [ServicesNext]_serviceVars => [MonitorNext]_monitorVars
    BY DEF ServicesNext, Quotes, HealthChecks, serviceVars
  <1> QED
    BY <1>1, <1>2, MonitorStep, PTL DEF ServicesSpec

\* Division by a number that is not zero.
LEMMA Division ==
  ASSUME NEW a \in Nat, NEW b \in Nat \ {0}
  PROVE  /\ a \div b \in Nat /\ a % b \in 0..(b - 1)
         /\ a = (a \div b) * b + (a % b)
  OBVIOUS

\* Larger numbers have no smaller quotients.
LEMMA QuotientGrows ==
  ASSUME NEW x \in Nat, NEW y \in Nat, NEW b \in Nat \ {0}, x <= y
  PROVE  x \div b <= y \div b
  <1>1. PICK p \in Nat, r \in 0..(b - 1) : p = x \div b /\ x = p * b + r
    BY Division
  <1>2. PICK q \in Nat, s \in 0..(b - 1) : q = y \div b /\ y = q * b + s
    BY Division
  <1>3. ASSUME q < p PROVE FALSE
    <2>1. PICK d \in Nat : p = q + 1 + d
      <3>1. p - q - 1 \in Nat /\ p = q + 1 + (p - q - 1)
        BY <1>3
      <3> QED
        BY <3>1
    <2>2. p * b = q * b + b + d * b /\ d * b \in Nat /\ q * b \in Nat
      BY <2>1
    <2> QED
      BY <1>1, <1>2, <2>2
  <1> QED
    BY <1>1, <1>2, <1>3

\* Numbers at least the divisor apart have different quotients.
LEMMA QuotientsDiffer ==
  ASSUME NEW x \in Nat, NEW y \in Nat, NEW b \in Nat \ {0}, y - x >= b
  PROVE  x \div b # y \div b
  <1>1. PICK p \in Nat, r \in 0..(b - 1) : p = x \div b /\ x = p * b + r
    BY Division
  <1>2. PICK q \in Nat, s \in 0..(b - 1) : q = y \div b /\ y = q * b + s
    BY Division
  <1>3. ASSUME p = q PROVE FALSE
    <2>1. PICK m \in Int : m = p * b
      OBVIOUS
    <2>2. x = m + r /\ y = m + s
      BY <1>1, <1>2, <1>3, <2>1
    <2> QED
      BY <2>2
  <1> QED
    BY <1>1, <1>2, <1>3

\* Many callers at once ask the node only as far as the lateness of the timers lets checks
\* overlap that begin more than the validity apart: never two if a check ends within the
\* validity, and never three at the configured ten seconds if its timer is less than ten
\* seconds late.  Each check has a span of the validity to itself, among as many as fit
\* into the time that one may take.
THEOREM ChecksStayFew == ServicesSpec => []FewChecksAtOnce
  <1>1. MonitorInv => FewChecksAtOnce
    <2> SUFFICES ASSUME MonitorInv PROVE FewChecksAtOnce
      OBVIOUS
    <2> DEFINE S == {c \in Callers : Checking(c)}
               w == CacheValidity + 1
               k == (Timeout + MaxDelay) \div w
               f == [c \in S |-> (clock - caller[c].at) \div w]
    <2>1. w \in Nat \ {0} /\ Timeout + MaxDelay \in Nat
      BY MonitorAssumption
    <2>2. ASSUME NEW c \in S
          PROVE  /\ caller[c].at \in Nat /\ clock - caller[c].at \in Nat
                 /\ clock - caller[c].at <= Timeout + MaxDelay
      <3>1. caller[c] \in CallerState /\ caller[c].pc = "checking" /\ c \in Callers
        BY DEF Checking, MonitorInv
      <3>2. caller[c].at \in Nat
        BY <3>1, CallerFields
      <3>3. clock \in Nat /\ caller[c].at <= clock /\ clock - caller[c].at <= Timeout + MaxDelay
        BY <3>1 DEF MonitorInv, ChecksApart, Checking
      <3> QED
        BY <3>2, <3>3
    <2>3. k \in Nat
      BY <2>1, Division
    <2> HIDE DEF w
    <2>4. ASSUME NEW c \in S PROVE f[c] \in 0..k
      <3>1. PICK x \in Nat : x = clock - caller[c].at
        BY <2>2
      <3>2. x <= Timeout + MaxDelay
        BY <2>2, <3>1
      <3>3. x \div w \in Nat /\ x \div w <= k
        BY <2>1, <3>2, Division, QuotientGrows
      <3>4. f[c] = x \div w
        BY <3>1
      <3> QED
        BY <2>3, <3>3, <3>4
    <2>5. ASSUME NEW c \in S, NEW d \in S, c # d, caller[c].at <= caller[d].at PROVE f[c] # f[d]
      <3>1. PICK x \in Nat : x = clock - caller[c].at
        BY <2>2
      <3>2. PICK y \in Nat : y = clock - caller[d].at
        BY <2>2
      <3>3. caller[d].at - caller[c].at > CacheValidity
        BY <2>5 DEF MonitorInv, ChecksApart
      <3>4. x - y >= w
        BY <2>2, <3>1, <3>2, <3>3, MonitorAssumption DEF w, MonitorInv
      <3>5. y \div w # x \div w
        BY <2>1, <3>4, QuotientsDiffer
      <3> QED
        BY <3>1, <3>2, <3>5
    <2> HIDE DEF k
    <2>6. f \in Injection(S, 0..k)
      <3>1. f \in [S -> 0..k]
        <4>1. f = [c \in S |-> f[c]]
          OBVIOUS
        <4> HIDE DEF f, S
        <4> QED
          BY <2>4, <4>1
      <3>2. ASSUME NEW c \in S, NEW d \in S, c # d PROVE f[c] # f[d]
        <4>1. caller[c].at <= caller[d].at \/ caller[d].at <= caller[c].at
          BY <2>2
        <4> HIDE DEF f, S
        <4> QED
          BY <2>5, <3>2, <4>1
      <3> HIDE DEF f
      <3> QED
        BY <3>1, <3>2 DEF Injection, IsInjective
    <2>7. IsFiniteSet(0..k) /\ Cardinality(0..k) = k + 1
      BY <2>3, FS_Interval
    <2> HIDE DEF f, S
    <2>8. Cardinality(S) <= k + 1
      BY <2>6, <2>7, FS_Injection
    <2> QED
      BY <2>8 DEF FewChecksAtOnce, S, k, w
  <1> QED
    BY <1>1, MonitorInvariant, PTL

\* A caller is told of a state of the node that was older than the validity when
\* it came only while a newer check is under way or after one was dropped.
THEOREM RecordsStayFresh == ServicesSpec => StaleOnlyDuringCheck
  <1> DEFINE Told(c) == caller[c].pc = "reading" /\ caller'[c].pc = "idle"
             Good(c) == \/ caller[c].at - is_healthy.asOf <= CacheValidity
                        \/ \E other \in Callers : Checking(other)
                        \/ abandoned
  <1>1. MonitorInv => \A c \in Callers : caller[c].pc = "reading" => Good(c)
    BY MonitorAssumption, CallerFields DEF MonitorInv, RecordOfLast
  <1>2. MonitorInv /\ [ServicesNext]_serviceVars
        => [\A c \in Callers : Told(c) => Good(c)]_monitorVars
    BY <1>1
  <1> QED
    BY <1>2, MonitorInvariant, PTL DEF ServicesSpec, StaleOnlyDuringCheck

=============================================================================
