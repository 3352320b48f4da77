---------------------------- MODULE HsFixProofs ----------------------------
(* Proofs about HsFix: the order IDs of the records and the market each      *)
(* record is of, for any number of sessions, orders, markets and accounts    *)
(* and whatever the symbology is configured to answer; and about Symbology,  *)
(* for any codes, counterparties and configuration.                          *)
EXTENDS HsFix, TLAPS

-----------------------------------------------------------------------------
(* The symbology.                                                           *)

\* What ByValue answers is a key of the code, the code itself passed through,
\* or nothing; ByKey inverts the first.
LEMMA ByValueInverts ==
  ASSUME NEW tables, NEW code, NEW c, NEW r \in ByValue(tables, code, c),
         r # NotFound
  PROVE  tables[c].passthrough \/ ByKey(tables, r, c) = code
BY DEF ByValue, ByKey

\* No lookup is answered before the tables are filled, and they are filled once.
SymInv == /\ phase = "new" => answer = NoLookup
          /\ RoundTrip

LEMMA InitSymInv == SymInit => SymInv
BY DEF SymInit, SymInv, RoundTrip, Inverts

LEMMA NextSymInv == SymInv /\ [SymNext]_symVars => SymInv'
<1> SUFFICES ASSUME SymInv, [SymNext]_symVars PROVE SymInv'
  OBVIOUS
<1>1. ASSUME ApplyNothing \/ \E c, sym, exch : Apply(c, sym, exch)
      PROVE  SymInv'
  \* The answer is still NoLookup, of which RoundTrip says nothing.
  BY <1>1 DEF ApplyNothing, Apply, SymInv, RoundTrip, Inverts
<1>2. ASSUME NEW code, NEW c, ToSender(code, c)
      PROVE  SymInv'
  <2>1. PICK r \in ByValue(symbols, code, c) : Answer("ToSender", code, c, r)
    BY <1>2 DEF ToSender
  <2>2. /\ phase' # "new" /\ UNCHANGED <<symbols, exchanges>>
        /\ answer' = [call |-> "ToSender", code |-> code,
                      counterparty |-> c, result |-> r]
    BY <2>1 DEF Answer
  <2>3. Inverts(symbols, "ToSender")'
    BY <2>2, ByValueInverts DEF Inverts, ByKey
  <2>4. Inverts(exchanges, "ExchangeToSender")'
    BY <2>2 DEF Inverts
  <2> QED
    BY <2>2, <2>3, <2>4 DEF SymInv, RoundTrip
<1>3. ASSUME NEW code, NEW c, ExchangeToSender(code, c)
      PROVE  SymInv'
  <2>1. PICK r \in ByValue(exchanges, code, c) : Answer("ExchangeToSender", code, c, r)
    BY <1>3 DEF ExchangeToSender
  <2>2. /\ phase' # "new" /\ UNCHANGED <<symbols, exchanges>>
        /\ answer' = [call |-> "ExchangeToSender", code |-> code,
                      counterparty |-> c, result |-> r]
    BY <2>1 DEF Answer
  <2>3. Inverts(exchanges, "ExchangeToSender")'
    BY <2>2, ByValueInverts DEF Inverts, ByKey
  <2>4. Inverts(symbols, "ToSender")'
    BY <2>2 DEF Inverts
  <2> QED
    BY <2>2, <2>3, <2>4 DEF SymInv, RoundTrip
<1>4. ASSUME NEW code, NEW c,
             FromSender(code, c) \/ ExchangeFromSender(code, c)
      PROVE  SymInv'
  BY <1>4 DEF FromSender, ExchangeFromSender, Answer, SymInv, RoundTrip, Inverts
<1>5. CASE UNCHANGED symVars
  BY <1>5 DEF symVars, SymInv, RoundTrip, Inverts, ByKey
<1> QED
  BY <1>1, <1>2, <1>3, <1>4, <1>5 DEF SymNext, LookupOf

\* A lookup by value is inverted by the lookup by key, for any configuration
\* and whatever key the map search meets first, unless the set passes through.
THEOREM LookupsInvert == SymSpec => []RoundTrip
<1>1. SymInv => RoundTrip
  BY DEF SymInv
<1> QED
  BY <1>1, InitSymInv, NextSymInv, PTL DEF SymSpec

-----------------------------------------------------------------------------
(* One record.                                                              *)

\* What passed the checks is an order of a known type and account.
LEMMA Passed ==
  ASSUME NEW m, NEW zqdm, NEW jysc, Passes(Checks(m, zqdm, jysc))
  PROVE  m.ordType \in {"LIMIT", "MARKET"} /\ m.account \in DOMAIN AccountMap
<1> DEFINE checks == Checks(m, zqdm, jysc)
<1>1. /\ DOMAIN checks = 1 .. 14
      /\ checks[11] = Incorrect("OrdType", m.ordType \notin {"LIMIT", "MARKET"})
      /\ checks[13] = Incorrect("Account", m.account \notin DOMAIN AccountMap)
  BY DEF Checks
<1>2. ~checks[11].fails /\ ~checks[13].fails
  BY <1>1 DEF Passes
<1>3. ASSUME m.ordType \notin {"LIMIT", "MARKET"} PROVE FALSE
  <2>1. checks[11] = Incorrect("OrdType", TRUE)
    BY <1>1, <1>3
  <2> QED
    BY <1>2, <2>1 DEF Incorrect
<1>4. ASSUME m.account \notin DOMAIN AccountMap PROVE FALSE
  <2>1. checks[13] = Incorrect("Account", TRUE)
    BY <1>1, <1>4
  <2> QED
    BY <1>2, <2>1 DEF Incorrect
<1> QED
  BY <1>3, <1>4

\* A complete record with its ID.
Record(m, zqdm, jysc, id) == [Convert(m, zqdm, jysc) EXCEPT !.WBZDYXH = id]

\* The fields of a record that the properties speak of.
LEMMA RecordFields ==
  ASSUME NEW m, NEW zqdm, NEW jysc, NEW id
  PROVE  LET w == Record(m, zqdm, jysc, id) IN
         /\ w.WBZDYXH = id /\ w.JYSC = jysc /\ w.WTSL = m.qty
         /\ w.WTJGLX = ParseOrdType(m.ordType, jysc, m.qty)
         /\ w.GDDM = Holder(AccountMap[m.account], jysc)
         /\ w.WTFX \in {"1", "2"}
BY DEF Record, Convert, newWT

\* The account's holder codes can be told from one another and from none.
HolderCodesDiffer ==
  \A a \in DOMAIN AccountMap :
    /\ AccountMap[a].SHAGDDM # AccountMap[a].ZZAGDDM
    /\ AccountMap[a].SHAGDDM # "" /\ AccountMap[a].ZZAGDDM # ""

\* OneMarket, of one record of an order m.
OfOneMarket(w, m) ==
  LET set == AccountMap[m.account] IN
  /\ w.WTJGLX \in PriceTypes(w.JYSC, m.ordType)
  /\ w.JYSC \in {XSSC, XSEC} /\ m.ordType = "LIMIT" =>
       (w.WTJGLX = LIMIT_ODD <=> w.WTSL < 100)
  /\ w.GDDM = set.SHAGDDM <=> w.JYSC \in {XSHG, XSSC}
  /\ w.GDDM = set.ZZAGDDM <=> w.JYSC \in {XSHE, XSEC}

\* The price type and the holder code are both those of the market, for an
\* order that passed the checks.
LEMMA RecordOfOneMarket ==
  ASSUME HolderCodesDiffer, NEW m, NEW zqdm, NEW jysc, NEW id,
         Passes(Checks(m, zqdm, jysc))
  PROVE  OfOneMarket(Record(m, zqdm, jysc, id), m)
<1> DEFINE w == Record(m, zqdm, jysc, id)
           set == AccountMap[m.account]
<1>1. m.ordType \in {"LIMIT", "MARKET"} /\ m.account \in DOMAIN AccountMap
  BY Passed
<1>2. /\ w.JYSC = jysc /\ w.WTSL = m.qty
      /\ w.WTJGLX = ParseOrdType(m.ordType, jysc, m.qty)
      /\ w.GDDM = Holder(set, jysc)
  BY RecordFields
<1> HIDE DEF w
<1>3. w.WTJGLX \in PriceTypes(w.JYSC, m.ordType)
  BY <1>1, <1>2 DEF ParseOrdType, PriceTypes, XSHG, XSHE, XSSC, XSEC
<1>4. w.JYSC \in {XSSC, XSEC} /\ m.ordType = "LIMIT" =>
        (w.WTJGLX = LIMIT_ODD <=> w.WTSL < 100)
  BY <1>2 DEF ParseOrdType, XSHG, XSHE, XSSC, XSEC, LIMIT_ODD, LIMIT
<1>5. set.SHAGDDM # set.ZZAGDDM /\ set.SHAGDDM # "" /\ set.ZZAGDDM # ""
  BY <1>1 DEF HolderCodesDiffer
<1> HIDE DEF set
<1>6. /\ w.GDDM = set.SHAGDDM <=> w.JYSC \in {XSHG, XSSC}
      /\ w.GDDM = set.ZZAGDDM <=> w.JYSC \in {XSHE, XSEC}
  BY <1>2, <1>5 DEF Holder, XSHG, XSHE, XSSC, XSEC
<1> QED
  BY <1>3, <1>4, <1>6 DEF OfOneMarket, w, set

-----------------------------------------------------------------------------
(* The inductive invariant.                                                 *)

HandlerTypes ==
  /\ orderID \in Nat
  /\ pc \in [FixSessions -> {"idle", "convert", "submit"}]
  /\ DOMAIN order = FixSessions
  /\ DOMAIN wt = FixSessions

\* An ID is drawn at most once: it is carried by the record of one handler that
\* converts, or of one order that was converted.
Tickets ==
  /\ \A s \in FixSessions : pc[s] = "convert" =>
       /\ wt[s].WBZDYXH \in 1 .. orderID
       /\ \A t \in FixSessions :
            pc[t] = "convert" /\ wt[t].WBZDYXH = wt[s].WBZDYXH => t = s
       /\ \A r \in converted : r.wt.WBZDYXH # wt[s].WBZDYXH
  /\ \A r \in converted : r.wt.WBZDYXH \in 1 .. orderID

IDInv == HandlerTypes /\ Tickets /\ WBZDYXHUnique

MarketInv == /\ pc \in [FixSessions -> {"idle", "convert", "submit"}]
             /\ DOMAIN wt = FixSessions
             /\ \A r \in converted : OfOneMarket(r.wt, r.order)

LEMMA InitIDInv == Init => IDInv
<1> SUFFICES ASSUME Init PROVE IDInv
  OBVIOUS
<1>1. HandlerTypes
  BY DEF Init, HandlerTypes
<1>2. \A s \in FixSessions : pc[s] = "idle"
  BY DEF Init
<1>3. converted = {}
  BY DEF Init
<1> QED
  BY <1>1, <1>2, <1>3 DEF IDInv, Tickets, WBZDYXHUnique

\* genOrderID: the ID is above all that were drawn.
LEMMA DrawIDInv ==
  ASSUME IDInv, NEW s \in FixSessions, NEW m \in Orders, OnNewOrderSingle(s, m)
  PROVE  IDInv'
<1>1. /\ orderID' = orderID + 1 /\ orderID \in Nat
      /\ wt'[s].WBZDYXH = orderID'
      /\ \A t \in FixSessions \ {s} : wt'[t] = wt[t] /\ pc'[t] = pc[t]
      /\ converted' = converted
  BY DEF OnNewOrderSingle, IDInv, HandlerTypes, newWT
<1>2. HandlerTypes'
  BY DEF OnNewOrderSingle, IDInv, HandlerTypes
<1>3. Tickets'
  BY <1>1 DEF IDInv, Tickets
<1>4. WBZDYXHUnique'
  BY <1>1 DEF IDInv, WBZDYXHUnique
<1> QED
  BY <1>2, <1>3, <1>4 DEF IDInv

\* The record of one handler is complete: its ID goes from the handler to the
\* record.
LEMMA ConvertIDInv ==
  ASSUME IDInv, NEW s \in FixSessions, ConvertOrder(s)
  PROVE  IDInv'
<1>1. PICK codes \in Answers(s) : ConvertOrder(s)!2!(codes)
  BY DEF ConvertOrder
<1> DEFINE checks == Checks(order[s], codes[1], codes[2])
<1>2. pc[s] = "convert" /\ orderID' = orderID /\ order' = order
  BY DEF ConvertOrder
<1>3. ASSUME NEW i \in DOMAIN checks, End(s, checks[i].why, checks[i].tag),
             UNCHANGED <<wt, converted>>
      PROVE  IDInv'
  <2>1. pc'[s] = "idle" /\ \A t \in FixSessions \ {s} : pc'[t] = pc[t]
    BY <1>3 DEF End, IDInv, HandlerTypes
  <2>2. HandlerTypes'
    BY <1>2, <1>3 DEF End, IDInv, HandlerTypes
  <2>3. Tickets' /\ WBZDYXHUnique'
    BY <1>2, <1>3, <2>1 DEF IDInv, Tickets, WBZDYXHUnique
  <2> QED
    BY <2>2, <2>3 DEF IDInv
<1>4. ASSUME Converted(s, codes, wt[s].WBZDYXH)
      PROVE  IDInv'
  <2> DEFINE r == [session |-> s, order |-> order[s], wt |-> wt'[s]]
  <2>1. r.wt.WBZDYXH = wt[s].WBZDYXH
    BY <1>4, RecordFields DEF Converted, IDInv, HandlerTypes, Record
  <2>2. /\ converted' = converted \cup {r}
        /\ pc'[s] = "submit"
        /\ \A t \in FixSessions \ {s} : pc'[t] = pc[t] /\ wt'[t] = wt[t]
    BY <1>4 DEF Converted, IDInv, HandlerTypes
  <2>3. HandlerTypes'
    BY <1>2, <1>4 DEF Converted, IDInv, HandlerTypes
  <2> HIDE DEF r
  <2>4. Tickets' /\ WBZDYXHUnique'
    BY <1>2, <2>1, <2>2 DEF IDInv, Tickets, WBZDYXHUnique
  <2> QED
    BY <2>3, <2>4 DEF IDInv
<1> QED
  BY <1>1, <1>3, <1>4

LEMMA NextIDInv == IDInv /\ [Next]_vars => IDInv'
<1> SUFFICES ASSUME IDInv, [Next]_vars PROVE IDInv'
  OBVIOUS
<1>1. CASE NewHSFix
  BY <1>1 DEF NewHSFix, hsVars, IDInv, HandlerTypes, Tickets, WBZDYXHUnique
<1>2. ASSUME NEW s \in FixSessions, NEW m \in Orders, OnNewOrderSingle(s, m)
      PROVE  IDInv'
  BY <1>2, DrawIDInv
<1>3. ASSUME NEW s \in FixSessions, ConvertOrder(s)
      PROVE  IDInv'
  BY <1>3, ConvertIDInv
<1>4. ASSUME NEW s \in FixSessions, Submit(s)
      PROVE  IDInv'
  BY <1>4 DEF Submit, End, IDInv, HandlerTypes, Tickets, WBZDYXHUnique
<1>5. CASE UNCHANGED vars
  BY <1>5 DEF vars, hsVars, IDInv, HandlerTypes, Tickets, WBZDYXHUnique
<1> QED
  BY <1>1, <1>2, <1>3, <1>4, <1>5 DEF Next

\* hsfix.go:56: the counter is shared by the goroutines of all sessions, and
\* no two records carry the same number of it.
THEOREM OrderIDsUnique == Spec => []WBZDYXHUnique
<1>1. IDInv => WBZDYXHUnique
  BY DEF IDInv
<1> QED
  BY <1>1, InitIDInv, NextIDInv, PTL DEF Spec

-----------------------------------------------------------------------------
LEMMA NextMarketInv ==
  ASSUME HolderCodesDiffer
  PROVE  MarketInv /\ [Next]_vars => MarketInv'
<1> SUFFICES ASSUME MarketInv, [Next]_vars PROVE MarketInv'
  OBVIOUS
<1>1. CASE NewHSFix
  BY <1>1 DEF NewHSFix, hsVars, MarketInv, OfOneMarket
<1>2. ASSUME NEW s \in FixSessions, NEW m \in Orders, OnNewOrderSingle(s, m)
      PROVE  MarketInv'
  BY <1>2 DEF OnNewOrderSingle, MarketInv, OfOneMarket
<1>3. ASSUME NEW s \in FixSessions, ConvertOrder(s)
      PROVE  MarketInv'
  <2>1. PICK codes \in Answers(s) : ConvertOrder(s)!2!(codes)
    BY <1>3 DEF ConvertOrder
  <2> DEFINE checks == Checks(order[s], codes[1], codes[2])
  <2>2. ASSUME NEW i \in DOMAIN checks, End(s, checks[i].why, checks[i].tag),
               UNCHANGED <<wt, converted>>
        PROVE  MarketInv'
    BY <2>2 DEF End, MarketInv, OfOneMarket
  <2>3. ASSUME Passes(checks), Converted(s, codes, wt[s].WBZDYXH)
        PROVE  MarketInv'
    <3> DEFINE r == [session |-> s, order |-> order[s], wt |-> wt'[s]]
    <3>1. /\ wt'[s] = Record(order[s], codes[1], codes[2], wt[s].WBZDYXH)
          /\ converted' = converted \cup {r}
      BY <2>3 DEF Converted, MarketInv, Record
    <3>2. OfOneMarket(wt'[s], order[s])
      <4> HIDE DEF r
      <4>1. Passes(Checks(order[s], codes[1], codes[2]))
        BY <2>3
      <4> QED
        BY <3>1, <4>1, RecordOfOneMarket
    <3>3. OfOneMarket(r.wt, r.order)
      BY <3>2
    <3> HIDE DEF r
    <3>4. /\ pc' \in [FixSessions -> {"idle", "convert", "submit"}]
          /\ DOMAIN wt' = FixSessions
      BY <2>3 DEF Converted, MarketInv
    <3> QED
      BY <3>1, <3>3, <3>4 DEF MarketInv
  <2> QED
    BY <2>1, <2>2, <2>3
<1>4. ASSUME NEW s \in FixSessions, Submit(s)
      PROVE  MarketInv'
  BY <1>4 DEF Submit, End, MarketInv, OfOneMarket
<1>5. CASE UNCHANGED vars
  BY <1>5 DEF vars, hsVars, MarketInv, OfOneMarket
<1> QED
  BY <1>1, <1>2, <1>3, <1>4, <1>5 DEF Next

\* convert.go:50, :70 and :81: the market comes from the symbology, the price
\* type from the order and the market, the holder code from the account and the
\* market, and a record that gets past all checks has the three of one market,
\* also when the exchange was passed through as it came.
THEOREM RecordsOfOneMarket ==
  ASSUME HolderCodesDiffer
  PROVE  Spec => []OneMarket
<1>1. Init => MarketInv
  BY DEF Init, MarketInv
<1>2. MarketInv => OneMarket
  BY DEF MarketInv, OneMarket, OfOneMarket
<1>3. MarketInv /\ [Next]_vars => MarketInv'
  BY NextMarketInv
<1> QED
  BY <1>1, <1>2, <1>3, PTL DEF Spec
-----------------------------------------------------------------------------
(* Types.                                                                   *)

\* The tables that a configuration fills.
LEMMA TableOfSection ==
  ASSUME NEW c \in Counterparties, NEW section \in SymbolSections \cup ExchangeSections,
         NEW types
  PROVE  IsTable([p \in {c} |-> CodeSetOf(section, types)])
<1> DEFINE keys == {k \in DOMAIN section \ {Passthrough} : section[k].type \in types}
           map  == [k \in keys |-> section[k].code]
           table == [p \in {c} |-> CodeSetOf(section, types)]
<1>1. /\ keys \subseteq Codes
      /\ \A k \in keys : section[k].code \in Codes
  BY SectionsAssumption DEF IsMap, Scalar
<1>2. IsMap(map, Codes, Codes)
  BY <1>1 DEF IsMap
<1>3. table[c].map = map
  BY DEF CodeSetOf
<1>4. table[c].passthrough \in BOOLEAN
  <2>1. CASE Passthrough \in DOMAIN section
    <3>1. table[c].passthrough = TRUE
      BY <2>1 DEF CodeSetOf
    <3> HIDE DEF table
    <3> QED
      BY <3>1
  <2>2. CASE Passthrough \notin DOMAIN section
    <3>1. table[c].passthrough = FALSE
      <4>1. table[c].passthrough <=> Passthrough \in DOMAIN section
        BY DEF CodeSetOf
      <4>2. ~table[c].passthrough
        BY <2>2, <4>1
      <4> QED
        BY <4>2
    <3> HIDE DEF table
    <3> QED
      BY <3>1
  <2> QED
    BY <2>1, <2>2
<1>5. DOMAIN table = {c}
  OBVIOUS
<1> HIDE DEF table, map
<1>6. /\ DOMAIN table \subseteq Counterparties
      /\ \A q \in DOMAIN table : q = c
  BY <1>5
<1>7. IsMap(table[c].map, Codes, Codes)
  BY <1>2, <1>3
<1> QED
  BY <1>4, <1>6, <1>7 DEF IsTable, table

\* What a check that fails says.
LEMMA CheckTypes ==
  ASSUME NEW m, NEW zqdm, NEW jysc, NEW i \in DOMAIN Checks(m, zqdm, jysc)
  PROVE  /\ Checks(m, zqdm, jysc)[i].why \in {"missing", "incorrect"}
         /\ Checks(m, zqdm, jysc)[i].tag \in Tags
BY DEF Checks, Missing, Incorrect, Tags

\* How a handler may end.
Results == ({"missing", "incorrect"} \X Tags)
           \cup ({"none", "invalid", "panic"} \X {""})

\* TypeOK, of one session.
Typed(s) ==
  /\ pc[s] \in {"idle", "convert", "submit"}
  /\ order[s] \in Orders \cup {NoOrder}
  /\ wt[s].WTFX \in {"", "1", "2"}
  /\ wt[s].WBZDYXH \in Nat /\ wt[s].WBZDYXH <= orderID
  /\ pc[s] # "idle" => wt[s].WBZDYXH # 0
  /\ outcome[s] \in Results

HsTypes ==
  /\ SymTypeOK /\ HandlerTypes
  /\ DOMAIN outcome = FixSessions
  /\ orderID <= MaxOrders
  /\ \A s \in FixSessions : Typed(s)

LEMMA HsTypesGiveTypeOK == HsTypes => TypeOK
<1> SUFFICES ASSUME HsTypes PROVE TypeOK
  OBVIOUS
<1>1. orderID \in 0 .. MaxOrders
  BY OrdersAssumption DEF HsTypes, HandlerTypes
<1>2. ASSUME NEW s \in FixSessions
      PROVE  wt[s].WBZDYXH \in (IF pc[s] = "idle" THEN 0 ELSE 1) .. orderID
  <2>1. /\ orderID \in Nat /\ wt[s].WBZDYXH \in Nat /\ wt[s].WBZDYXH <= orderID
        /\ pc[s] # "idle" => wt[s].WBZDYXH # 0
    BY DEF HsTypes, HandlerTypes, Typed
  <2>2. wt[s].WBZDYXH \in 0 .. orderID
    BY <2>1
  <2>3. pc[s] # "idle" => wt[s].WBZDYXH \in 1 .. orderID
    BY <2>1
  <2> QED
    BY <2>2, <2>3
<1>3. ASSUME NEW s \in FixSessions
      PROVE  /\ pc[s] \in {"idle", "convert", "submit"}
             /\ order[s] \in Orders \cup {NoOrder}
             /\ wt[s].WTFX \in {"", "1", "2"}
             /\ outcome[s] \in Results
  BY DEF HsTypes, Typed
<1>4. SymTypeOK
  BY DEF HsTypes
<1> QED
  BY <1>1, <1>2, <1>3, <1>4 DEF TypeOK, Results

LEMMA MaxOrdersIsNat == MaxOrders \in Nat
BY OrdersAssumption

LEMMA NewRecord == newWT.WTFX = "" /\ newWT.WBZDYXH = 0
BY DEF newWT

LEMMA InitHsTypes == Init => HsTypes
<1> SUFFICES ASSUME Init PROVE HsTypes
  OBVIOUS
<1>1. SymTypeOK
  BY DEF Init, SymInit, SymTypeOK, IsTable, NoTable
<1>2. HandlerTypes
  BY DEF Init, HandlerTypes
<1>3. DOMAIN outcome = FixSessions
  BY DEF Init
<1>4. orderID = 0 /\ orderID <= MaxOrders
  <2>1. orderID = 0
    BY DEF Init
  <2> QED
    BY <2>1, MaxOrdersIsNat
<1>5. ASSUME NEW s \in FixSessions PROVE Typed(s)
  <2>1. wt[s] = newWT /\ pc[s] = "idle" /\ order[s] = NoOrder
    BY DEF Init
  <2>2. wt[s].WTFX = "" /\ wt[s].WBZDYXH = 0
    BY <2>1, NewRecord
  <2>3. outcome[s] \in Results
    BY DEF Init, Results
  <2> QED
    <3> DEFINE id == wt[s].WBZDYXH
    <3>0. id = 0
      BY <2>2
    <3> HIDE DEF id
    <3>1. id \in Nat /\ id <= orderID
      BY <1>4, <3>0
    <3>2. /\ pc[s] \in {"idle", "convert", "submit"}
          /\ order[s] \in Orders \cup {NoOrder}
          /\ wt[s].WTFX \in {"", "1", "2"}
      BY <2>1, <2>2
    <3> QED
      BY <2>1, <2>3, <3>1, <3>2 DEF Typed, id
<1> QED
  BY <1>1, <1>2, <1>3, <1>4, <1>5 DEF HsTypes

\* A step of the handler of s that leaves the symbology alone.
LEMMA HandlerStepTypes ==
  ASSUME HsTypes, NEW s \in FixSessions, UNCHANGED symVars,
         HandlerTypes', DOMAIN outcome' = FixSessions,
         orderID <= orderID', orderID' <= MaxOrders, Typed(s)',
         \A t \in FixSessions \ {s} :
           /\ pc'[t] = pc[t] /\ order'[t] = order[t]
           /\ wt'[t] = wt[t] /\ outcome'[t] = outcome[t]
  PROVE  HsTypes'
<1>1. SymTypeOK'
  BY DEF symVars, HsTypes, SymTypeOK
<1>2. ASSUME NEW t \in FixSessions \ {s} PROVE Typed(t)'
  <2>1. orderID \in Nat /\ orderID' \in Nat /\ Typed(t)
    BY DEF HsTypes, HandlerTypes
  <2>2. /\ pc'[t] = pc[t] /\ order'[t] = order[t]
        /\ wt'[t] = wt[t] /\ outcome'[t] = outcome[t]
    OBVIOUS
  <2>3. wt'[t].WBZDYXH <= orderID'
    <3>1. wt[t].WBZDYXH \in Nat /\ wt[t].WBZDYXH <= orderID
      BY <2>1 DEF Typed
    <3> QED
      BY <2>1, <2>2, <3>1
  <2> QED
    BY <2>1, <2>2, <2>3 DEF Typed
<1> QED
  BY <1>1, <1>2 DEF HsTypes

LEMMA NextHsTypes == HsTypes /\ [Next]_vars => HsTypes'
<1> SUFFICES ASSUME HsTypes, [Next]_vars PROVE HsTypes'
  OBVIOUS
<1>0. CASE ApplyNothing /\ UNCHANGED hsVars
  BY <1>0 DEF ApplyNothing, hsVars, HsTypes, HandlerTypes, Typed, SymTypeOK
<1>1. CASE NewHSFix /\ ~ApplyNothing
  <2>1. PICK c \in Counterparties, sym \in SymbolSections, exch \in ExchangeSections :
          Apply(c, sym, exch)
    BY <1>1 DEF NewHSFix
  <2>2. IsTable(symbols')
    BY <2>1, TableOfSection DEF Apply
  <2>3. IsTable(exchanges) /\ answer \in Lookup \cup {NoLookup}
    BY DEF HsTypes, SymTypeOK
  <2>4. IsTable(exchanges') /\ phase' \in {"applied", "panicked"} /\ answer' = answer
    <3>1. IsTable([p \in {c} |-> CodeSetOf(exch, {"string"})])
      BY TableOfSection
    <3> QED
      BY <2>1, <2>3, <3>1 DEF Apply, IsTable
  <2>5. SymTypeOK'
    BY <2>2, <2>3, <2>4 DEF SymTypeOK
  <2> QED
    BY <1>1, <2>5 DEF NewHSFix, hsVars, HsTypes, HandlerTypes, Typed
<1>2. ASSUME NEW s \in FixSessions, NEW m \in Orders, OnNewOrderSingle(s, m)
      PROVE  HsTypes'
  <2>1. HandlerTypes' /\ orderID' = orderID + 1 /\ orderID' <= MaxOrders
    BY <1>2, OrdersAssumption DEF OnNewOrderSingle, HsTypes, HandlerTypes
  <2>2. wt'[s].WBZDYXH = orderID' /\ wt'[s].WTFX = ""
    BY <1>2 DEF OnNewOrderSingle, HsTypes, HandlerTypes, newWT
  <2>3. /\ pc'[s] = "convert" /\ order'[s] = m
        /\ outcome' = outcome
    BY <1>2 DEF OnNewOrderSingle, HsTypes, HandlerTypes
  <2>4. orderID' \in Nat /\ orderID' <= orderID' /\ orderID' # 0
    BY <2>1 DEF HsTypes, HandlerTypes
  <2>5. outcome'[s] \in Results
    BY <2>3 DEF HsTypes, Typed
  <2>6. Typed(s)'
    BY <2>2, <2>3, <2>4, <2>5 DEF Typed
  <2> QED
    BY <1>2, <2>1, <2>6, HandlerStepTypes DEF OnNewOrderSingle, HsTypes, HandlerTypes
<1>3. ASSUME NEW s \in FixSessions, ConvertOrder(s)
      PROVE  HsTypes'
  <2>1. PICK codes \in Answers(s) : ConvertOrder(s)!2!(codes)
    BY <1>3 DEF ConvertOrder
  <2>2. UNCHANGED symVars /\ orderID' = orderID /\ order' = order /\ pc[s] = "convert"
    BY <1>3 DEF ConvertOrder
  <2>3. orderID <= orderID' /\ orderID' <= MaxOrders
    BY <2>2 DEF HsTypes, HandlerTypes
  <2> DEFINE checks == Checks(order[s], codes[1], codes[2])
  <2>4. ASSUME NEW i \in DOMAIN checks, End(s, checks[i].why, checks[i].tag),
               UNCHANGED <<wt, converted>>
        PROVE  HsTypes'
    <3>1. <<checks[i].why, checks[i].tag>> \in Results
      BY CheckTypes DEF Results
    <3> HIDE DEF checks
    <3>2. /\ HandlerTypes' /\ DOMAIN outcome' = FixSessions
          /\ pc'[s] = "idle" /\ outcome'[s] \in Results
          /\ \A t \in FixSessions \ {s} : pc'[t] = pc[t] /\ outcome'[t] = outcome[t]
      BY <2>2, <2>4, <3>1 DEF End, HsTypes, HandlerTypes
    <3>3. Typed(s)'
      BY <2>2, <2>4, <3>2 DEF HsTypes, Typed
    <3> QED
      BY <2>2, <2>3, <2>4, <3>2, <3>3, HandlerStepTypes
  <2>5. ASSUME Converted(s, codes, wt[s].WBZDYXH)
        PROVE  HsTypes'
    <3>1. /\ wt'[s].WBZDYXH = wt[s].WBZDYXH /\ wt'[s].WTFX \in {"1", "2"}
          /\ DOMAIN wt' = FixSessions
          /\ \A t \in FixSessions \ {s} : wt'[t] = wt[t]
      BY <2>5, RecordFields DEF Converted, HsTypes, HandlerTypes, Record
    <3>2. UNCHANGED outcome /\ pc' = [pc EXCEPT ![s] = "submit"]
      BY <2>5 DEF Converted
    <3>3. /\ HandlerTypes' /\ DOMAIN outcome' = FixSessions /\ pc'[s] = "submit"
          /\ \A t \in FixSessions \ {s} : pc'[t] = pc[t]
      BY <2>2, <3>1, <3>2 DEF HsTypes, HandlerTypes
    <3>4. Typed(s)'
      BY <2>2, <3>1, <3>2, <3>3 DEF HsTypes, Typed
    <3> QED
      BY <2>2, <2>3, <3>1, <3>2, <3>3, <3>4, HandlerStepTypes
  <2> QED
    BY <2>1, <2>4, <2>5
<1>4. ASSUME NEW s \in FixSessions, Submit(s)
      PROVE  HsTypes'
  <2>1. UNCHANGED <<symVars, orderID, order, wt>> /\ orderID <= MaxOrders /\ orderID \in Nat
    BY <1>4 DEF Submit, HsTypes, HandlerTypes
  <2>2. /\ pc'[s] = "idle" /\ outcome'[s] \in Results
        /\ HandlerTypes' /\ DOMAIN outcome' = FixSessions
        /\ \A t \in FixSessions \ {s} : pc'[t] = pc[t] /\ outcome'[t] = outcome[t]
    BY <1>4, <2>1 DEF Submit, End, Results, HsTypes, HandlerTypes
  <2>3. Typed(s)'
    BY <2>1, <2>2 DEF HsTypes, Typed
  <2> QED
    BY <2>1, <2>2, <2>3, HandlerStepTypes
<1>5. CASE UNCHANGED vars
  BY <1>5 DEF vars, hsVars, symVars, HsTypes, SymTypeOK, HandlerTypes, Typed
<1> QED
  BY <1>0, <1>1, <1>2, <1>3, <1>4, <1>5 DEF Next, NewHSFix

\* The tables, the handlers, their records and the rejects have their types.
THEOREM Typing == Spec => []TypeOK
<1>1. HsTypes => TypeOK
  BY HsTypesGiveTypeOK
<1> QED
  BY <1>1, InitHsTypes, NextHsTypes, PTL DEF Spec
=============================================================================
