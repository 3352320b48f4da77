-------------------------------- MODULE HsFix --------------------------------
(* The Hundsun executor (apps/hsfile): the goroutine of each FIX session    *)
(* turns a NewOrderSingle into a WT record of the counter's batch order     *)
(* file.  The codes are converted by Symbology, whose tables are filled     *)
(* before the first session starts.  Codes and account fields are strings,  *)
(* because Validate counts their characters.                                *)
EXTENDS Integers, Sequences, Symbology

CONSTANTS
  FixSessions,  \* the sessions
  TargetCompID, \* TargetCompID of each session
  AccountMap,   \* configuration: FIX tag 1 -> accountSet
  Orders,       \* the NewOrderSingle messages explored
  NoOrder,      \* no message is being handled
  MaxOrders     \* bound: orders handled

Tags == {"ClOrdID", "OrdType", "OrderQty", "Price", "Symbol",
         "SecurityExchange", "Side", "TimeInForce", "Account"}

AccountSet == [CPBH : STRING, ZCDYBH : STRING, SHAGDDM : STRING, ZZAGDDM : STRING]

ASSUME TargetCompIDAssumption == TargetCompID \in [FixSessions -> Counterparties]
ASSUME AccountMapAssumption ==
  \A a \in DOMAIN AccountMap : AccountMap[a] \in AccountSet

\* missing: the tags that are absent or cannot be parsed.
ASSUME OrdersAssumption ==
  /\ \A m \in Orders : /\ DOMAIN m = {"missing", "ordType", "qty", "symbol",
                                      "exchange", "side", "account"}
                       /\ m.missing \subseteq Tags
                       /\ m.symbol \in Codes /\ m.exchange \in Codes
                       /\ m.qty \in Nat
  /\ NoOrder \notin Orders /\ MaxOrders \in Nat

VARIABLES
  orderID,   \* HSFix.orderID
  pc,        \* where the handler of each session is
  order,     \* the message it handles
  wt,        \* its record
  outcome,   \* how the last handler of each session ended
  converted  \* history: every record built, with its session and message

hsVars == <<orderID, pc, order, wt, outcome, converted>>
vars == <<symVars, hsVars>>

\* The values of the field dictionary (dict.go); WTJGLX is a rune.
XSHG == "1"
XSHE == "2"
XSSC == "n"
XSEC == "o"
LIMIT_ODD == 48
LIMIT == 50
MARKET_CANCEL == 97
MARKET_CANCEL_SZ == 65

newWT == [CPBH |-> "", ZCDYBH |-> "", ZHBH |-> "", GDDM |-> "", JYSC |-> "",
          ZQDM |-> "", WTFX |-> "", WTJGLX |-> 0, WTSL |-> 0, WBZDYXH |-> 0,
          WTXH |-> 0, WTSBDM |-> 0]

-----------------------------------------------------------------------------
(* wtNewFromFIXNewOrderSingle                                              *)

Missing(m, tag)      == [why |-> "missing",   tag |-> tag, fails |-> tag \in m.missing]
Incorrect(tag, fails) == [why |-> "incorrect", tag |-> tag, fails |-> fails]

\* The checks of the handler and the conversion, in the order of the code.
\* Nobody looks at the error of ExchangeToSender; SetAccount, called last,
\* refuses the empty code it left.
Checks(m, zqdm, jysc) ==
  << Missing(m, "ClOrdID"), Missing(m, "OrdType"), Missing(m, "OrderQty"),
     [Missing(m, "Price") EXCEPT !.fails = @ /\ m.ordType # "MARKET"],
     Missing(m, "Symbol"),           Incorrect("Symbol", zqdm = NotFound),
     Missing(m, "SecurityExchange"),
     Missing(m, "Side"),             Incorrect("Side", m.side \notin {"BUY", "SELL"}),
     Missing(m, "TimeInForce"),
     Incorrect("OrdType", m.ordType \notin {"LIMIT", "MARKET"}),
     Missing(m, "Account"),
     Incorrect("Account", m.account \notin DOMAIN AccountMap),
     Incorrect("Account", jysc = NotFound) >>

Passes(checks) == \A i \in DOMAIN checks : ~checks[i].fails

\* The early return of the code: the first check that fails.
FirstFailure(checks, i) ==
  checks[i].fails /\ \A j \in 1 .. i - 1 : ~checks[j].fails

\* ParseOrdType; the price type stays 0 on a market it does not know.
ParseOrdType(ordType, jysc, qty) ==
  IF ordType = "LIMIT"
  THEN CASE jysc \in {XSHG, XSHE} -> LIMIT_ODD
         [] jysc \in {XSEC, XSSC} -> IF qty < 100 THEN LIMIT_ODD ELSE LIMIT
         [] OTHER -> 0
  ELSE CASE jysc = XSHG -> MARKET_CANCEL
         [] jysc = XSHE -> MARKET_CANCEL_SZ
         [] OTHER -> 0

\* Mutant: only the A share markets have a holder code.
HolderNoConnect(set, jysc) ==
  CASE jysc = XSHG -> set.SHAGDDM [] jysc \in {XSHE, XSSC} -> set.ZZAGDDM [] OTHER -> ""

\* SetAccount: the holder code of the exchange.
Holder(set, jysc) ==
  CASE jysc \in {XSHG, XSSC} -> set.SHAGDDM
    [] jysc \in {XSHE, XSEC} -> set.ZZAGDDM
    [] OTHER -> ""

Convert(m, zqdm, jysc) ==
  LET set == AccountMap[m.account] IN
  [newWT EXCEPT !.WTSL = m.qty, !.ZQDM = zqdm, !.JYSC = jysc,
                !.WTFX = IF m.side = "BUY" THEN "1" ELSE "2",
                !.WTJGLX = ParseOrdType(m.ordType, jysc, m.qty),
                !.CPBH = set.CPBH, !.ZCDYBH = set.ZCDYBH, !.ZHBH = set.ZCDYBH,
                !.GDDM = Holder(set, jysc)]

(* Validate.  The validator takes len of a string as its number of         *)
(* characters and of a number as its value; it looks through the decimals, *)
(* which are structs.                                                      *)
StringLen == [CPBH |-> 32, ZCDYBH |-> 16, ZHBH |-> 16, GDDM |-> 20, JYSC |-> 3,
              ZQDM |-> 16, WTFX |-> 4]
NumberLen == [WTJGLX |-> 1, WTSL |-> 12, WBZDYXH |-> 9, WTXH |-> 8, WTSBDM |-> 8]

Valid(w) == /\ \A f \in DOMAIN StringLen : Len(w[f]) = StringLen[f]
            /\ \A f \in DOMAIN NumberLen : w[f] = NumberLen[f]

-----------------------------------------------------------------------------
Init ==
  /\ SymInit
  /\ orderID = 0
  /\ pc = [s \in FixSessions |-> "idle"]
  /\ order = [s \in FixSessions |-> NoOrder]
  /\ wt = [s \in FixSessions |-> newWT]
  /\ outcome = [s \in FixSessions |-> <<"none", "">>]
  /\ converted = {}

\* NewHSFix: the configuration is applied before any session starts.
NewHSFix ==
  /\ \/ ApplyNothing
     \/ \E c \in Counterparties, sym \in SymbolSections, exch \in ExchangeSections :
          Apply(c, sym, exch)
  /\ UNCHANGED hsVars

\* OnFIX42NewOrderSingle, up to genOrderID, which adds atomically; an order
\* that will be refused takes an ID too.
OnNewOrderSingle(s, m) ==
  /\ phase = "applied" /\ pc[s] = "idle" /\ orderID < MaxOrders
  /\ orderID' = orderID + 1
  /\ wt' = [wt EXCEPT ![s] = [newWT EXCEPT !.WBZDYXH = orderID']]
  /\ order' = [order EXCEPT ![s] = m]
  /\ pc' = [pc EXCEPT ![s] = "convert"]
  /\ UNCHANGED <<symVars, outcome, converted>>

End(s, why, tag) ==
  /\ outcome' = [outcome EXCEPT ![s] = <<why, tag>>]
  /\ pc' = [pc EXCEPT ![s] = "idle"]

\* What the symbology may answer for the symbol and the exchange of order[s].
Answers(s) == ByValue(symbols, order[s].symbol, TargetCompID[s])
              \X ByValue(exchanges, order[s].exchange, TargetCompID[s])

\* The record of order[s] with the given ID is complete.
Converted(s, codes, id) ==
  /\ wt' = [wt EXCEPT ![s] = [Convert(order[s], codes[1], codes[2])
                                 EXCEPT !.WBZDYXH = id]]
  /\ converted' = converted \cup {[session |-> s, order |-> order[s], wt |-> wt'[s]]}
  /\ pc' = [pc EXCEPT ![s] = "submit"]
  /\ UNCHANGED outcome

\* Mutant: the ID is read from the counter when the record is complete.
ConvertOrderReadsID(s) ==
  /\ pc[s] = "convert"
  /\ \E codes \in Answers(s) :
       /\ Passes(Checks(order[s], codes[1], codes[2]))
       /\ Converted(s, codes, orderID)
  /\ UNCHANGED <<symVars, orderID, order>>

\* Mutant: the ID is not put into the record.
ConvertOrderNoID(s) ==
  /\ pc[s] = "convert"
  /\ \E codes \in Answers(s) :
       /\ Passes(Checks(order[s], codes[1], codes[2]))
       /\ Converted(s, codes, 0)
  /\ UNCHANGED <<symVars, orderID, order>>

\* wtNewFromFIXNewOrderSingle, and the ID.
ConvertOrder(s) ==
  /\ pc[s] = "convert"
  /\ \E codes \in Answers(s) :
       LET checks == Checks(order[s], codes[1], codes[2]) IN
       \/ \E i \in DOMAIN checks :
            /\ FirstFailure(checks, i)
            /\ End(s, checks[i].why, checks[i].tag)
            /\ UNCHANGED <<wt, converted>>
       \/ /\ Passes(checks)
          /\ Converted(s, codes, wt[s].WBZDYXH)
  /\ UNCHANGED <<symVars, orderID, order>>

\* Validate, then Save, which adds to a database that NewWTDB never set.
Submit(s) ==
  /\ pc[s] = "submit"
  /\ End(s, IF Valid(wt[s]) THEN "panic" ELSE "invalid", "")
  /\ UNCHANGED <<symVars, orderID, order, wt, converted>>

Next == \/ NewHSFix
        \/ \E s \in FixSessions : \/ \E m \in Orders : OnNewOrderSingle(s, m)
                                  \/ ConvertOrder(s) \/ Submit(s)

Spec == Init /\ [][Next]_vars

-----------------------------------------------------------------------------
(* Properties                                                              *)

TypeOK ==
  /\ SymTypeOK
  /\ orderID \in 0 .. MaxOrders
  /\ \A s \in FixSessions :
       /\ pc[s] \in {"idle", "convert", "submit"}
       /\ order[s] \in Orders \cup {NoOrder}
       /\ wt[s].WTFX \in {"", "1", "2"}
       /\ wt[s].WBZDYXH \in (IF pc[s] = "idle" THEN 0 ELSE 1) .. orderID
       /\ outcome[s] \in ({"missing", "incorrect"} \X Tags)
                          \cup ({"none", "invalid", "panic"} \X {""})

\* The counter's price types by market, from the comments of dict.go.
PriceTypes(market, ordType) ==
  CASE market \in {XSHG, XSHE} /\ ordType = "LIMIT"  -> {LIMIT_ODD}
    [] market \in {XSSC, XSEC} /\ ordType = "LIMIT"  -> {LIMIT_ODD, LIMIT}
    [] market = XSHG /\ ordType = "MARKET"           -> {MARKET_CANCEL}
    [] market = XSHE /\ ordType = "MARKET"           -> {MARKET_CANCEL_SZ}
    [] OTHER                                          -> {0}

\* A record is of one market: its price type is one the dictionary gives that
\* market, a round lot of Stock Connect is not sent as an odd one, and its
\* holder code is the account's at the exchange behind the market.  Exchange,
\* price type and account are set by three steps that must come in this order.
OneMarket ==
  \A r \in converted :
    LET w == r.wt
        set == AccountMap[r.order.account] IN
    /\ w.WTJGLX \in PriceTypes(w.JYSC, r.order.ordType)
    /\ w.JYSC \in {XSSC, XSEC} /\ r.order.ordType = "LIMIT" =>
         (w.WTJGLX = LIMIT_ODD <=> w.WTSL < 100)
    /\ w.GDDM = set.SHAGDDM <=> w.JYSC \in {XSHG, XSSC}
    /\ w.GDDM = set.ZZAGDDM <=> w.JYSC \in {XSHE, XSEC}

\* "the order ID must be an integer to comply with the HS protocol": the counter
\* identifies an order by it, so no two records carry the same one, although
\* the handlers of several sessions draw them at once.
WBZDYXHUnique ==
  \A q, r \in converted : q.wt.WBZDYXH = r.wt.WBZDYXH => q = r

\* "left is counterparty,right is channel" (symbol.yaml): an order on a
\* configured exchange goes to the channel's market to the right of it.
LeftIsCounterparty ==
  \A r \in converted :
    LET c == TargetCompID[r.session] IN
    r.order.exchange \in DOMAIN exchanges[c].map =>
      r.wt.JYSC = exchanges[c].map[r.order.exchange]

\* convert.go rejects an exchange it cannot convert with
\* ValueIsIncorrect(tag.SecurityExchange): a reject that names Account is about
\* an unknown account.
AccountRejectTrue ==
  \A s \in FixSessions :
    outcome[s] = <<"incorrect", "Account">> /\ pc[s] = "idle" =>
      order[s].account \notin DOMAIN AccountMap
=============================================================================
