------------------------------ MODULE Symbology ------------------------------
(* Code conversion between a counterparty and the channel                   *)
(* (service/symbol/file.go).  The two tables are filled once, when the      *)
(* configuration is applied; every lookup holds the mutex from its first    *)
(* line to its return, so lookups are atomic.                               *)
CONSTANTS
  Codes,            \* symbols and exchanges, of either side
  Counterparties,   \* TargetCompIDs
  SymbolSections,   \* contents of symbolSet explored
  ExchangeSections, \* contents of exchangeSet explored
  Passthrough,      \* the key "passthrough"
  NotFound          \* the empty string returned with an error

\* A configuration section: what the YAML parser makes of each key's value.
Scalar == [type : {"string", "int", "other"}, code : Codes]
IsMap(f, K, V) == DOMAIN f \subseteq K /\ f \in [DOMAIN f -> V]

ASSUME NamesAssumption == Passthrough \notin Codes /\ NotFound \notin Codes
ASSUME SectionsAssumption ==
  \A f \in SymbolSections \cup ExchangeSections :
    IsMap(f, Codes \cup {Passthrough}, Scalar)

VARIABLES
  symbols,     \* FileSymbology.symbols: counterparty -> symbolSet
  exchanges,   \* FileSymbology.exchanges: counterparty -> exchangeSet
  phase,       \* "new", "applied", or "panicked"
  answer       \* the last lookup and what it returned

symVars == <<symbols, exchanges, phase, answer>>

\* symbolSet and exchangeSet, a map and a flag, by counterparty.
IsTable(t) ==
  /\ DOMAIN t \subseteq Counterparties
  /\ \A c \in DOMAIN t :
       IsMap(t[c].map, Codes, Codes) /\ t[c].passthrough \in BOOLEAN

Lookup == [call : {"ToSender", "FromSender", "ExchangeToSender", "ExchangeFromSender"},
           code : Codes, counterparty : Counterparties,
           result : Codes \cup {NotFound}]
NoLookup == [call |-> "none"]

SymTypeOK ==
  /\ IsTable(symbols) /\ IsTable(exchanges)
  /\ phase \in {"new", "applied", "panicked"}
  /\ answer \in Lookup \cup {NoLookup}

NoTable == [c \in {} |-> NoLookup]

SymInit ==
  /\ symbols = NoTable /\ exchanges = NoTable
  /\ phase = "new" /\ answer = NoLookup

-----------------------------------------------------------------------------
\* A set read from a section, which keeps the values of the given types; the
\* key passthrough sets the flag whatever its value.
CodeSetOf(section, types) ==
  [map |-> [k \in {k \in DOMAIN section \ {Passthrough} : section[k].type \in types} |->
              section[k].code],
   passthrough |-> Passthrough \in DOMAIN section]

\* Apply without a configuration, or with an empty one: a panic at once.
ApplyNothing ==
  /\ phase = "new" /\ phase' = "panicked"
  /\ UNCHANGED <<symbols, exchanges, answer>>

\* Apply: an exchange that is not a string ends the start with a panic.
Apply(c, sym, exch) ==
  /\ phase = "new"
  /\ symbols' = [p \in {c} |-> CodeSetOf(sym, {"string", "int"})]
  /\ \/ /\ \A k \in DOMAIN exch \ {Passthrough} : exch[k].type = "string"
        /\ exchanges' = [p \in {c} |-> CodeSetOf(exch, {"string"})]
        /\ phase' = "applied"
     \/ /\ \E k \in DOMAIN exch \ {Passthrough} : exch[k].type # "string"
        /\ phase' = "panicked"
        /\ UNCHANGED exchanges
  /\ UNCHANGED answer

\* Mutant: the map is read by key, as FromSender does.
ByValueReadsKey(tables, code, c) ==
  IF c \in DOMAIN tables /\ code \in DOMAIN tables[c].map
  THEN {tables[c].map[code]} ELSE {NotFound}

\* The possible results of ToSender and ExchangeToSender: the map is searched
\* for the code as a value, in no particular order, and a key is returned.
ByValue(tables, code, c) ==
  IF c \notin DOMAIN tables THEN {NotFound}
  ELSE LET keys == {k \in DOMAIN tables[c].map : tables[c].map[k] = code} IN
       IF keys # {} THEN keys
       ELSE IF tables[c].passthrough THEN {code} ELSE {NotFound}

\* The result of FromSender and ExchangeFromSender: the map is read at the
\* code as a key, but a passthrough set returns the code itself.
ByKey(tables, code, c) ==
  IF c \notin DOMAIN tables THEN NotFound
  ELSE IF tables[c].passthrough THEN code
  ELSE IF code \in DOMAIN tables[c].map THEN tables[c].map[code] ELSE NotFound

Answer(call, code, c, result) ==
  /\ phase = "applied"
  /\ answer' = [call |-> call, code |-> code, counterparty |-> c, result |-> result]
  /\ UNCHANGED <<symbols, exchanges, phase>>

ToSender(code, c) ==
  \E r \in ByValue(symbols, code, c) : Answer("ToSender", code, c, r)

FromSender(code, c) ==
  Answer("FromSender", code, c, ByKey(symbols, code, c))

\* Mutant: the exchange is looked up among the symbols.
ExchangeToSenderInSymbols(code, c) ==
  \E r \in ByValue(symbols, code, c) : Answer("ExchangeToSender", code, c, r)

ExchangeToSender(code, c) ==
  \E r \in ByValue(exchanges, code, c) : Answer("ExchangeToSender", code, c, r)

ExchangeFromSender(code, c) ==
  Answer("ExchangeFromSender", code, c, ByKey(exchanges, code, c))

LookupOf(code, c) ==
  \/ ToSender(code, c) \/ FromSender(code, c)
  \/ ExchangeToSender(code, c) \/ ExchangeFromSender(code, c)

SymNext ==
  \/ ApplyNothing
  \/ \E c \in Counterparties, sym \in SymbolSections, exch \in ExchangeSections :
       Apply(c, sym, exch)
  \/ \E code \in Codes, c \in Counterparties : LookupOf(code, c)

SymSpec == SymInit /\ [][SymNext]_symVars

-----------------------------------------------------------------------------
(* Properties                                                              *)

\* What a lookup by value answered, the lookup by key turns back into the code
\* that was asked for, unless the set passes codes through.
Inverts(tables, call) ==
  LET c == answer.counterparty IN
  answer # NoLookup /\ answer.call = call /\ answer.result # NotFound =>
    \/ tables[c].passthrough
    \/ ByKey(tables, answer.result, c) = answer.code

\* An order converted on its way in and converted back on its way out names the
\* symbol and the exchange it came with, whichever key the map search met
\* first; symbols and exchanges are never looked up in one another's table.
RoundTrip == Inverts(symbols, "ToSender") /\ Inverts(exchanges, "ExchangeToSender")
=============================================================================
