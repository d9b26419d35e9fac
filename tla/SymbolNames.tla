---------------------------- MODULE SymbolNames ----------------------------
(***************************************************************************)
(* The names of symbols and how operands of an instruction are written:    *)
(* F2003fMCAsmInfo.cpp, F2003fInstPrinter.cpp, and the functions of LLVM   *)
(* that make names.  Names and texts are sequences of character codes.     *)
(* 2003lk has no declarations for its operands: what a piece of text means *)
(* is decided by its spelling alone.                                       *)
(***************************************************************************)
EXTENDS Naturals, FiniteSets, SequencesExt

CONSTANTS
    GlobalNames,   \* names the program gives its globals
    Anonymous,     \* numbers of its globals without a name
    Labels,        \* function number and block number of its labels
    Tables,        \* function number and index of its jump tables
    Immediates,    \* immediate operands
    MaxWritten     \* bound on the operands and labels written

ASSUME NamesAssumption == /\ GlobalNames \subseteq Seq(0 .. 255) \ {<<>>}
                          /\ Anonymous \subseteq Nat
                          /\ Labels \subseteq Nat \X Nat
                          /\ Tables \subseteq Nat \X Nat
                          /\ Immediates \subseteq Nat

VARIABLES
    symbols,       \* MCContext::Symbols: the owners of each symbol, by name
    written        \* the labels and operands written so far: [what, as, text]

namesVars == <<symbols, written>>

---------------------------------------------------------------------------
(* Names *)

Quote == 39
Underscore == 95
Lower == 97 .. 122
Upper == 65 .. 90
Digit == 48 .. 57

Decimal[n \in Nat] ==
    IF n < 10 THEN <<48 + n>> ELSE Append(Decimal[n \div 10], 48 + (n % 10))

Global == [kind : {"global"}, name : GlobalNames]
Unnamed == [kind : {"unnamed"}, id : Anonymous]
Block == [kind : {"block"}, at : Labels]
JumpTable == [kind : {"table"}, at : Tables]
Generated == Unnamed \cup Block \cup JumpTable
Entity == Global \cup Generated

\* "BB", "JTI" and "__unnamed_", with the empty prefixes of F2003fMCAsmInfo
\* and of the data layout
TableName(at) == <<74, 84, 73>> \o Decimal[at[1]] \o <<Underscore>> \o Decimal[at[2]]
UnnamedName(id) == <<95, 95, 117, 110, 110, 97, 109, 101, 100, 95>> \o Decimal[id]

\* Faulty: without the separator
BlockNameRunTogether(at) == <<66, 66>> \o Decimal[at[1]] \o Decimal[at[2]]

BlockName(at) == <<66, 66>> \o Decimal[at[1]] \o <<Underscore>> \o Decimal[at[2]]

SymbolName(e) ==
    CASE e.kind = "global"  -> e.name
      [] e.kind = "unnamed" -> UnnamedName(e.id)
      [] e.kind = "block"   -> BlockName(e.at)
      [] e.kind = "table"   -> TableName(e.at)

getOrCreateSymbol(e) ==
    LET name == SymbolName(e)
        owners == IF name \in DOMAIN symbols THEN symbols[name] ELSE {}
    IN  [n \in DOMAIN symbols \cup {name} |->
            IF n = name THEN owners \cup {e} ELSE symbols[n]]

---------------------------------------------------------------------------
(* Text *)

isAcceptableChar(c) ==
    c \in Lower \cup Digit \cup {70, 82, 86, 88, Quote, Underscore, 45}

RegName(r) == <<102, 48 + r>>
XX == <<120, 120>>

isValidUnquotedName(name) ==
    /\ name \notin {RegName(r) : r \in 0 .. 7} \cup {XX}
    /\ name[1] # Quote
    /\ \A i \in DOMAIN name : isAcceptableChar(name[i])
    /\ \E i \in DOMAIN name : name[i] <= 48 \/ name[i] >= 57

hexdigit(x) == IF x < 10 THEN 48 + x ELSE 87 + x

\* Faulty: an apostrophe is written as it is, and so is a strange character
QuotedOnce(c) ==
    IF c \in Upper \ {70, 82, 86, 88} THEN <<Quote, c + 32>> ELSE <<c>>

Quoted(c) ==
    CASE c = Quote -> <<Quote, Quote>>
      [] c # Quote /\ isAcceptableChar(c) -> <<c>>
      [] c \in Upper /\ ~isAcceptableChar(c) -> <<Quote, c + 32>>
      [] OTHER -> <<Quote, 120, hexdigit(c \div 16), hexdigit(c % 16)>>

printQuotedName(name) ==
    <<Quote>> \o FlattenSeq([i \in DOMAIN name |-> Quoted(name[i])])

printSymbol(name) ==
    IF isValidUnquotedName(name) THEN name ELSE printQuotedName(name)

Dollar == 36
LeftParen == 40
RightParen == 41

\* MCExpr::print: as an operand, a symbol whose name starts with $ stands in
\* parentheses.
printExpr(name) ==
    IF name[1] = Dollar THEN <<LeftParen>> \o printSymbol(name) \o <<RightParen>>
    ELSE printSymbol(name)

Operand == [kind : {"register"}, reg : {0, 1, 2, 3, 5}]
           \cup [kind : {"xx"}] \cup [kind : {"imm"}, value : Immediates]

printOperand(op) ==
    CASE op.kind = "register" -> RegName(op.reg)
      [] op.kind = "xx"       -> XX
      [] op.kind = "imm"      -> Decimal[op.value]

---------------------------------------------------------------------------
NamesInit == symbols = <<>> /\ written = {}

MayWrite == Cardinality(written) < MaxWritten

\* A symbol as a label, or in the statement that exports or imports it, is
\* written by MCSymbol::print.
WriteLabel(e) ==
    /\ MayWrite
    /\ symbols' = getOrCreateSymbol(e)
    /\ written' = written \cup
           {[what |-> [kind |-> "symbol", name |-> SymbolName(e)], as |-> "label",
             text |-> printSymbol(SymbolName(e))]}

\* As an operand of an instruction it is an expression.
WriteSymbol(e) ==
    /\ MayWrite
    /\ symbols' = getOrCreateSymbol(e)
    /\ written' = written \cup
           {[what |-> [kind |-> "symbol", name |-> SymbolName(e)], as |-> "operand",
             text |-> printExpr(SymbolName(e))]}

\* a register or an immediate
WriteOperand(op) ==
    /\ MayWrite
    /\ written' = written \cup {[what |-> op, as |-> "operand", text |-> printOperand(op)]}
    /\ UNCHANGED symbols

Finished == ~MayWrite /\ UNCHANGED namesVars

NamesNext == \/ \E e \in Entity : WriteLabel(e)
             \/ \E e \in Entity : WriteSymbol(e)
             \/ \E op \in Operand : WriteOperand(op)
             \/ Finished

NamesSpec == NamesInit /\ [][NamesNext]_namesVars

---------------------------------------------------------------------------
(* Properties *)

\* An operand that MCExpr::print puts in parentheses.
InParens(w) ==
    w.as = "operand" /\ w.what.kind = "symbol" /\ w.what.name[1] = Dollar

\* Two labels or operands written alike are the same register or the same
\* symbol: no quoted name is spelled like another one, like an unquoted one, or
\* like a register; and whatever characters a name has, its text has only those
\* that 2003lk accepts, but for the parentheses about an operand whose name
\* starts with $.  (isValidUnquotedName, printQuotedName, MCExpr::print)
TextTellsSymbols ==
    /\ \A w \in written : w.text # <<>> /\ \A i \in DOMAIN w.text :
          \/ isAcceptableChar(w.text[i])
          \/ InParens(w) /\ w.text[i] \in {LeftParen, RightParen}
    /\ \A v, w \in written :
        v.text = w.text /\ v.what.kind # "imm" /\ w.what.kind # "imm" => v.what = w.what

\* The labels the compiler invents for blocks, jump tables and unnamed
\* globals are different symbols.  (MachineBasicBlock::getSymbol,
\* MachineFunction::getJTISymbol, Mangler::getNameWithPrefix)
InventedNamesDiffer ==
    \A n \in DOMAIN symbols : Cardinality(symbols[n] \cap Generated) <= 1

\* No symbol is spelled like a number: a name that would be is quoted.
NumbersAreNotSymbols ==
    \A v, w \in written :
        v.what.kind = "imm" /\ w.what.kind = "symbol" => v.text # w.text

\* A symbol is spelled as an operand as it is spelled as a label.
SymbolsHaveOneSpelling ==
    \A v, w \in written : v.what = w.what => v.text = w.text

\* A global that takes part in linkage and a label of the compiler are never
\* one symbol.
GlobalsKeepTheirNames ==
    \A n \in DOMAIN symbols : Cardinality(symbols[n]) <= 1
===========================================================================
