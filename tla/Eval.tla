---------------------------------- MODULE Eval ----------------------------------
(***************************************************************************)
(* The expression parser (cexp.y), which evaluates while it parses: one     *)
(* action per kind of reduction, on bison's stack of semantic values.  An   *)
(* operand of && or || that is skipped is parsed and reduced like any       *)
(* other; evalInhibit keeps its effects from happening.  A rule whose       *)
(* effect is inhibited returns what bison left in its first symbol.         *)
(*                                                                          *)
(* The actions follow each other as in an expression with a parenthesis     *)
(* around every operand, so that every tree of operators is built.          *)
(***************************************************************************)
EXTENDS Types, FiniteSets, SequencesExt

CONSTANTS
    Symbols,      \* variables of the symbol tables (VAR)
    UserNames,    \* names of user variables (IDENT, then UVAR)
    Address,      \* of each variable
    SymbolType,   \* the type of each symbol
    Literals,     \* numbers and strings that lines contain
    EvalOps,      \* binary operators that lines contain
    EvalTypes,    \* types that lines cast to and define
    InhibitBits,  \* bits of evalInhibit, an unsigned long
    StrSlots,     \* entries of lineStrTbl, 10 in the code
    MaxStack,     \* bound on the parser's stack
    MaxLength,    \* bound on the reductions and lines
    MaxCalls      \* bound on the calls of functions

VARIABLES
    stack,        \* bison's stack of semantic values
    evalInhibit,  \* ctx->evalInhibit
    lost,         \* history: evalInhibit has overflowed in this line
    cells,        \* the variables that exist: type, and what was stored
    lineStrTbl,   \* ctx->lineStrTbl
    calls,        \* number of functions that were called
    length,       \* reductions and lines so far
    status,       \* how the line ended, or "parsing"
    rval          \* ctx->rval and its type

vars == <<stack, evalInhibit, lost, cells, lineStrTbl, calls, length, status, rval>>

Variables == Symbols \cup UserNames

ASSUME AddressesApart ==
    /\ Address \in [Variables -> Numbers(TULong) \ {0}]
    /\ \A v, w \in Variables : Address[v] = Address[w] => v = w
ASSUME BoundsOK == InhibitBits \in Nat \ {0} /\ StrSlots \in Nat \ {0} /\ MaxStack \in Nat
ASSUME InhibitPowers == \A n \in 0..InhibitBits : 2^n \in Nat \ {0} /\ 2^(n + 1) = 2 * 2^n
ASSUME LinesTyped ==
    /\ SymbolType \in [Symbols -> CexpTypes]
    /\ \A x \in Literals : x.type \in CexpTypes
    /\ EvalTypes \subseteq CexpTypes
    /\ EvalOps \subseteq BinOps

\* What the parser's stack holds.  clean is history: no part of the value was
\* left over by a rule that was inhibited.
Val(x, clean) == [k |-> "val", x |-> x, clean |-> clean]
Lval(t, a, clean) == [k |-> "lval", x |-> Value(t, a), clean |-> clean]
Mark(op, cond, clean) == [k |-> op, cond |-> cond, clean |-> clean]
Name(n) == [k |-> "ident", name |-> n]

\* A cell holds a number that was stored with type st.
Cell(t, st, n) == [type |-> t, st |-> st, n |-> n]

Init ==
    /\ stack = <<>> /\ evalInhibit = 0 /\ lost = FALSE
    /\ cells = [v \in Symbols |-> Cell(SymbolType[v], SymbolType[v], 0)]
    /\ lineStrTbl = {} /\ calls = 0 /\ length = 0
    /\ status = "parsing" /\ rval = Zero

-----------------------------------------------------------------------------
(* Memory *)

AtAddress(a) == {v \in DOMAIN cells : Address[v] = a}

\* The numbers that a type reads where another was stored.
Reads(c, t) ==
    IF c.st = t \/ (~FPQ(c.st) /\ ~FPQ(t) /\ TYPE_SIZE(c.st) = TYPE_SIZE(t)) THEN {c.n}
    ELSE IF FPQ(t) THEN {0, Inexact}
    ELSE Numbers(t)

\* The value of an address.  Where no variable is, the CPU takes an exception.
cexpTA2TV(lv) ==
    IF lv.v = 0 \/ lv.type = TVoid THEN Error
    ELSE IF AtAddress(lv.v) = {} THEN Fault
    ELSE UNION {UNION {Ok(Value(lv.type, n)) : n \in Reads(cells[v], lv.type)} :
                  v \in AtAddress(lv.v)}

\* The outcomes of an assignment: the value that is stored.
cexpTVAssign(lv, x) ==
    Then(cexpTypeCast(x, lv.type, FALSE), LAMBDA y :
           IF lv.type = TVoid THEN Error
           ELSE IF AtAddress(lv.v) = {} THEN Fault ELSE Ok(y))

Stored(a, y) ==
    [v \in DOMAIN cells |-> IF Address[v] = a THEN Cell(cells[v].type, y.type, y.v)
                                             ELSE cells[v]]

cexpTVPtr(v) ==
    IF PTRQ(cells[v].type) THEN Error ELSE Ok(Value(BASE2PTR(cells[v].type), Address[v]))

-----------------------------------------------------------------------------
(* The parser *)

Entry(i) == stack[Len(stack) - i]
Kind(i) == IF i < Len(stack) THEN Entry(i).k ELSE "none"
Under(n) == SubSeq(stack, 1, Len(stack) - n)
Clean(n) == \A i \in 0..(n - 1) : Entry(i).clean

\* Mutant: only the innermost operand is looked at.
InnermostEVAL == evalInhibit % 2 = 0

\* EVAL(stuff) is executed.
EVAL == evalInhibit = 0

Parsing == status = "parsing" /\ length < MaxLength

\* An error: the parser pops its stack and returns.
GiveUp(err) == stack' = <<>> /\ status' = err

\* Shift a token, or reduce without an effect.
Shift(entry) ==
    /\ Parsing /\ Len(stack) < MaxStack
    /\ stack' = Append(stack, entry)
    /\ UNCHANGED <<evalInhibit, lost, cells, calls, status, rval>>

\* The top n entries become a value, or CHECK reports an error and the parser
\* gives up.
Result(n, r, clean) ==
    IF r.err = "ok"
      THEN stack' = Append(Under(n), Val(r.y, clean)) /\ status' = status
      ELSE GiveUp(r.err)

Reduce(n, outcomes) ==
    /\ Parsing
    /\ \E r \in outcomes : Result(n, r, Clean(n))
    /\ UNCHANGED <<evalInhibit, lost, cells, lineStrTbl, calls, rval>>

Number == \E x \in Literals : Shift(Val(x, TRUE)) /\ UNCHANGED lineStrTbl

\* VAR or UVAR: the lexer looks the name up in the symbol tables first.
Variable == \E v \in DOMAIN cells :
    /\ Shift(Lval(cells[v].type, Address[v], TRUE))
    /\ UNCHANGED lineStrTbl

\* Mutant: the name is not kept.
IdentNotKept == \E n \in UserNames \ DOMAIN cells :
    Shift(Name(n)) /\ UNCHANGED lineStrTbl

\* lstAddString: the name of an undefined symbol is kept for this line.
Ident == \E n \in UserNames \ DOMAIN cells :
    /\ n \in lineStrTbl \/ Cardinality(lineStrTbl) < StrSlots
    /\ lineStrTbl' = lineStrTbl \cup {n}
    /\ Shift(Name(n))

\* '&' nonfuncvar
AddressOf == \E v \in DOMAIN cells : Len(stack) < MaxStack /\ Reduce(0, cexpTVPtr(v))

Deref ==
    /\ Kind(0) = "val" /\ Parsing
    /\ LET x == Entry(0).x IN
       IF ~PTRQ(x.type) \/ FUNQ(x.type)
         THEN GiveUp("error")
         ELSE /\ stack' = Append(Under(1), Lval(PTR2BASE(x.type), x.v, Entry(0).clean))
              /\ status' = status
    /\ UNCHANGED <<evalInhibit, lost, cells, lineStrTbl, calls, rval>>

\* What is left where a value should be read: the address of the variable.  Its
\* type is the variable's if an address is as wide as a double, else the number
\* of the operator is taken for the type.
Leftover(lv, op) ==
    {lv, CASE op = "ONoop" -> Value(TFuncP, lv.v)
           [] op = "OAdd"  -> Value(Pointer("float"), lv.v)
           [] op = "OSub"  -> Value(TDouble, Inexact)}

\* postfix and prefix: the value of a variable, which ++ and -- change.  ret is
\* the value of the expression, new the variable's.
Stepped(lv, op, post) ==
    Then(cexpTA2TV(lv), LAMBDA x :
      IF op = "ONoop" THEN Ok([ret |-> x, new |-> x])
      ELSE Then(cexpTVBinOp(x, Value(TUChar, 1), op), LAMBDA y :
           Then(cexpTVAssign(lv, y), LAMBDA z :
             Ok([ret |-> IF post THEN x ELSE y, new |-> z]))))

Read == \E op \in {"ONoop", "OAdd", "OSub"}, post \in BOOLEAN :
    /\ Kind(0) = "lval" /\ Parsing
    /\ LET lv == Entry(0).x IN
       IF EVAL
         THEN \E r \in Stepped(lv, op, post) :
                IF r.err = "ok"
                  THEN /\ stack' = Append(Under(1), Val(r.y.ret, Entry(0).clean))
                       /\ cells' = IF op = "ONoop" THEN cells ELSE Stored(lv.v, r.y.new)
                       /\ status' = status
                  ELSE GiveUp(r.err) /\ cells' = cells
         ELSE /\ \E x \in Leftover(lv, op) : stack' = Append(Under(1), Val(x, FALSE))
              /\ UNCHANGED <<cells, status>>
    /\ UNCHANGED <<evalInhibit, lost, lineStrTbl, calls, rval>>

\* The type and value of a new variable, or of an old one that lost both.
varCreate(n, t) ==
    [v \in DOMAIN cells \cup {n} |-> IF v = n THEN Cell(t, t, 0) ELSE cells[v]]

\* lval '=' exp and lval MODOP exp
Assign == \E op \in EvalOps \cup {"ONoop"} :
    /\ Kind(0) = "val" /\ Kind(1) = "lval" /\ Parsing
    /\ LET lv == Entry(1).x
           new == IF op = "ONoop" THEN Ok(Entry(0).x)
                  ELSE Then(cexpTA2TV(lv), LAMBDA x : cexpTVBinOp(x, Entry(0).x, op)) IN
       IF EVAL
         THEN \E r \in Then(new, LAMBDA x :
                         Then(cexpTVAssign(lv, x), LAMBDA y : Ok([ret |-> x, new |-> y]))) :
                IF r.err = "ok"
                  THEN /\ stack' = Append(Under(2), Val(r.y.ret, Clean(2)))
                       /\ cells' = Stored(lv.v, r.y.new)
                       /\ status' = status
                  ELSE GiveUp(r.err) /\ cells' = cells
         ELSE /\ IF op = "ONoop" THEN stack' = Append(Under(2), Entry(0))
                 ELSE \E x \in Leftover(lv, "ONoop") : stack' = Append(Under(2), Val(x, FALSE))
              /\ UNCHANGED <<cells, status>>
    /\ UNCHANGED <<evalInhibit, lost, lineStrTbl, calls, rval>>

\* IDENT '=' exp; the variable may exist by now.  There may be no memory for it.
Create == \E full \in BOOLEAN :
    /\ Kind(0) = "val" /\ Kind(1) = "ident" /\ Parsing
    /\ LET x == Entry(0).x IN
       IF EVAL
         THEN IF full
                THEN GiveUp("error") /\ cells' = cells
                ELSE /\ cells' = [varCreate(Entry(1).name, x.type)
                                    EXCEPT ![Entry(1).name].n = x.v]
                     /\ stack' = Append(Under(2), Entry(0))
                     /\ status' = status
         ELSE stack' = Append(Under(2), Entry(0)) /\ UNCHANGED <<cells, status>>
    /\ UNCHANGED <<evalInhibit, lost, lineStrTbl, calls, rval>>

BinOp == \E op \in EvalOps :
    Kind(0) = "val" /\ Kind(1) = "val" /\ Reduce(2, cexpTVBinOp(Entry(1).x, Entry(0).x, op))

UnOp == \E op \in {"OCpl", "ONeg"} : Kind(0) = "val" /\ Reduce(1, cexpTVUnOp(Entry(0).x, op))

Not == Kind(0) = "val" /\ Reduce(1, Then(cexpTVTrueQ(Entry(0).x), LAMBDA t : Ok(Truth(t.v = 0))))

Cast == \E t \in EvalTypes : Kind(0) = "val" /\ Reduce(1, cexpTypeCast(Entry(0).x, t, TRUE))

\* commaexp ',' exp
Comma ==
    /\ Kind(0) = "val" /\ Kind(1) = "val" /\ Parsing
    /\ stack' = Append(Under(2), Entry(0))
    /\ UNCHANGED <<evalInhibit, lost, cells, lineStrTbl, calls, status, rval>>

\* Whether the right operand is skipped.
Inhibits(op, cond) == IF op = "and" THEN ~cond ELSE cond

PSHEVAL(i, inh) == (2 * i + (IF inh THEN 1 ELSE 0)) % 2^InhibitBits
\* Mutant: the bit of the operand stays.
POPEVALForgotten(i) == i
POPEVAL(i) == i \div 2

\* Mutant: a line inherits the bits of one that failed.
InhibitOnResetKept == evalInhibit

Marks(s) == Cardinality({i \in DOMAIN s : s[i].k \in {"or", "and"}})

\* binexp OR, binexp AND: the left operand is known.
Condition == \E op \in {"or", "and"} :
    /\ Kind(0) = "val" /\ Parsing
    /\ \E r \in cexpTVTrueQ(Entry(0).x) :
         IF r.err = "ok"
           THEN /\ stack' = Append(Under(1), Mark(op, r.y.v # 0, Entry(0).clean))
                /\ evalInhibit' = PSHEVAL(evalInhibit, Inhibits(op, r.y.v # 0))
                /\ status' = status
           ELSE GiveUp(r.err) /\ evalInhibit' = evalInhibit
    /\ lost' = (lost \/ Marks(stack') > InhibitBits)
    /\ UNCHANGED <<cells, lineStrTbl, calls, rval>>

\* or binexp, and binexp: C's own || and && do not look at a skipped operand.
Decided(m, x) ==
    IF Inhibits(m.k, m.cond) THEN Ok(Truth(m.cond)) ELSE cexpTVTrueQ(x)

Operand ==
    /\ Kind(0) = "val" /\ Kind(1) \in {"or", "and"} /\ Parsing
    /\ LET m == Entry(1) IN
       \E r \in Decided(m, Entry(0).x) :
         /\ Result(2, r, m.clean /\ (Inhibits(m.k, m.cond) \/ Entry(0).clean))
         /\ evalInhibit' = IF r.err = "ok" THEN POPEVAL(evalInhibit) ELSE evalInhibit
    /\ UNCHANGED <<lost, cells, lineStrTbl, calls, rval>>

\* A call with n arguments.  A function returns a long, or a double.
Call == \E n \in 0..MaxStack :
    /\ Parsing /\ n < Len(stack) /\ \A i \in 0..n : Kind(i) = "val"
    /\ LET fn == Entry(n).x
           args == [i \in 1..n |-> Entry(n - i).x] IN
       IF EVAL
         THEN \E r \in cexpTVFnCall(fn, args) :
                IF r.err = "ok"
                  THEN /\ calls < MaxCalls /\ calls' = calls + 1
                       /\ \E y \in {0, 1} : stack' = Append(Under(n + 1), Val(Value(PTR2BASE(fn.type), y), Clean(n + 1)))
                       /\ status' = status
                  ELSE GiveUp(r.err) /\ calls' = calls
         ELSE /\ stack' = Append(Under(n + 1), Val(fn, FALSE))
              /\ UNCHANGED <<calls, status>>
    /\ UNCHANGED <<evalInhibit, lost, cells, lineStrTbl, rval>>

\* symmethod '(' ... ')': the help of a symbol is printed, or replaced by a
\* string.
Member == \E v \in DOMAIN cells, n \in {0, 1} :
    /\ Parsing /\ n <= Len(stack) /\ (n = 1 => Kind(0) = "val") /\ Len(stack) - n < MaxStack
    /\ IF EVAL
         THEN IF n = 1 /\ Entry(0).x.type \notin {Pointer("char"), Plain("int"), TULong}
                THEN GiveUp("error") /\ calls' = calls
                ELSE /\ calls < MaxCalls /\ calls' = calls + 1
                     /\ stack' = Append(Under(n), Val(Value(Pointer("char"), 0), Clean(n)))
                     /\ status' = status
         ELSE /\ stack' = Append(Under(n), Val(Value(TFuncP, Address[v]), FALSE))
              /\ UNCHANGED <<calls, status>>
    /\ UNCHANGED <<evalInhibit, lost, cells, lineStrTbl, rval>>

\* "typeid anyvar": the type is changed before the parser sees whether the mark
\* follows that allows it.
Redefine == \E v \in DOMAIN cells, t \in EvalTypes, mark \in BOOLEAN :
    /\ stack = <<>> /\ Parsing /\ length' = length + 1
    /\ cells' = [cells EXCEPT ![v] = Cell(t, @.st, @.n)]
    /\ IF mark
         THEN \E n \in Reads(cells[v], t) : rval' = Value(t, n) /\ status' = "ok"
         ELSE rval' = rval /\ status' = "error"
    /\ UNCHANGED <<stack, evalInhibit, lost, lineStrTbl, calls>>

\* "typeid IDENT"
Define == \E n \in UserNames \ DOMAIN cells, t \in EvalTypes :
    /\ stack = <<>> /\ Parsing /\ length' = length + 1
    /\ cells' = varCreate(n, t)
    /\ lineStrTbl' = {n} /\ rval' = Value(t, 0) /\ status' = "ok"
    /\ UNCHANGED <<stack, evalInhibit, lost, calls>>

\* The end of the line after an expression, which is printed, and made the
\* result.
EndOfLine ==
    /\ status = "parsing" /\ Len(stack) = 1 /\ Kind(0) = "val"
    /\ status' = "ok" /\ stack' = <<>>
    /\ rval' = IF Entry(0).x.type = TVoid THEN rval ELSE Entry(0).x
    /\ UNCHANGED <<evalInhibit, lost, cells, lineStrTbl, calls, length>>

\* Anywhere else it is a syntax error; so is a token that does not fit.
SyntaxError ==
    /\ status = "parsing"
    /\ GiveUp("error")
    /\ UNCHANGED <<evalInhibit, lost, cells, lineStrTbl, calls, rval, length>>

InhibitOnReset == 0

\* cexpResetParserCtx: the next line.  After an exception the shell goes on too;
\* a failed assertion ends the program.
Reset ==
    /\ status \in {"ok", "error", "fault"} /\ length < MaxLength
    /\ evalInhibit' = InhibitOnReset /\ lost' = FALSE
    /\ lineStrTbl' = {} /\ status' = "parsing" /\ length' = length + 1
    /\ UNCHANGED <<stack, cells, calls, rval>>

Reduction ==
    /\ \/ Number \/ Variable \/ Ident \/ AddressOf \/ Deref \/ Read \/ Assign \/ Create
       \/ BinOp \/ UnOp \/ Not \/ Cast \/ Comma \/ Condition \/ Operand \/ Call \/ Member
    /\ length' = length + 1

Next == Reduction \/ Redefine \/ Define \/ EndOfLine \/ SyntaxError \/ Reset

Spec == Init /\ [][Next]_vars

-----------------------------------------------------------------------------
(* Properties *)

TypeOK ==
    /\ stack \in Seq(ToSet(stack))
    /\ \A i \in DOMAIN stack : stack[i].k \in {"val", "lval", "or", "and", "ident"}
    /\ \A i \in DOMAIN stack : stack[i].k \in {"val", "lval"} => stack[i].x.type \in CexpTypes
    /\ evalInhibit \in 0..(2^InhibitBits - 1) /\ lost \in BOOLEAN
    /\ Symbols \subseteq DOMAIN cells /\ DOMAIN cells \subseteq Variables
    /\ \A v \in DOMAIN cells : cells[v].type \in CexpTypes
    /\ lineStrTbl \subseteq UserNames
    /\ IsFiniteSet(lineStrTbl) /\ Cardinality(lineStrTbl) <= StrSlots
    /\ \A i \in DOMAIN stack : stack[i].k = "ident" => stack[i].name \in lineStrTbl
    /\ status \in {"parsing", "ok", "error", "fault", "abort"}
    /\ status # "parsing" => stack = <<>>

\* C skips the right operand of this || or &&.
Skips(e) == (e.k = "or" /\ e.cond) \/ (e.k = "and" /\ ~e.cond)

\* The operand that is being parsed is skipped.
Skipped == \E i \in DOMAIN stack : Skips(stack[i])

\* One bit for each && and || whose right operand is being parsed, the innermost
\* last: whether it is skipped.
SkipBits(s) ==
    LET bits[i \in 0..Len(s)] ==
          IF i = 0 THEN 0
          ELSE IF s[i].k \notin {"or", "and"} THEN bits[i - 1]
          ELSE 2 * bits[i - 1] + (IF Skips(s[i]) THEN 1 ELSE 0)
    IN bits[Len(s)]

\* evalInhibit has the bit of every && and || whose right operand is being
\* parsed: a line starts with none, however the line before it ended.  More of
\* them than an unsigned long has bits are lost.
InhibitAgrees ==
    ~lost /\ status = "parsing" => evalInhibit = SkipBits(stack) /\ Marks(stack) <= InhibitBits

\* The state of the parser is the one that the line so far asks for.
WellFormed == TypeOK /\ InhibitAgrees

\* What a rule left over that was inhibited stays within the operand that is
\* skipped: no value outside depends on it.
CleanResults ==
    ~lost => \A i \in DOMAIN stack : stack[i].k # "ident" /\ ~stack[i].clean =>
        \E j \in 1..(i - 1) : Skips(stack[j])

\* && and || "with the correct semantics, i.e. conditional evaluation of
\* expression parts" (README): while an operand is skipped no variable changes,
\* none is created and no function is called.
SkippedNoEffect == [][Skipped /\ ~lost => UNCHANGED <<cells, calls, rval>>]_vars

\* The type engine, below everything that is evaluated: "set CNV_FORCE if you
\* want to allow for losing information" (ctyps.h), and no conversion loses any
\* without it.
ImplicitExact == length = 0 => ConversionsExact

\* Arithmetic is C's modulo the width of the wider operand.
ArithmeticModular == length = 0 => ModularArithmetic

\* Unsigned differences of pointers undo the steps between them.
PointersReturn == length = 0 => ReturningPointers

\* A function gets each argument in the class of its type.
CallClasses == length = 0 => ClassesOfCalls

\* What every expression rests on: conversions, arithmetic, pointers and the
\* arguments of calls are those of C (ctyps.c).
EngineExact == ImplicitExact /\ ArithmeticModular /\ PointersReturn /\ CallClasses
=============================================================================
