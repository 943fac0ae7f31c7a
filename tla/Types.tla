--------------------------------- MODULE Types ---------------------------------
(***************************************************************************)
(* The type engine (ctyps.c): typed values, their conversions, the binary  *)
(* and unary operators and the argument list of a function call.  All      *)
(* integral types are unsigned and have the width of the target's, in      *)
(* units of CHAR_BIT bits.  A floating point value is a whole number that  *)
(* its type holds exactly, or Inexact.  An operation has a set of          *)
(* outcomes: one, or several where C leaves the result undefined.          *)
(***************************************************************************)
EXTENDS Integers, Sequences

CONSTANTS
    CHAR_BIT,    \* bits of a char
    SizeOf,      \* sizes of the types, of "ptr" and of C's "int", in chars
    FloatBits,   \* bits of a float's mantissa, 24 in the code
    DoubleBits,  \* bits of a double's mantissa
    MAXARGS,     \* integer arguments of a function call
    MAXBITS,     \* arguments of a function call with floating point arguments
    Inexact      \* a floating point number that is not tracked; it is not 0

Integral == {"char", "short", "int", "long"}
Floating == {"float", "double"}
Bases == {"void"} \cup Integral \cup Floating

ASSUME WidthsOK ==
    /\ CHAR_BIT \in Nat \ {0} /\ FloatBits \in Nat /\ DoubleBits \in Nat
    /\ SizeOf \in [Bases \cup {"ptr"} -> Nat] /\ SizeOf["void"] = 0
    /\ MAXBITS \in Nat /\ MAXARGS \in Nat /\ MAXBITS <= MAXARGS
ASSUME InexactIsNoNumber == Inexact \notin Int

\* Types, and pointers to them; function pointers are named by their result.
Plain(b) == [base |-> b, kind |-> "val"]
Pointer(b) == [base |-> b, kind |-> "ptr"]
TUChar == Plain("char")
TULong == Plain("long")
TFloat == Plain("float")
TDouble == Plain("double")
TVoid == Plain("void")
TFuncP == [base |-> "long", kind |-> "fun"]
TDFuncP == [base |-> "double", kind |-> "fun"]
CexpTypes == {Plain(b) : b \in Bases} \cup {Pointer(b) : b \in Bases} \cup {TFuncP, TDFuncP}

PTRQ(t) == t.kind # "val"
FUNQ(t) == t.kind = "fun"
SCALARQ(t) == t.kind = "val" /\ t.base \in Integral
FPQ(t) == t.kind = "val" /\ t.base \in Floating
PTR2BASE(t) == Plain(t.base)
BASE2PTR(t) == Pointer(t.base)
BASE_TYPE_SIZE(t) == IF t = Pointer("void") THEN SizeOf["char"] ELSE SizeOf[t.base]
TYPE_SIZE(t) == IF PTRQ(t) THEN SizeOf["ptr"] ELSE BASE_TYPE_SIZE(t)

Bits(t) == CHAR_BIT * TYPE_SIZE(t)
LongBits == Bits(TULong)
IntBits == CHAR_BIT * SizeOf["int"]

\* The values of an integral or pointer type.
Numbers(t) == 0..(2^Bits(t) - 1)

Value(t, n) == [type |-> t, v |-> n]

\* The numbers of bits that occur, and what 2^n is up to them.
Widths == {Bits(t) : t \in CexpTypes} \cup {FloatBits, DoubleBits, MAXBITS}
ASSUME PowersOfTwo ==
    \A w \in Widths : \A n \in 0..w : 2^n \in Nat \ {0} /\ 2^(n + 1) = 2 * 2^n

-----------------------------------------------------------------------------
(* Outcomes *)

Ok(y) == {[err |-> "ok", y |-> y]}
Zero == Value(TULong, 0)
Error == {[err |-> "error", y |-> Zero]}   \* an error message is returned
Fault == {[err |-> "fault", y |-> Zero]}   \* the CPU takes an exception
Abort == {[err |-> "abort", y |-> Zero]}   \* a failed assertion

\* What follows if an operation returns no error message.
Then(outcomes, F(_)) ==
    UNION {IF r.err = "ok" THEN F(r.y) ELSE {r} : r \in outcomes}

-----------------------------------------------------------------------------
(* Conversions *)

Mantissa(t) == IF t = TFloat THEN FloatBits ELSE DoubleBits
RoundTo(t, n) ==
    IF n # Inexact /\ -(2^Mantissa(t)) < n /\ n < 2^Mantissa(t) THEN n ELSE Inexact

\* The converters of ctab.  A floating point number that the target cannot hold
\* gives any number.
Converted(v, t) ==
    IF FPQ(t) THEN {Value(t, RoundTo(t, v.v))}
    ELSE IF FPQ(v.type) /\ (v.v = Inexact \/ v.v \notin Numbers(t))
      THEN {Value(t, n) : n \in Numbers(t)}
    ELSE {Value(t, v.v % 2^Bits(t))}

\* n < (1<<w), which is undefined if w is not below the width of an int.
BelowPower(n, w) == IF w >= IntBits THEN BOOLEAN ELSE {n < 2^w}

\* Mutant: a value is compared with the largest of the type.
fitsBelowMax(v, t) ==
    IF FPQ(t) /\ ~FPQ(v.type) /\ t = TFloat
      THEN {v.type \in {TULong, Plain("int")} => v.v <= 2^FloatBits}
    ELSE IF ~FPQ(t) /\ FPQ(v.type) THEN {FALSE}
    ELSE IF TYPE_SIZE(t) < TYPE_SIZE(v.type)
      THEN IF FPQ(v.type) THEN {FALSE} ELSE {v.v <= 2^Bits(t)}
    ELSE {TRUE}

\* Whether v fits into type t.
fits(v, t) ==
    IF FPQ(t) /\ ~FPQ(v.type) /\ t = TFloat
      THEN {v.type \in {TULong, Plain("int")} => v.v < 2^FloatBits}
    ELSE IF ~FPQ(t) /\ FPQ(v.type) THEN {FALSE}
    ELSE IF TYPE_SIZE(t) < TYPE_SIZE(v.type)
      THEN IF FPQ(v.type) THEN {FALSE} ELSE BelowPower(v.v, Bits(t))
    ELSE {TRUE}

\* force is the flag CNV_FORCE.
cexpTypeCast(v, t, force) ==
    IF PTRQ(v.type) /\ PTRQ(t)
      THEN IF ~force /\ BASE_TYPE_SIZE(t) > BASE_TYPE_SIZE(v.type)
             THEN Error ELSE Ok(Value(t, v.v))
    ELSE IF FPQ(v.type) /\ PTRQ(t) THEN Error
    ELSE UNION {IF fit THEN UNION {Ok(y) : y \in Converted(v, t)} ELSE Error :
                  fit \in IF force THEN {TRUE} ELSE fits(v, t)}

\* The smaller of two values gets the type of the larger; floating point types
\* are larger than others.
cexpTypePromote(a, b) ==
    LET aBig == IF FPQ(a.type) # FPQ(b.type) THEN FPQ(a.type)
                ELSE BASE_TYPE_SIZE(a.type) > BASE_TYPE_SIZE(b.type) IN
    IF PTRQ(a.type) \/ PTRQ(b.type) THEN Error
    ELSE IF aBig THEN Then(cexpTypeCast(b, a.type, FALSE), LAMBDA y : Ok(<<a, y>>))
    ELSE Then(cexpTypeCast(a, b.type, FALSE), LAMBDA y : Ok(<<y, b>>))

-----------------------------------------------------------------------------
(* Operators *)

Comparisons == {"OLt", "OLe", "OEq", "ONe", "OGe", "OGt"}
BinOps == Comparisons \cup {"OAdd", "OSub", "OMul", "ODiv", "OMod",
                            "OShL", "OShR", "OAnd", "OXor", "OOr"}

Truth(b) == Value(TULong, IF b THEN 1 ELSE 0)

Holds(op, a, b) ==
    CASE op = "OLt" -> a < b  [] op = "OLe" -> a <= b [] op = "OEq" -> a = b
      [] op = "ONe" -> a # b  [] op = "OGe" -> a >= b [] op = "OGt" -> a > b

compare(x1, x2, op) ==
    LET f == FPQ(x1.type) \/ FPQ(x2.type)
        t == IF f THEN TDouble ELSE TULong IN
    IF f /\ (PTRQ(x1.type) \/ PTRQ(x2.type)) THEN Error
    ELSE Then(cexpTypeCast(x1, t, FALSE), LAMBDA a :
         Then(cexpTypeCast(x2, t, FALSE), LAMBDA b :
           IF Inexact \in {a.v, b.v} THEN Ok(Truth(TRUE)) \cup Ok(Truth(FALSE))
                                     ELSE Ok(Truth(Holds(op, a.v, b.v)))))

Bit(a, i) == (a \div 2^i) % 2
\* Combine two numbers bit by bit.
BitByBit(op, a, b) ==
    LET F(x, y) == CASE op = "OAnd" -> x * y
                     [] op = "OXor" -> (x + y) % 2
                     [] op = "OOr" -> x + y - x * y
        upTo[i \in 0..LongBits] ==
          IF i = 0 THEN 0
          ELSE upTo[i - 1] + F(Bit(a, i - 1), Bit(b, i - 1)) * 2^(i - 1)
    IN upTo[LongBits]

\* What an operator does to two longs.
OnLongs(op, a, b) ==
    LET L(n) == Ok(Value(TULong, n % 2^LongBits)) IN
    CASE op = "OAdd" -> L(a + b)
      [] op = "OSub" -> L(a - b)
      [] op = "OMul" -> L(a * b)
      [] op \in {"ODiv", "OMod"} ->
           IF b = 0 THEN Fault ELSE IF op = "ODiv" THEN L(a \div b) ELSE L(a % b)
      [] op \in {"OShL", "OShR"} ->
           IF b >= LongBits THEN UNION {L(n) : n \in Numbers(TULong)}
           ELSE IF op = "OShL" THEN L(a * 2^b) ELSE L(a \div 2^b)
      [] op \in {"OAnd", "OXor", "OOr"} -> L(BitByBit(op, a, b))

OnFloats(op, t, a, b) ==
    IF op \notin {"OAdd", "OSub", "OMul", "ODiv"} THEN Error
    ELSE Ok(Value(t, IF a = Inexact \/ b = Inexact THEN Inexact
                     ELSE CASE op = "OAdd" -> RoundTo(t, a + b)
                            [] op = "OSub" -> RoundTo(t, a - b)
                            [] op = "OMul" -> RoundTo(t, a * b)
                            [] op = "ODiv" ->
                                 IF b # 0 /\ \E q \in -(2^DoubleBits)..2^DoubleBits : q * b = a
                                   THEN CHOOSE q \in -(2^DoubleBits)..2^DoubleBits : q * b = a
                                   ELSE Inexact))

\* Mutant: the result keeps the width of a long.
binopLong(x1, x2, op) ==
    IF SCALARQ(x1.type)
      THEN Then(cexpTypeCast(x1, TULong, FALSE), LAMBDA a :
           Then(cexpTypeCast(x2, TULong, FALSE), LAMBDA b : OnLongs(op, a.v, b.v)))
      ELSE OnFloats(op, x1.type, x1.v, x2.v)

\* Two values of the same type: integral ones are computed as longs.
binop(x1, x2, op) ==
    IF SCALARQ(x1.type)
      THEN Then(cexpTypeCast(x1, TULong, FALSE), LAMBDA a :
           Then(cexpTypeCast(x2, TULong, FALSE), LAMBDA b :
           Then(OnLongs(op, a.v, b.v), LAMBDA y : cexpTypeCast(y, x1.type, TRUE))))
      ELSE OnFloats(op, x1.type, x1.v, x2.v)

\* Mutant: a difference of chars.
PointerDiffChars(x1, x2, op) ==
    IF x1.type # x2.type \/ op # "OSub" THEN Error
    ELSE Ok(Value(TULong, (x1.v - x2.v) % 2^LongBits))

\* The difference of two pointers, as an unsigned number of elements.
PointerDiff(x1, x2, op) ==
    LET s == BASE_TYPE_SIZE(x1.type)
        diff == (x1.v - x2.v) % 2^LongBits IN
    IF x1.type # x2.type \/ op # "OSub" \/ diff % s # 0 THEN Error
    ELSE Ok(Value(TULong, diff \div s))

PointerStep(p, inc, op) ==
    IF op \notin {"OAdd", "OSub"} \/ \A r \in cexpTypeCast(inc, TULong, FALSE) : r.err # "ok"
      THEN Error
      ELSE Then(cexpTypeCast(inc, TULong, FALSE), LAMBDA n :
             LET d == n.v * BASE_TYPE_SIZE(p.type) IN
             Ok(Value(p.type, (IF op = "OSub" THEN p.v - d ELSE p.v + d) % 2^Bits(p.type))))

cexpTVBinOp(x1, x2, op) ==
    IF op \in Comparisons THEN compare(x1, x2, op)
    ELSE IF PTRQ(x1.type) /\ PTRQ(x2.type) THEN PointerDiff(x1, x2, op)
    ELSE IF PTRQ(x1.type) THEN PointerStep(x1, x2, op)
    ELSE IF PTRQ(x2.type) THEN IF op = "OSub" THEN Error ELSE PointerStep(x2, x1, op)
    ELSE Then(cexpTypePromote(x1, x2), LAMBDA xs : binop(xs[1], xs[2], op))

cexpTVUnOp(x, op) ==
    IF op = "ONeg"
      THEN IF SCALARQ(x.type) THEN Ok(Value(x.type, (-x.v) % 2^Bits(x.type)))
           ELSE IF FPQ(x.type) THEN Ok(Value(x.type, IF x.v = Inexact THEN Inexact ELSE -x.v))
           ELSE Error
      ELSE IF ~SCALARQ(x.type) THEN Error
           ELSE Then(cexpTypeCast(x, TULong, FALSE), LAMBDA y :
                  cexpTypeCast(Value(TULong, 2^LongBits - 1 - y.v), x.type, TRUE))

\* cexpTVTrueQ: a value of type void fails an assertion.
cexpTVTrueQ(x) ==
    IF x.type = TVoid THEN Abort ELSE Ok(Truth(x.v # 0))

cexpTypeGuessFromSize(s) ==
    CASE s = SizeOf["char"]   -> TUChar
      [] s = SizeOf["short"]  -> Plain("short")
      [] s = SizeOf["long"]   -> TULong
      [] s = SizeOf["int"]    -> Plain("int")
      [] s = SizeOf["double"] -> TDouble
      [] s = SizeOf["float"]  -> TFloat
      [] OTHER                -> TVoid

-----------------------------------------------------------------------------
(* Function calls *)

\* Arguments are cast to the types that are passed.
Passed(x) == cexpTypeCast(x, IF FPQ(x.type) THEN TDouble ELSE TULong, FALSE)

\* Mutant: the mask is not shifted while arguments are padded.
MaskUnpadded(args, n) ==
    LET m[i \in 0..Len(args)] ==
          IF i = 0 THEN 0 ELSE 2 * m[i - 1] + (IF FPQ(args[i].type) THEN 1 ELSE 0)
    IN m[Len(args)]

\* fpargs: one bit per argument, the first in front, padded with zeroes.
Mask(args, n) ==
    LET m[i \in 0..n] ==
          IF i = 0 THEN 0
          ELSE 2 * m[i - 1] + (IF i <= Len(args) /\ FPQ(args[i].type) THEN 1 ELSE 0)
    IN m[n]

\* The wrapper of jumptab at that index takes argument i for a double if the
\* i-th bit is set.
ReadsDouble(mask, i) == Bit(mask, MAXBITS - i) = 1

\* The classes in which a function of the generic build gets its arguments, or
\* an error.
cexpTVFnCall(fn, args) ==
    LET fp == \E i \in DOMAIN args : FPQ(args[i].type) IN
    IF ~FUNQ(fn.type) \/ fn.v = 0 \/ Len(args) > MAXARGS \/ (fp /\ Len(args) > MAXBITS)
         \/ \E i \in DOMAIN args : \A r \in Passed(args[i]) : r.err # "ok"
      THEN Error
      ELSE Ok([i \in 1..(IF fp THEN MAXBITS ELSE MAXARGS) |->
                 IF fp /\ ReadsDouble(Mask(args, MAXBITS), i) THEN "double" ELSE "long"])

-----------------------------------------------------------------------------
(* What the engine promises *)

CONSTANTS LawNumbers   \* the numbers for which TLC checks it

ASSUME LawNumbersOK == LawNumbers \subseteq Int \cup {Inexact}

\* What the code takes for granted of its target: "only int and long could be too
\* big to fit" a float, "anything fits into a double", and the shift of fits is
\* below the width of an int (ctyps.c).
ExactTarget ==
    /\ 0 < SizeOf["char"] /\ SizeOf["char"] < SizeOf["short"] /\ SizeOf["short"] <= SizeOf["int"]
    /\ SizeOf["int"] = SizeOf["long"] /\ SizeOf["ptr"] <= SizeOf["long"]
    /\ 0 < SizeOf["float"] /\ SizeOf["float"] < SizeOf["double"]
    /\ Bits(Plain("short")) <= FloatBits /\ FloatBits <= DoubleBits /\ LongBits <= DoubleBits

\* Values of every type.
LawValues ==
    (UNION {{Value(t, n) : n \in LawNumbers \cap Numbers(t)} :
              t \in {u \in CexpTypes : ~FPQ(u) /\ u # TVoid}})
      \cup UNION {{Value(t, n) : n \in {m \in LawNumbers : RoundTo(t, m) = m}} :
             t \in {TFloat, TDouble}}

\* "set CNV_FORCE if you want to allow for losing information": without it a
\* conversion that is not refused keeps the number, in every build in which the
\* shift of fits is defined, but for a pointer that becomes a float.
ConversionsExact ==
    \A x \in LawValues, t \in CexpTypes \ {TVoid} :
        ~(PTRQ(x.type) /\ t = TFloat) =>
            \A r \in cexpTypeCast(x, t, FALSE) : r.err = "ok" => r.y = Value(t, x.v)

\* Whether the operands' types are integral.
Scalars(x, y) == SCALARQ(x.type) /\ SCALARQ(y.type)
Wider(x, y) == IF BASE_TYPE_SIZE(x.type) > BASE_TYPE_SIZE(y.type) THEN x.type ELSE y.type

\* Arithmetic on unsigned numbers is C's, modulo the width of the wider operand;
\* and the order of the operands of a commutative operator is of no importance.
ModularArithmetic ==
    \A x, y \in LawValues : Scalars(x, y) =>
        /\ cexpTVBinOp(x, y, "OAdd") = Ok(Value(Wider(x, y), (x.v + y.v) % 2^Bits(Wider(x, y))))
        /\ cexpTVBinOp(x, y, "OSub") = Ok(Value(Wider(x, y), (x.v - y.v) % 2^Bits(Wider(x, y))))
        /\ \A op \in {"OAdd", "OMul", "OAnd", "OXor", "OOr"} :
             {r.y.v : r \in cexpTVBinOp(x, y, op)} = {r.y.v : r \in cexpTVBinOp(y, x, op)}
        /\ cexpTVBinOp(x, Value(x.type, (-x.v) % 2^Bits(x.type)), "OAdd") = Ok(Value(x.type, 0))
        /\ Then(cexpTVUnOp(x, "OCpl"), LAMBDA z : cexpTVBinOp(z, Value(TUChar, 1), "OAdd"))
             = cexpTVUnOp(x, "ONeg")

\* Differences of pointers undo their steps although they are unsigned: adding
\* to q what p is ahead of it gives p, for p above and below q.
ReturningPointers ==
    \A p, q \in LawValues : p.type.kind = "ptr" /\ q.type = p.type /\ p.type.base # "void" =>
        \A r \in cexpTVBinOp(p, q, "OSub") : r.err = "ok" => cexpTVBinOp(q, r.y, "OAdd") = Ok(p)

\* Every function gets each argument in the class of its type, and zeroes of
\* class long after the last, whatever the numbers of both.
ClassesOfCalls ==
    LET one(b) == Value(Plain(b), 1)
        Lists == UNION {[1..n -> {one("char"), one("float"), one("double")}] : n \in 0..(MAXARGS + 1)} IN
    \A args \in Lists : \A r \in cexpTVFnCall(Value(TFuncP, 1), args) : r.err = "ok" =>
        \A i \in DOMAIN r.y :
            r.y[i] = IF i <= Len(args) /\ FPQ(args[i].type) THEN "double" ELSE "long"
=============================================================================
