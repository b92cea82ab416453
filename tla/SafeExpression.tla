--------------------------- MODULE SafeExpression ---------------------------
(***************************************************************************)
(* The expressions of condition, loop and transform nodes.  There is no    *)
(* syntax tree: SafeExpressionParser computes while it reads, one method   *)
(* for each level of precedence.  Its operands are integers here (literals *)
(* or what a path in the context leads to) and what operators make of      *)
(* them; "/" is read and refused as "%" is, "+" joins no strings, and ==   *)
(* is ===, which it is in the code.  The limits of tokenize on the length  *)
(* of an expression are left out.                                          *)
(***************************************************************************)
EXTENDS Integers, Sequences

CONSTANTS
  Literals,         \* the operands
  UnaryOperators,   \* the operators that occur
  BinaryOperators,
  MaxOperators,     \* bound on the size of expressions
  MaxDepth          \* MAX_DEPTH

(* The operators of parseOr, parseAnd, ... parseMultiplicative *)
Binary == <<{"||"}, {"&&"}, {"===", "!=="}, {"<", "<=", ">", ">="}, {"+", "-"}, {"*", "%"}>>
Unary == {"!", "-", "+"}
UnaryLevel == 7
PrimaryLevel == 8

ASSUME ExpressionAssumption ==
  /\ Literals \subseteq Int /\ MaxOperators \in Nat /\ MaxDepth \in Nat
  /\ UnaryOperators \subseteq Unary
  /\ BinaryOperators \subseteq UNION {Binary[level] : level \in 1..6}

VARIABLES
  written,  \* what the author of the expression wrote, and means by it
  result    \* of evaluating it

expressionVars == <<written, result>>

-----------------------------------------------------------------------------
(* Values.  true and false are 1 and 0, as JavaScript compares them. *)
Number(n) == [type |-> "number", value |-> n]
Truth(b) == [type |-> "boolean", value |-> IF b THEN 1 ELSE 0]
Values == [type : {"number", "boolean"}, value : Int]

Thrown == [type |-> "thrown", value |-> 0]
Pending == [type |-> "pending", value |-> 0]

Truthy(v) == v.value # 0

Remainder(l, r) ==
  LET size == IF r < 0 THEN -r ELSE r
  IN IF l < 0 THEN -((-l) % size) ELSE l % size

(* asNumber of both sides *)
Compute(op, l, r) ==
  CASE op = "-" -> Number(l - r)
    [] op = "+" -> Number(l + r)
    [] op = "*" -> Number(l * r)
    [] op = "%" -> IF r = 0 THEN Thrown ELSE Number(Remainder(l, r))

(* Both sides have been computed before, of && and || too *)
Apply(op, l, r) ==
  IF Thrown \in {l, r} THEN Thrown
  ELSE CASE op = "||" -> Truth(Truthy(l) \/ Truthy(r))
         [] op = "&&" -> Truth(Truthy(l) /\ Truthy(r))
         [] op = "===" -> Truth(l = r)
         [] op = "!==" -> Truth(l # r)
         [] op = "<" -> Truth(l.value < r.value)
         [] op = "<=" -> Truth(l.value <= r.value)
         [] op = ">" -> Truth(l.value > r.value)
         [] op = ">=" -> Truth(l.value >= r.value)
         [] OTHER -> IF l.type = "number" /\ r.type = "number"
                     THEN Compute(op, l.value, r.value) ELSE Thrown

ApplyUnary(op, v) ==
  IF v = Thrown THEN Thrown
  ELSE IF op = "!" THEN Truth(~Truthy(v))
  ELSE IF v.type # "number" THEN Thrown
  ELSE Number(IF op = "-" THEN -v.value ELSE v.value)

-----------------------------------------------------------------------------
(* Tokens; number is Number(value), where the value is one *)
Literal(n) == [type |-> "number", value |-> "", number |-> n]
Operator(op) == [type |-> "operator", value |-> op, number |-> 0]
Punctuation(p) == [type |-> "punctuation", value |-> p, number |-> 0]
Eof == [type |-> "eof", value |-> "", number |-> 0]

(* The token at i; tokenize ends with eof, which nobody goes beyond *)
Current(i) == IF i \in 1..Len(written.text) THEN written.text[i] ELSE Eof

IsOperator(i, values) == Current(i).type = "operator" /\ Current(i).value \in values
IsPunctuation(i, value) == Current(i).type = "punctuation" /\ Current(i).value = value

(* What a method returns, and the token it leaves the parser at.  An       *)
(* exception ends all of them.                                             *)
Failed == [value |-> Thrown, at |-> 0]
Found(value, i) == IF value = Thrown THEN Failed ELSE [value |-> value, at |-> i]

Depths == 0..MaxDepth
NotRead == [type |-> "unread", value |-> 0]

(* A visit to the method of a level, at the token at, below depth          *)
(* primaries; left is what its loop has computed so far, NotRead before    *)
(* the loop.                                                               *)
Visit(level, at, depth, left) == [level |-> level, at |-> at, depth |-> depth, left |-> left]
Visits == [level : 1..PrimaryLevel, at : Nat \ {0}, depth : Depths, left : Values \cup {NotRead}]

(* Mutant of Operand: the right side takes all that follows on its level *)
OperandGreedy(level) == level

(* parseAnd for parseOr, parseEquality for parseAnd, ... *)
Operand(level) == level + 1

Read[v \in Visits] ==
  CASE v.level < UnaryLevel /\ v.left = NotRead ->
         LET first == Read[Visit(v.level + 1, v.at, v.depth, NotRead)]
         IN IF first = Failed THEN Failed
            ELSE Read[Visit(v.level, first.at, v.depth, first.value)]
    [] v.level < UnaryLevel /\ v.left # NotRead ->
         IF ~IsOperator(v.at, Binary[v.level]) THEN Found(v.left, v.at)
         ELSE LET right == Read[Visit(Operand(v.level), v.at + 1, v.depth, NotRead)]
                  value == Apply(Current(v.at).value, v.left, right.value)
              IN IF value = Thrown THEN Failed
                 ELSE Read[Visit(v.level, right.at, v.depth, value)]
    [] v.level = UnaryLevel ->
         IF ~IsOperator(v.at, Unary) THEN Read[Visit(PrimaryLevel, v.at, v.depth, NotRead)]
         ELSE LET operand == Read[Visit(UnaryLevel, v.at + 1, v.depth, NotRead)]
              IN Found(ApplyUnary(Current(v.at).value, operand.value), operand.at)
    [] v.level = PrimaryLevel ->
         IF v.depth = MaxDepth THEN Failed
         ELSE IF Current(v.at).type = "number" THEN Found(Number(Current(v.at).number), v.at + 1)
         ELSE IF ~IsPunctuation(v.at, "(") THEN Failed
         ELSE LET inner == Read[Visit(1, v.at + 1, v.depth + 1, NotRead)]
              IN IF inner # Failed /\ IsPunctuation(inner.at, ")")
                 THEN Found(inner.value, inner.at + 1) ELSE Failed

Parse ==
  LET all == Read[Visit(1, 1, 0, NotRead)]
  IN IF all # Failed /\ Current(all.at).type = "eof" THEN all.value ELSE Thrown

-----------------------------------------------------------------------------
(* What an author writes: with the parentheses that the usual precedence   *)
(* asks for and no others.  meaning[d] is what it means inside d pairs of  *)
(* parentheses: each part is computed, and no part too deep.               *)
Atom(n) == [level |-> PrimaryLevel, text |-> <<Literal(n)>>,
            meaning |-> [d \in Depths |-> IF d < MaxDepth THEN Number(n) ELSE Thrown]]

Parenthesised(p) ==
  [level |-> PrimaryLevel,
   text |-> <<Punctuation("(")>> \o p.text \o <<Punctuation(")")>>,
   meaning |-> [d \in Depths |-> IF d < MaxDepth THEN p.meaning[d + 1] ELSE Thrown]]

(* At a place where less than this level would be torn apart *)
Guarded(p, level) == IF p.level >= level THEN p ELSE Parenthesised(p)

Prefix(op, p) ==
  LET arm == Guarded(p, UnaryLevel)
  IN [level |-> UnaryLevel, text |-> <<Operator(op)>> \o arm.text,
      meaning |-> [d \in Depths |-> ApplyUnary(op, arm.meaning[d])]]

Level(op) == CHOOSE level \in 1..6 : op \in Binary[level]

(* From left to right among equals *)
Infix(op, p, q) ==
  LET left == Guarded(p, Level(op))
      right == Guarded(q, Level(op) + 1)
  IN [level |-> Level(op), text |-> left.text \o <<Operator(op)>> \o right.text,
      meaning |-> [d \in Depths |-> Apply(op, left.meaning[d], right.meaning[d])]]

Phrases[n \in 0..MaxOperators] ==
  IF n = 0 THEN {Atom(l) : l \in Literals}
  ELSE {Prefix(op, p) : op \in UnaryOperators, p \in Phrases[n - 1]}
       \cup UNION {{Infix(op, p, q) : op \in BinaryOperators, p \in Phrases[k],
                                     q \in Phrases[n - 1 - k]} : k \in 0..n - 1}

-----------------------------------------------------------------------------
ExpressionInit ==
  /\ written \in UNION {Phrases[n] : n \in 0..MaxOperators}
  /\ result = Pending

(* evaluate, of the text the author wrote *)
Evaluate ==
  /\ result = Pending
  /\ result' = Parse
  /\ UNCHANGED written

ExpressionNext == Evaluate

ExpressionSpec == ExpressionInit /\ [][ExpressionNext]_expressionVars

-----------------------------------------------------------------------------
(* safe-expression.service.ts reads a - b - c, !a === b or a || b && c < d *)
(* without ever building a tree: what it computes on the way is what the   *)
(* author means by the usual precedence, left to right, and it refuses     *)
(* what one of the parts refuses, no more and no less.                     *)
ReadAsMeant == result # Pending => result = written.meaning[0]
=============================================================================
