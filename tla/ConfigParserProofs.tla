------------------------- MODULE ConfigParserProofs -------------------------
(***************************************************************************)
(* Theorems about ConfigParser for files of any length.                    *)
(*                                                                         *)
(* Feed takes one character through ParseToken and, when a token ends,     *)
(* through Parse.  Good is the invariant of a parser state: the characters *)
(* of the token under construction fit the mode (ValueFits), the statements*)
(* so far nest (NestedSoFar) and the stack is where the last token puts the*)
(* next statement (StackFits).  Each function of the parser keeps Good, in *)
(* the order in which Feed calls them, and a depth of k characters becomes *)
(* one of k + 1 (Bounded).  An accepted file ended with ';' or '}', so the *)
(* last statement is no block that waits for its first statement.          *)
(***************************************************************************)
EXTENDS ConfigParser, TLAPS

\* TokenParserState.
Mode == {"whitespace", "comment", "quote", "quoted", "normal"}

\* What Parse has returned, or that it has not.
Result == {"running", "true", "false", "undefined"}

\* A statement, its depth, and whether a block follows its tokens.
StatementType == [depth : Nat, tokens : Seq(Seq(Char)), block : BOOLEAN]

\* The record of the parser.
ParserType ==
    [mode : Mode, quote : Quote, value : Seq(Char), last : TokenType, depth : Int,
     statements : Seq(StatementType), result : Result]

\* What is under construction in value, by mode.
ValueFits(p) ==
    /\ p.mode = "normal" => /\ p.value # <<>> /\ p.value[1] \notin Quote
                            /\ \A j \in 1..Len(p.value) : p.value[j] \notin Blank \cup Mark
    /\ p.mode = "quote" => /\ p.value # <<>> /\ p.value[1] = p.quote
                           /\ \A j \in 2..Len(p.value) : p.value[j] # p.quote
    /\ p.mode = "quoted" => p.value # <<>> /\ TokenClean(p.value)

\* The statements so far, whose blocks need not have been closed.
NestedSoFar(s) ==
    /\ Len(s) > 0 => s[1].depth = 0
    /\ \A i \in 1..Len(s) :
           /\ s[i].tokens # <<>>
           /\ \A k \in 1..Len(s[i].tokens) : TokenClean(s[i].tokens[k])
    /\ \A i \in 1..(Len(s) - 1) :
           /\ s[i + 1].depth <= s[i].depth + (IF s[i].block THEN 1 ELSE 0)
           /\ s[i].block => s[i + 1].depth = s[i].depth + 1

\* Where the next statement goes, by the last token.
StackFits(p) ==
    LET s == p.statements
        n == Len(s)
    IN  /\ p.last = "START" <=> n = 0
        /\ p.last = "START" => p.depth = 0
        /\ p.last \in {"NORMAL", "STATEMENT_END"} => p.depth = s[n].depth /\ ~s[n].block
        /\ p.last = "START_BLOCK" => p.depth = s[n].depth + 1 /\ s[n].block
        /\ p.last = "END_BLOCK" => p.depth < s[n].depth /\ ~s[n].block
        /\ p.depth <= n
        /\ p.last = "NORMAL" => p.depth < n

\* A block is opened by a character of its own.
Bounded(p, k) ==
    p.depth <= k /\ \A i \in 1..Len(p.statements) : p.statements[i].depth <= k

\* The invariant of a parser state.
Good(p) == p \in ParserType /\ ValueFits(p) /\ NestedSoFar(p.statements) /\ StackFits(p)

\* The first state.
LEMMA StartGood == Good(Start) /\ Bounded(Start, 0)
<1>1. <<>> \in Seq(StatementType) /\ <<>> \in Seq(Char) /\ Len(<<>>) = 0
  OBVIOUS
<1>2. Start \in ParserType
  BY <1>1 DEF Start, ParserType, Mode, Quote, TokenType, Result
<1> QED
  BY <1>1, <1>2 DEF Start, Good, ValueFits, NestedSoFar, StackFits, Bounded

\* A change of the result alone.
LEMMA ResultGood ==
    ASSUME NEW p, Good(p), NEW k, Bounded(p, k), NEW q \in ParserType,
           q.mode = p.mode, q.quote = p.quote, q.value = p.value,
           q.last = p.last, q.depth = p.depth, q.statements = p.statements
    PROVE  Good(q) /\ Bounded(q, k)
BY DEF Good, ValueFits, StackFits, Bounded

\* Parse returns false.
LEMMA FailGood ==
    ASSUME NEW p, Good(p), NEW k, Bounded(p, k)
    PROVE  Good(Fail(p)) /\ Bounded(Fail(p), k) /\ Fail(p).result = "false"
<1> DEFINE q == Fail(p)
<1>1. p \in ParserType
  BY DEF Good
<1>2. /\ q \in ParserType /\ q.result = "false"
      /\ q.mode = p.mode /\ q.quote = p.quote /\ q.value = p.value
      /\ q.last = p.last /\ q.depth = p.depth /\ q.statements = p.statements
  BY <1>1 DEF ParserType, Result, Fail
<1> HIDE DEF q
<1>3. Good(q) /\ Bounded(q, k)
  BY <1>2, ResultGood
<1> QED
  BY <1>2, <1>3 DEF q

\* top() of an empty stack.
LEMMA UndefinedGood ==
    ASSUME NEW p, Good(p), NEW k, Bounded(p, k)
    PROVE  Good(Undefined(p)) /\ Bounded(Undefined(p), k) /\ Undefined(p).result = "undefined"
<1> DEFINE q == Undefined(p)
<1>1. p \in ParserType
  BY DEF Good
<1>2. /\ q \in ParserType /\ q.result = "undefined"
      /\ q.mode = p.mode /\ q.quote = p.quote /\ q.value = p.value
      /\ q.last = p.last /\ q.depth = p.depth /\ q.statements = p.statements
  BY <1>1 DEF ParserType, Result, Undefined
<1> HIDE DEF q
<1>3. Good(q) /\ Bounded(q, k)
  BY <1>2, ResultGood
<1> QED
  BY <1>2, <1>3 DEF q

\* Parse returns true.
LEMMA AcceptGood ==
    ASSUME NEW p, Good(p), NEW k, Bounded(p, k)
    PROVE  Good(Accept(p)) /\ Bounded(Accept(p), k) /\ Accept(p).last = p.last
<1> DEFINE q == Accept(p)
<1>1. p \in ParserType
  BY DEF Good
<1>2. /\ q \in ParserType
      /\ q.mode = p.mode /\ q.quote = p.quote /\ q.value = p.value
      /\ q.last = p.last /\ q.depth = p.depth /\ q.statements = p.statements
  BY <1>1 DEF ParserType, Result, Accept
<1> HIDE DEF q
<1>3. Good(q) /\ Bounded(q, k)
  BY <1>2, ResultGood
<1> QED
  BY <1>2, <1>3 DEF q

LEMMA AppendFacts ==
    ASSUME NEW S, NEW s \in Seq(S), NEW x \in S
    PROVE  /\ Append(s, x) \in Seq(S)
           /\ Len(Append(s, x)) = Len(s) + 1 /\ Len(s) \in Nat
           /\ \A i \in 1..Len(s) : Append(s, x)[i] = s[i]
           /\ Append(s, x)[Len(s) + 1] = x
           /\ Append(s, x) # <<>>
OBVIOUS

\* A statement more.
LEMMA AppendStatement ==
    ASSUME NEW s \in Seq(StatementType), NestedSoFar(s), NEW x \in StatementType,
           x.tokens # <<>>, \A k \in 1..Len(x.tokens) : TokenClean(x.tokens[k]),
           IF Len(s) = 0 THEN x.depth = 0
           ELSE \/ x.depth <= s[Len(s)].depth /\ ~s[Len(s)].block
                \/ x.depth = s[Len(s)].depth + 1 /\ s[Len(s)].block
    PROVE  NestedSoFar(Append(s, x))
<1> DEFINE q == Append(s, x)
<1>1. /\ q \in Seq(StatementType) /\ Len(q) = Len(s) + 1 /\ Len(s) \in Nat
      /\ \A i \in 1..Len(s) : q[i] = s[i]
      /\ q[Len(s) + 1] = x
  BY AppendFacts
<1> HIDE DEF q
<1>t. \A i \in 1..Len(q) : q[i].depth \in Nat
  <2>1. \A i \in 1..Len(q) : q[i] \in StatementType
    BY <1>1
  <2> QED
    BY <2>1 DEF StatementType
<1>2. q[1].depth = 0
  BY <1>1 DEF NestedSoFar
<1>3. ASSUME NEW i \in 1..Len(q)
      PROVE  q[i].tokens # <<>> /\ \A k \in 1..Len(q[i].tokens) : TokenClean(q[i].tokens[k])
  <2>1. CASE i = Len(s) + 1
    BY <1>1, <2>1
  <2>2. CASE i # Len(s) + 1
    BY <1>1, <2>2 DEF NestedSoFar
  <2> QED
    BY <2>1, <2>2
<1>4. ASSUME NEW i \in 1..(Len(q) - 1)
      PROVE  /\ q[i + 1].depth <= q[i].depth + (IF q[i].block THEN 1 ELSE 0)
             /\ q[i].block => q[i + 1].depth = q[i].depth + 1
  <2>1. CASE i = Len(s)
    BY <1>1, <1>t, <2>1
  <2>2. CASE i # Len(s)
    <3>1. i \in 1..(Len(s) - 1) /\ i + 1 \in 1..Len(s) /\ i \in 1..Len(s)
      BY <1>1, <2>2
    <3> QED
      BY <1>1, <3>1 DEF NestedSoFar
  <2> QED
    BY <2>1, <2>2
<1>5. NestedSoFar(q)
  BY <1>2, <1>3, <1>4 DEF NestedSoFar
<1> QED
  BY <1>5 DEF q

\* A change of the last statement that keeps its depth.
LEMMA ChangeLast ==
    ASSUME NEW s \in Seq(StatementType), NestedSoFar(s), Len(s) > 0, NEW x \in StatementType,
           x.tokens # <<>>, \A k \in 1..Len(x.tokens) : TokenClean(x.tokens[k]),
           x.depth = s[Len(s)].depth
    PROVE  /\ [s EXCEPT ![Len(s)] = x] \in Seq(StatementType)
           /\ Len([s EXCEPT ![Len(s)] = x]) = Len(s)
           /\ [s EXCEPT ![Len(s)] = x][Len(s)] = x
           /\ \A i \in 1..(Len(s) - 1) : [s EXCEPT ![Len(s)] = x][i] = s[i]
           /\ NestedSoFar([s EXCEPT ![Len(s)] = x])
<1> DEFINE q == [s EXCEPT ![Len(s)] = x]
<1>1. /\ q \in Seq(StatementType) /\ Len(q) = Len(s) /\ Len(s) \in Nat
      /\ \A i \in 1..(Len(s) - 1) : q[i] = s[i]
      /\ q[Len(s)] = x
  OBVIOUS
<1> HIDE DEF q
<1>2. q[1].depth = 0
  <2>1. CASE Len(s) = 1
    BY <1>1, <2>1 DEF NestedSoFar
  <2>2. CASE Len(s) # 1
    BY <1>1, <2>2 DEF NestedSoFar
  <2> QED
    BY <2>1, <2>2
<1>3. ASSUME NEW i \in 1..Len(q)
      PROVE  q[i].tokens # <<>> /\ \A k \in 1..Len(q[i].tokens) : TokenClean(q[i].tokens[k])
  <2>1. CASE i = Len(s)
    BY <1>1, <2>1
  <2>2. CASE i # Len(s)
    BY <1>1, <2>2 DEF NestedSoFar
  <2> QED
    BY <2>1, <2>2
<1>4. ASSUME NEW i \in 1..(Len(q) - 1)
      PROVE  /\ q[i + 1].depth <= q[i].depth + (IF q[i].block THEN 1 ELSE 0)
             /\ q[i].block => q[i + 1].depth = q[i].depth + 1
  <2>1. q[i] = s[i] /\ q[i + 1].depth = s[i + 1].depth
    <3>1. CASE i + 1 = Len(s)
      BY <1>1, <3>1
    <3>2. CASE i + 1 # Len(s)
      BY <1>1, <3>2
    <3> QED
      BY <3>1, <3>2
  <2> QED
    BY <1>1, <2>1 DEF NestedSoFar
<1>5. NestedSoFar(q)
  BY <1>2, <1>3, <1>4 DEF NestedSoFar
<1> QED
  BY <1>1, <1>5 DEF q

-----------------------------------------------------------------------------
(* Parse: each kind of token. *)

\* What Parse leaves alone: the state of ParseToken.
SameToken(p, q) == q.mode = p.mode /\ q.quote = p.quote /\ q.value = p.value

LEMMA SameTokenFits ==
    ASSUME NEW p, NEW q, ValueFits(p), SameToken(p, q)
    PROVE  ValueFits(q)
BY DEF ValueFits, SameToken

\* The last statement of a state whose last token was not the first.
LEMMA LastStatement ==
    ASSUME NEW p, Good(p), p.last # "START"
    PROVE  /\ Len(p.statements) \in Nat \ {0}
           /\ p.statements[Len(p.statements)] \in StatementType
           /\ p.statements[Len(p.statements)].depth \in Nat
           /\ p.statements[Len(p.statements)].tokens # <<>>
           /\ \A k \in 1..Len(p.statements[Len(p.statements)].tokens) :
                  TokenClean(p.statements[Len(p.statements)].tokens[k])
<1>1. p.statements \in Seq(StatementType)
  BY DEF Good, ParserType
<1>2. Len(p.statements) \in Nat \ {0}
  BY <1>1 DEF Good, StackFits
<1>3. p.statements[Len(p.statements)] \in StatementType
  BY <1>1, <1>2
<1> QED
  BY <1>2, <1>3 DEF Good, NestedSoFar, StatementType

\* Parse takes a normal token: a first token opens a statement.
LEMMA NormalGood ==
    ASSUME NEW p, Good(p), p.result = "running", NEW token \in Seq(Char), TokenClean(token),
           NEW k \in Int, Bounded(p, k)
    PROVE  /\ Good(Normal(p, token))
           /\ Bounded(Normal(p, token), k)
           /\ Normal(p, token).result \in {"running", "undefined"}
<1>t. /\ p \in ParserType /\ NestedSoFar(p.statements) /\ StackFits(p)
      /\ p.statements \in Seq(StatementType) /\ p.depth \in Int
  BY DEF Good, ParserType
<1> DEFINE s == p.statements
           n == Len(p.statements)
<1>1. CASE p.last = "NORMAL"
  <2> DEFINE x == [s[n] EXCEPT !.tokens = Append(s[n].tokens, token)]
             q == [p EXCEPT !.statements = [s EXCEPT ![n] = x]]
  <2>1. Normal(p, token) = q
    BY <1>1 DEF Normal
  <2>2. /\ n \in Nat \ {0} /\ s[n] \in StatementType /\ s[n].tokens # <<>>
        /\ \A j \in 1..Len(s[n].tokens) : TokenClean(s[n].tokens[j])
    BY <1>1, LastStatement
  <2>3. s[n].tokens \in Seq(Seq(Char))
    BY <2>2 DEF StatementType
  <2>4. /\ Append(s[n].tokens, token) \in Seq(Seq(Char))
        /\ Append(s[n].tokens, token) # <<>>
        /\ Len(Append(s[n].tokens, token)) = Len(s[n].tokens) + 1
        /\ Len(s[n].tokens) \in Nat
        /\ \A j \in 1..Len(s[n].tokens) : Append(s[n].tokens, token)[j] = s[n].tokens[j]
        /\ Append(s[n].tokens, token)[Len(s[n].tokens) + 1] = token
    <3> DEFINE ts == s[n].tokens
    <3>1. ts \in Seq(Seq(Char))
      BY <2>3
    <3> HIDE DEF ts
    <3>2. /\ Append(ts, token) \in Seq(Seq(Char))
          /\ Append(ts, token) # <<>>
          /\ Len(Append(ts, token)) = Len(ts) + 1 /\ Len(ts) \in Nat
          /\ \A j \in 1..Len(ts) : Append(ts, token)[j] = ts[j]
          /\ Append(ts, token)[Len(ts) + 1] = token
      BY <3>1, AppendFacts
    <3> QED
      BY <3>2 DEF ts
  <2>5. /\ x \in StatementType /\ x.depth = s[n].depth /\ x.block = s[n].block
        /\ x.tokens = Append(s[n].tokens, token)
    BY <2>2, <2>4 DEF StatementType
  <2>6. x.tokens # <<>> /\ \A j \in 1..Len(x.tokens) : TokenClean(x.tokens[j])
    <3>1. \A j \in 1..(Len(s[n].tokens) + 1) :
              j \in 1..Len(s[n].tokens) \/ j = Len(s[n].tokens) + 1
      BY <2>4
    <3> QED
      BY <2>2, <2>4, <2>5, <3>1
  <2> HIDE DEF x
  <2>7. /\ [s EXCEPT ![n] = x] \in Seq(StatementType)
        /\ Len([s EXCEPT ![n] = x]) = n
        /\ [s EXCEPT ![n] = x][n] = x
        /\ \A i \in 1..(n - 1) : [s EXCEPT ![n] = x][i] = s[i]
        /\ NestedSoFar([s EXCEPT ![n] = x])
    <3>1. s \in Seq(StatementType) /\ NestedSoFar(s) /\ Len(s) > 0
      BY <1>t, <2>2
    <3>2. x \in StatementType /\ x.depth = s[Len(s)].depth
      BY <2>5
    <3> QED
      BY <2>6, <3>1, <3>2, ChangeLast
  <2>8. /\ q \in ParserType /\ q.statements = [s EXCEPT ![n] = x]
        /\ q.last = p.last /\ q.depth = p.depth /\ q.result = p.result /\ SameToken(p, q)
    BY <1>t, <2>7 DEF ParserType, SameToken
  <2> HIDE DEF q
  <2>9. StackFits(q)
    BY <1>1, <1>t, <2>2, <2>5, <2>7, <2>8 DEF StackFits
  <2>10. ValueFits(q)
    BY <2>8, SameTokenFits DEF Good
  <2>11. Bounded(q, k)
    <3>1. \A i \in 1..n : q.statements[i].depth = s[i].depth
      BY <2>2, <2>5, <2>7, <2>8
    <3> QED
      BY <2>7, <2>8, <3>1 DEF Bounded
  <2> QED
    BY <2>1, <2>7, <2>8, <2>9, <2>10, <2>11 DEF Good
<1>2. CASE p.last # "NORMAL" /\ p.depth < 0
  <2>1. Normal(p, token) = Undefined(p)
    BY <1>2 DEF Normal
  <2> QED
    BY <2>1, UndefinedGood
<1>3. CASE p.last # "NORMAL" /\ ~(p.depth < 0)
  <2> DEFINE x == [depth |-> p.depth, tokens |-> <<token>>, block |-> FALSE]
             q == [p EXCEPT !.statements = Append(s, x), !.last = "NORMAL"]
  <2>1. Normal(p, token) = q
    BY <1>3 DEF Normal
  <2>2. /\ <<token>> \in Seq(Seq(Char)) /\ Len(<<token>>) = 1 /\ <<token>>[1] = token
        /\ <<token>> # <<>>
    OBVIOUS
  <2>3. x \in StatementType /\ x.depth = p.depth /\ x.tokens = <<token>> /\ ~x.block
    BY <1>t, <1>3, <2>2 DEF StatementType
  <2>4. x.tokens # <<>> /\ \A j \in 1..Len(x.tokens) : TokenClean(x.tokens[j])
    BY <2>2, <2>3
  <2>5. /\ Append(s, x) \in Seq(StatementType)
        /\ Len(Append(s, x)) = n + 1 /\ n \in Nat
        /\ \A i \in 1..n : Append(s, x)[i] = s[i]
        /\ Append(s, x)[n + 1] = x
    BY <1>t, <2>3, AppendFacts
  <2> HIDE DEF x
  <2>6. NestedSoFar(Append(s, x))
    <3>1. CASE n = 0
      BY <1>t, <2>3, <2>4, <3>1, AppendStatement DEF StackFits
    <3>2. CASE n # 0
      <4>1. p.last \in {"START_BLOCK", "END_BLOCK", "STATEMENT_END"} /\ p.last # "START"
        BY <1>t, <1>3, <3>2 DEF ParserType, TokenType, StackFits
      <4>2. s[n].depth \in Nat
        BY <4>1, LastStatement
      <4>3. \/ x.depth <= s[n].depth /\ ~s[n].block
            \/ x.depth = s[n].depth + 1 /\ s[n].block
        BY <1>t, <2>3, <4>1, <4>2 DEF StackFits
      <4> QED
        BY <1>t, <2>3, <2>4, <3>2, <4>3, AppendStatement
    <3> QED
      BY <3>1, <3>2
  <2>7. /\ q \in ParserType /\ q.statements = Append(s, x)
        /\ q.last = "NORMAL" /\ q.depth = p.depth /\ q.result = p.result /\ SameToken(p, q)
    BY <1>t, <2>5 DEF ParserType, SameToken, TokenType
  <2> HIDE DEF q
  <2>8. StackFits(q)
    BY <1>t, <1>3, <2>3, <2>5, <2>7 DEF StackFits
  <2>9. ValueFits(q)
    BY <2>7, SameTokenFits DEF Good
  <2>10. Bounded(q, k)
    <3>1. \A i \in 1..(n + 1) : i \in 1..n \/ i = n + 1
      BY <2>5
    <3> QED
      BY <2>3, <2>5, <2>7, <3>1 DEF Bounded
  <2> QED
    BY <2>1, <2>6, <2>7, <2>8, <2>9, <2>10 DEF Good
<1> QED
  BY <1>1, <1>2, <1>3

\* Parse takes a '{'.
LEMMA StartBlockGood ==
    ASSUME NEW p, Good(p), p.result = "running", NEW k \in Int, Bounded(p, k)
    PROVE  /\ Good(StartBlock(p))
           /\ Bounded(StartBlock(p), k + 1)
           /\ StartBlock(p).result \in {"running", "false"}
<1>t. /\ p \in ParserType /\ NestedSoFar(p.statements) /\ StackFits(p)
      /\ p.statements \in Seq(StatementType) /\ p.depth \in Int
  BY DEF Good, ParserType
<1>b. Bounded(p, k + 1)
  <2>1. \A i \in 1..Len(p.statements) : p.statements[i].depth \in Int
    <3>1. \A i \in 1..Len(p.statements) : p.statements[i] \in StatementType
      BY <1>t
    <3> QED
      BY <3>1 DEF StatementType
  <2> QED
    BY <1>t, <2>1 DEF Bounded
<1> DEFINE s == p.statements
           n == Len(p.statements)
<1>1. CASE p.last # "NORMAL"
  <2>1. StartBlock(p) = Fail(p)
    BY <1>1 DEF StartBlock
  <2> QED
    BY <1>b, <2>1, FailGood
<1>2. CASE p.last = "NORMAL"
  <2> DEFINE x == [s[n] EXCEPT !.block = TRUE]
             d == p.depth + 1
             q == [p EXCEPT !.statements = [s EXCEPT ![n] = x], !.depth = d,
                            !.last = "START_BLOCK"]
  <2>1. StartBlock(p) = q
    BY <1>2 DEF StartBlock
  <2>2. /\ n \in Nat \ {0} /\ s[n] \in StatementType /\ s[n].tokens # <<>>
        /\ \A j \in 1..Len(s[n].tokens) : TokenClean(s[n].tokens[j])
        /\ s[n].depth \in Nat
    BY <1>2, LastStatement
  <2>3. x \in StatementType /\ x.depth = s[n].depth /\ x.block /\ x.tokens = s[n].tokens
    BY <2>2 DEF StatementType
  <2> HIDE DEF x
  <2>4. /\ [s EXCEPT ![n] = x] \in Seq(StatementType)
        /\ Len([s EXCEPT ![n] = x]) = n
        /\ [s EXCEPT ![n] = x][n] = x
        /\ \A i \in 1..(n - 1) : [s EXCEPT ![n] = x][i] = s[i]
        /\ NestedSoFar([s EXCEPT ![n] = x])
    BY <1>t, <2>2, <2>3, ChangeLast
  <2>5. /\ q \in ParserType /\ q.statements = [s EXCEPT ![n] = x]
        /\ q.last = "START_BLOCK" /\ q.depth = d /\ q.result = p.result
        /\ SameToken(p, q)
    <3>1. d \in Int
      BY <1>t
    <3>2. [s EXCEPT ![n] = x] \in Seq(StatementType)
      BY <2>4
    <3> DEFINE z == [s EXCEPT ![n] = x]
    <3> HIDE DEF d, z
    <3> QED
      BY <1>t, <3>1, <3>2 DEF ParserType, SameToken, TokenType, z
  <2> HIDE DEF q
  <2>6. StackFits(q)
    BY <1>2, <1>t, <2>2, <2>3, <2>4, <2>5 DEF StackFits
  <2>7. ValueFits(q)
    BY <2>5, SameTokenFits DEF Good
  <2>8. Bounded(q, k + 1)
    <3>1. \A i \in 1..n : q.statements[i].depth = s[i].depth
      BY <2>2, <2>3, <2>4, <2>5
    <3> QED
      BY <1>t, <1>b, <2>4, <2>5, <3>1 DEF Bounded
  <2> QED
    BY <2>1, <2>4, <2>5, <2>6, <2>7, <2>8 DEF Good
<1> QED
  BY <1>1, <1>2

\* Parse takes a '}'.
LEMMA EndBlockGood ==
    ASSUME NEW p, Good(p), p.result = "running", NEW k \in Int, Bounded(p, k)
    PROVE  /\ Good(EndBlock(p))
           /\ Bounded(EndBlock(p), k)
           /\ EndBlock(p).result \in {"running", "false"}
<1>t. p \in ParserType /\ StackFits(p) /\ p.statements \in Seq(StatementType) /\ p.depth \in Int
  BY DEF Good, ParserType
<1>1. CASE p.last \notin {"STATEMENT_END", "END_BLOCK"}
  <2>1. EndBlock(p) = Fail(p)
    BY <1>1 DEF EndBlock
  <2> QED
    BY <2>1, FailGood
<1>2. CASE p.last \in {"STATEMENT_END", "END_BLOCK"}
  <2> DEFINE d == p.depth - 1
             q == [p EXCEPT !.depth = d, !.last = "END_BLOCK"]
  <2>1. EndBlock(p) = q
    BY <1>2 DEF EndBlock
  <2>2. /\ q \in ParserType /\ q.statements = p.statements
        /\ q.last = "END_BLOCK" /\ q.depth = d /\ q.result = p.result
        /\ SameToken(p, q)
    <3>1. d \in Int
      BY <1>t
    <3> HIDE DEF d
    <3> QED
      BY <1>t, <3>1 DEF ParserType, SameToken, TokenType
  <2> HIDE DEF q
  <2>3. p.statements[Len(p.statements)].depth \in Nat
    BY <1>2, LastStatement
  <2>4. StackFits(q)
    BY <1>t, <1>2, <2>2, <2>3 DEF StackFits
  <2>5. ValueFits(q)
    BY <2>2, SameTokenFits DEF Good
  <2>6. Bounded(q, k)
    BY <1>t, <2>2 DEF Bounded
  <2> QED
    BY <2>1, <2>2, <2>4, <2>5, <2>6 DEF Good
<1> QED
  BY <1>1, <1>2

\* Parse takes a ';'.
LEMMA StatementEndGood ==
    ASSUME NEW p, Good(p), p.result = "running", NEW k \in Int, Bounded(p, k)
    PROVE  /\ Good(StatementEnd(p))
           /\ Bounded(StatementEnd(p), k)
           /\ StatementEnd(p).result \in {"running", "false"}
<1>t. p \in ParserType /\ StackFits(p)
  BY DEF Good
<1>1. CASE p.last # "NORMAL"
  <2>1. StatementEnd(p) = Fail(p)
    BY <1>1 DEF StatementEnd
  <2> QED
    BY <2>1, FailGood
<1>2. CASE p.last = "NORMAL"
  <2> DEFINE q == [p EXCEPT !.last = "STATEMENT_END"]
  <2>1. StatementEnd(p) = q
    BY <1>2 DEF StatementEnd
  <2>2. /\ q \in ParserType /\ q.statements = p.statements
        /\ q.last = "STATEMENT_END" /\ q.depth = p.depth /\ q.result = p.result
        /\ SameToken(p, q)
    BY <1>t DEF ParserType, SameToken, TokenType
  <2> HIDE DEF q
  <2>3. StackFits(q)
    BY <1>t, <1>2, <2>2 DEF StackFits
  <2>4. ValueFits(q)
    BY <2>2, SameTokenFits DEF Good
  <2>5. Bounded(q, k)
    BY <2>2 DEF Bounded
  <2> QED
    BY <2>1, <2>2, <2>3, <2>4, <2>5 DEF Good
<1> QED
  BY <1>1, <1>2

-----------------------------------------------------------------------------
(* ParseToken: each character. *)

\* A change of the token under construction alone.
LEMMA TokenGood ==
    ASSUME NEW p, Good(p), NEW k, Bounded(p, k), NEW q \in ParserType, ValueFits(q),
           q.last = p.last, q.depth = p.depth, q.statements = p.statements
    PROVE  Good(q) /\ Bounded(q, k)
BY DEF Good, StackFits, Bounded

\* The bound grows with the characters read.
LEMMA BoundedMore ==
    ASSUME NEW p, Good(p), NEW k \in Int, Bounded(p, k)
    PROVE  Bounded(p, k + 1)
<1>1. p.statements \in Seq(StatementType) /\ p.depth \in Int
  BY DEF Good, ParserType
<1>2. \A i \in 1..Len(p.statements) : p.statements[i] \in StatementType
  BY <1>1
<1>3. \A i \in 1..Len(p.statements) : p.statements[i].depth \in Int
  BY <1>2 DEF StatementType
<1> QED
  BY <1>1, <1>3 DEF Bounded

\* The first character of a token.
LEMMA InitialGood ==
    ASSUME NEW p, Good(p), p.result = "running", NEW k \in Int, Bounded(p, k), NEW c \in Char
    PROVE  /\ Good(Initial(p, c))
           /\ Bounded(Initial(p, c), k + 1)
           /\ Initial(p, c).result \in {"running", "false", "undefined"}
<1> DEFINE q == [p EXCEPT !.mode = "whitespace", !.value = <<>>]
<1>0. p \in ParserType
  BY DEF Good
<1>e. <<>> \in Seq(Char)
  OBVIOUS
<1>1. /\ q \in ParserType /\ q.mode = "whitespace" /\ q.result = "running"
      /\ q.last = p.last /\ q.depth = p.depth /\ q.statements = p.statements
  BY <1>0, <1>e DEF ParserType, Mode
<1>i. Initial(p, c) =
        CASE c = "lbrace" -> StartBlock(q)
          [] c = "rbrace" -> EndBlock(q)
          [] c = "semicolon" -> StatementEnd(q)
          [] c = "hash" -> [q EXCEPT !.mode = "comment"]
          [] c \in Quote -> [q EXCEPT !.mode = "quote", !.quote = c, !.value = <<c>>]
          [] c \in Blank \cup {"return"} -> q
          [] OTHER -> [q EXCEPT !.mode = "normal", !.value = <<c>>]
  BY DEF Initial
<1> HIDE DEF q
<1>v. ValueFits(q)
  BY <1>1 DEF ValueFits
<1>2. Good(q) /\ Bounded(q, k)
  BY <1>1, <1>v, TokenGood
<1>b. Bounded(q, k + 1)
  BY <1>2, BoundedMore
<1>c. /\ <<c>> \in Seq(Char) /\ <<c>> # <<>> /\ Len(<<c>>) = 1 /\ <<c>>[1] = c
  OBVIOUS
<1>3. CASE c = "lbrace"
  <2>1. Initial(p, c) = StartBlock(q)
    BY <1>i, <1>3 DEF Quote, Blank
  <2> QED
    BY <1>1, <1>2, <2>1, StartBlockGood
<1>4. CASE c = "rbrace"
  <2>1. Initial(p, c) = EndBlock(q)
    BY <1>i, <1>4 DEF Quote, Blank
  <2>2. Good(EndBlock(q)) /\ Bounded(EndBlock(q), k + 1)
        /\ EndBlock(q).result \in {"running", "false", "undefined"}
    BY <1>1, <1>2, <1>b, EndBlockGood
  <2> QED
    BY <2>1, <2>2
<1>5. CASE c = "semicolon"
  <2>1. Initial(p, c) = StatementEnd(q)
    BY <1>i, <1>5 DEF Quote, Blank
  <2>2. Good(StatementEnd(q)) /\ Bounded(StatementEnd(q), k + 1)
        /\ StatementEnd(q).result \in {"running", "false"}
    BY <1>1, <1>2, <1>b, StatementEndGood
  <2> QED
    BY <2>1, <2>2
<1>6. CASE c = "hash"
  <2> DEFINE z == [q EXCEPT !.mode = "comment"]
  <2>1. Initial(p, c) = z
    BY <1>i, <1>6 DEF Quote, Blank
  <2>2. /\ z \in ParserType /\ z.mode = "comment" /\ z.result = "running"
        /\ z.last = q.last /\ z.depth = q.depth /\ z.statements = q.statements
    BY <1>1 DEF ParserType, Mode
  <2> HIDE DEF z
  <2>3. ValueFits(z)
    BY <2>2 DEF ValueFits
  <2> QED
    BY <1>2, <1>b, <2>1, <2>2, <2>3, TokenGood
<1>7. CASE c \in Quote
  <2> DEFINE z == [q EXCEPT !.mode = "quote", !.quote = c, !.value = <<c>>]
  <2>1. Initial(p, c) = z
    BY <1>i, <1>7 DEF Quote, Blank
  <2>2. /\ z \in ParserType /\ z.mode = "quote" /\ z.result = "running"
        /\ z.quote = c /\ z.value = <<c>>
        /\ z.last = q.last /\ z.depth = q.depth /\ z.statements = q.statements
    BY <1>1, <1>7, <1>c DEF ParserType, Mode
  <2> HIDE DEF z
  <2>3. ValueFits(z)
    BY <1>c, <2>2 DEF ValueFits
  <2> QED
    BY <1>2, <1>b, <2>1, <2>2, <2>3, TokenGood
<1>8. CASE c \in Blank \cup {"return"}
  <2>1. Initial(p, c) = q
    BY <1>i, <1>8 DEF Quote, Blank
  <2> QED
    BY <1>1, <1>2, <1>b, <2>1
<1>9. CASE c \notin Quote \cup Blank \cup Mark \cup {"return", "hash"}
  <2> DEFINE z == [q EXCEPT !.mode = "normal", !.value = <<c>>]
  <2>1. Initial(p, c) = z
    <3>1. c \notin {"lbrace", "rbrace", "semicolon", "hash"}
      BY <1>9 DEF Mark
    <3> QED
      BY <1>i, <1>9, <3>1
  <2>2. /\ z \in ParserType /\ z.mode = "normal" /\ z.result = "running" /\ z.value = <<c>>
        /\ z.last = q.last /\ z.depth = q.depth /\ z.statements = q.statements
    BY <1>1, <1>c DEF ParserType, Mode
  <2> HIDE DEF z
  <2>3. ValueFits(z)
    BY <1>9, <1>c, <2>2 DEF ValueFits
  <2> QED
    BY <1>2, <1>b, <2>1, <2>2, <2>3, TokenGood
<1> QED
  BY <1>3, <1>4, <1>5, <1>6, <1>7, <1>8, <1>9 DEF Mark

\* A token ended, and the character after it.
LEMMA EmitGood ==
    ASSUME NEW p, Good(p), p.result = "running", p.mode \in {"normal", "quoted"},
           NEW k \in Int, Bounded(p, k), NEW c \in Char
    PROVE  /\ Good(Emit(p, c))
           /\ Bounded(Emit(p, c), k + 1)
           /\ Emit(p, c).result \in {"running", "false", "undefined"}
<1>1. p.value \in Seq(Char) /\ ValueFits(p)
  BY DEF Good, ParserType
<1>2. TokenClean(p.value)
  <2>1. CASE p.mode = "normal"
    <3>1. DOMAIN p.value = 1..Len(p.value)
      BY <1>1
    <3> QED
      BY <1>1, <2>1, <3>1 DEF ValueFits, TokenClean
  <2>2. CASE p.mode = "quoted"
    BY <1>1, <2>2 DEF ValueFits
  <2> QED
    BY <2>1, <2>2
<1> DEFINE q == Normal(p, p.value)
<1>3. Good(q) /\ Bounded(q, k) /\ q.result \in {"running", "undefined"}
  BY <1>1, <1>2, NormalGood
<1>4. Emit(p, c) = IF q.result = "running" THEN Initial(q, c) ELSE q
  BY DEF Emit
<1> HIDE DEF q
<1>5. CASE q.result = "running"
  <2>1. Emit(p, c) = Initial(q, c)
    BY <1>4, <1>5
  <2>2. /\ Good(Initial(q, c))
        /\ Bounded(Initial(q, c), k + 1)
        /\ Initial(q, c).result \in {"running", "false", "undefined"}
    BY <1>3, <1>5, InitialGood
  <2> QED
    BY <2>1, <2>2
<1>6. CASE q.result # "running"
  <2>1. Bounded(q, k + 1)
    BY <1>3, BoundedMore
  <2> QED
    BY <1>3, <1>4, <1>6, <2>1
<1> QED
  BY <1>5, <1>6

\* One character, in every mode.
LEMMA FeedGood ==
    ASSUME NEW p, Good(p), p.result = "running", NEW k \in Int, Bounded(p, k), NEW c \in Char
    PROVE  /\ Good(Feed(p, c))
           /\ Bounded(Feed(p, c), k + 1)
           /\ Feed(p, c).result \in {"running", "false", "undefined"}
<1>t. /\ p \in ParserType /\ p.value \in Seq(Char) /\ ValueFits(p)
      /\ p.mode \in Mode /\ p.quote \in Quote
  BY DEF Good, ParserType
<1>b. Bounded(p, k + 1)
  BY BoundedMore
<1> DEFINE v == Append(p.value, c)
<1>v. /\ v \in Seq(Char) /\ v # <<>>
      /\ Len(v) = Len(p.value) + 1 /\ Len(p.value) \in Nat
      /\ \A j \in 1..Len(p.value) : v[j] = p.value[j]
      /\ v[Len(p.value) + 1] = c
  BY <1>t, AppendFacts
<1>n. p.value # <<>> => Len(p.value) >= 1
  BY <1>t
<1>1. CASE p.mode = "whitespace"
  <2>1. Feed(p, c) = Initial(p, c)
    BY <1>1 DEF Feed
  <2> QED
    BY <2>1, InitialGood
<1>2. CASE p.mode = "comment"
  <2> DEFINE z == [p EXCEPT !.mode = "whitespace"]
  <2>1. Feed(p, c) = z \/ Feed(p, c) = p
    BY <1>2 DEF Feed
  <2>2. /\ z \in ParserType /\ z.mode = "whitespace" /\ z.result = "running"
        /\ z.last = p.last /\ z.depth = p.depth /\ z.statements = p.statements
    BY <1>t DEF ParserType, Mode
  <2> HIDE DEF z
  <2>3. ValueFits(z)
    BY <2>2 DEF ValueFits
  <2>4. Good(z) /\ Bounded(z, k + 1)
    BY <1>b, <2>2, <2>3, TokenGood
  <2> QED
    BY <1>b, <2>1, <2>2, <2>4
<1>3. CASE p.mode = "quote"
  <2> DEFINE m == IF c = p.quote THEN "quoted" ELSE "quote"
             z == [p EXCEPT !.value = v, !.mode = m]
  <2>1. Feed(p, c) = z
    BY <1>3 DEF Feed
  <2>2. m \in Mode
    BY DEF Mode
  <2> HIDE DEF v
  <2>3. /\ z \in ParserType /\ z.mode = m /\ z.result = "running" /\ z.value = v
        /\ z.quote = p.quote
        /\ z.last = p.last /\ z.depth = p.depth /\ z.statements = p.statements
    BY <1>t, <1>v, <2>2 DEF ParserType
  <2> HIDE DEF z
  <2>4. /\ Len(p.value) >= 1 /\ v[1] = p.quote
        /\ \A j \in 2..Len(p.value) : v[j] # p.quote
    BY <1>3, <1>n, <1>t, <1>v DEF ValueFits
  <2>5. ValueFits(z)
    <3>1. CASE c = p.quote
      <4>1. TokenClean(v)
        BY <1>t, <1>v, <2>4, <3>1 DEF TokenClean
      <4> QED
        BY <1>v, <2>3, <3>1, <4>1 DEF ValueFits
    <3>2. CASE c # p.quote
      <4>1. \A j \in 2..Len(v) : v[j] # p.quote
        <5>1. \A j \in 2..(Len(p.value) + 1) : j \in 2..Len(p.value) \/ j = Len(p.value) + 1
          BY <1>v
        <5> QED
          BY <1>v, <2>4, <3>2, <5>1
      <4> QED
        BY <1>v, <2>3, <2>4, <3>2, <4>1 DEF ValueFits
    <3> QED
      BY <3>1, <3>2
  <2> QED
    BY <1>b, <2>1, <2>3, <2>5, TokenGood
<1>4. CASE p.mode = "quoted"
  <2>1. Feed(p, c) = IF EndsWord(c) THEN Emit(p, c) ELSE Fail(p)
    BY <1>4 DEF Feed, AfterQuote
  <2>2. CASE EndsWord(c)
    BY <1>4, <2>1, <2>2, EmitGood
  <2>3. CASE ~EndsWord(c)
    <3>1. Feed(p, c) = Fail(p)
      BY <2>1, <2>3
    <3> QED
      BY <1>b, <3>1, FailGood
  <2> QED
    BY <2>2, <2>3
<1>5. CASE p.mode = "normal"
  <2> DEFINE z == [p EXCEPT !.value = v]
  <2>1. Feed(p, c) = IF EndsWord(c) THEN Emit(p, c) ELSE z
    BY <1>5 DEF Feed
  <2>2. CASE EndsWord(c)
    BY <1>5, <2>1, <2>2, EmitGood
  <2>3. CASE ~EndsWord(c)
    <3>1. Feed(p, c) = z /\ c \notin Blank \cup Mark
      BY <2>1, <2>3 DEF EndsWord
    <3> HIDE DEF v
    <3>2. /\ z \in ParserType /\ z.mode = "normal" /\ z.result = "running" /\ z.value = v
          /\ z.last = p.last /\ z.depth = p.depth /\ z.statements = p.statements
      BY <1>5, <1>t, <1>v DEF ParserType
    <3> HIDE DEF z
    <3>3. v[1] \notin Quote /\ \A j \in 1..Len(v) : v[j] \notin Blank \cup Mark
      <4>1. \A j \in 1..(Len(p.value) + 1) : j \in 1..Len(p.value) \/ j = Len(p.value) + 1
        BY <1>v
      <4> QED
        BY <1>5, <1>n, <1>t, <1>v, <3>1, <4>1 DEF ValueFits
    <3>4. ValueFits(z)
      BY <1>v, <3>2, <3>3 DEF ValueFits
    <3> QED
      BY <1>b, <3>1, <3>2, <3>4, TokenGood
  <2> QED
    BY <2>2, <2>3
<1> QED
  BY <1>t, <1>1, <1>2, <1>3, <1>4, <1>5 DEF Mode

-----------------------------------------------------------------------------
(* Every file. *)

\* The inductive invariant.
ParserInv ==
    /\ Good(parser)
    /\ length \in Nat
    /\ Bounded(parser, length)
    /\ parser.result = "true" => parser.last \in {"STATEMENT_END", "END_BLOCK"}

LEMMA InitInv == Init => ParserInv
<1> SUFFICES ASSUME Init PROVE ParserInv
  OBVIOUS
<1>1. parser = Start /\ length = 0 /\ parser.result = "running"
  BY DEF Init, Start
<1> QED
  BY <1>1, StartGood DEF ParserInv

LEMMA NextInv == ParserInv /\ [Next]_vars => ParserInv'
<1> SUFFICES ASSUME ParserInv, [Next]_vars PROVE ParserInv'
  OBVIOUS
<1>t. Good(parser) /\ length \in Nat /\ Bounded(parser, length)
  BY DEF ParserInv
<1>1. CASE UNCHANGED vars
  BY <1>1 DEF vars, ParserInv
<1>2. CASE End
  <2>1. length' = length /\ parser' = EndOfFile(parser)
    BY <1>2 DEF End
  <2>2. CASE parser' = Fail(parser)
    BY <1>t, <2>1, <2>2, FailGood DEF ParserInv
  <2>3. CASE parser' # Fail(parser)
    <3>1. parser' = Accept(parser) /\ parser.last \in {"STATEMENT_END", "END_BLOCK"}
      BY <2>1, <2>3 DEF EndOfFile
    <3> QED
      BY <1>t, <2>1, <3>1, AcceptGood DEF ParserInv
  <2> QED
    BY <2>2, <2>3
<1>3. CASE OpenFails
  BY <1>t, <1>3, FailGood DEF OpenFails, ParserInv
<1>4. ASSUME NEW c \in Char, Read(c) PROVE ParserInv'
  <2>1. parser.result = "running" /\ parser' = Feed(parser, c) /\ length' = length + 1
    BY <1>4 DEF Read
  <2>2. /\ Good(Feed(parser, c)) /\ Bounded(Feed(parser, c), length + 1)
        /\ Feed(parser, c).result \in {"running", "false", "undefined"}
    BY <1>t, <2>1, FeedGood
  <2> QED
    BY <1>t, <2>1, <2>2 DEF ParserInv
<1> QED
  BY <1>1, <1>2, <1>3, <1>4 DEF Next

LEMMA ParserInvHolds == Spec => []ParserInv
BY InitInv, NextInv, PTL DEF Spec

\* For files of any length: NginxConfigParser keeps its records well formed, and
\* every block on its stack was opened by a statement of its own.
THEOREM ParserTypeCorrect == Spec => []TypeOK
<1>1. ASSUME ParserInv PROVE TypeOK
  <2>1. /\ parser \in ParserType /\ length \in Nat /\ Bounded(parser, length)
        /\ parser.statements \in Seq(StatementType) /\ parser.depth \in Int
        /\ parser.depth <= Len(parser.statements)
    BY <1>1 DEF ParserInv, Good, ParserType, StackFits
  <2>2. DOMAIN parser.statements = 1..Len(parser.statements)
    BY <2>1
  <2>3. \A i \in 1..Len(parser.statements) : parser.statements[i] \in StatementType
    BY <2>1
  <2>4. \A i \in DOMAIN parser.statements :
            /\ parser.statements[i].depth \in 0..length
            /\ parser.statements[i].block \in BOOLEAN
            /\ parser.statements[i].tokens \in Seq(Seq(Char))
    BY <2>1, <2>2, <2>3 DEF StatementType, Bounded
  <2> QED
    BY <2>1, <2>4 DEF TypeOK, ParserType, Mode, Result
<1> QED
  BY <1>1, ParserInvHolds, PTL

\* For files of any length: in a configuration NginxConfigParser accepts every
\* statement has a first token and every child_block_ a first statement one
\* level below, which portNumber and generate_routes read without a check.
THEOREM AcceptedBlocksNested == Spec => []BlocksNested
<1>1. ASSUME ParserInv, parser.result = "true" PROVE
        /\ Statement(1).depth = 0
        /\ \A i \in DOMAIN parser.statements :
               /\ Statement(i).tokens # <<>>
               /\ i > 1 => Statement(i).depth <= Statement(i - 1).depth
                                                    + (IF Statement(i - 1).block THEN 1 ELSE 0)
               /\ Statement(i).block => /\ i < Len(parser.statements)
                                        /\ Statement(i + 1).depth = Statement(i).depth + 1
  <2> DEFINE s == parser.statements
  <2>1. s \in Seq(StatementType) /\ NestedSoFar(s) /\ Good(parser) /\ StackFits(parser)
    BY <1>1 DEF ParserInv, Good, ParserType
  <2>2. parser.last \in {"STATEMENT_END", "END_BLOCK"}
    BY <1>1 DEF ParserInv
  <2>3. Len(s) \in Nat \ {0} /\ ~s[Len(s)].block
    BY <2>1, <2>2, LastStatement DEF StackFits
  <2>4. DOMAIN s = 1..Len(s)
    BY <2>1
  <2>5. ASSUME NEW i \in 1..Len(s)
        PROVE  /\ s[i].tokens # <<>>
               /\ i > 1 => s[i].depth <= s[i - 1].depth + (IF s[i - 1].block THEN 1 ELSE 0)
               /\ s[i].block => i < Len(s) /\ s[i + 1].depth = s[i].depth + 1
    <3>1. s[i].tokens # <<>>
      BY <2>1 DEF NestedSoFar
    <3>2. ASSUME i > 1
          PROVE  s[i].depth <= s[i - 1].depth + (IF s[i - 1].block THEN 1 ELSE 0)
      <4>1. i - 1 \in 1..(Len(s) - 1) /\ (i - 1) + 1 = i
        BY <2>3, <3>2
      <4> QED
        BY <2>1, <4>1 DEF NestedSoFar
    <3>3. ASSUME s[i].block PROVE i < Len(s) /\ s[i + 1].depth = s[i].depth + 1
      <4>1. i \in 1..(Len(s) - 1)
        BY <2>3, <3>3
      <4> QED
        BY <2>1, <2>3, <3>3, <4>1 DEF NestedSoFar
    <3> QED
      BY <3>1, <3>2, <3>3
  <2>6. s[1].depth = 0
    BY <2>1, <2>3 DEF NestedSoFar
  <2> QED
    BY <2>4, <2>5, <2>6 DEF Statement
<1>2. ParserInv => BlocksNested
  BY <1>1 DEF BlocksNested
<1> QED
  BY <1>2, ParserInvHolds, PTL

\* For files of any length: a token NginxConfigParser stores is one unquoted
\* word, or ends with the quote it began with and has no other of its kind.
THEOREM StoredTokensClean == Spec => []TokensClean
<1>1. ASSUME ParserInv, NEW i \in DOMAIN parser.statements, NEW k \in DOMAIN Statement(i).tokens
      PROVE  TokenClean(Statement(i).tokens[k])
  <2>1. parser.statements \in Seq(StatementType) /\ NestedSoFar(parser.statements)
    BY <1>1 DEF ParserInv, Good, ParserType
  <2>2. i \in 1..Len(parser.statements) /\ parser.statements[i] \in StatementType
    BY <2>1
  <2>3. parser.statements[i].tokens \in Seq(Seq(Char))
    BY <2>2 DEF StatementType
  <2>4. k \in 1..Len(parser.statements[i].tokens)
    BY <2>3 DEF Statement
  <2> QED
    BY <2>1, <2>2, <2>4 DEF NestedSoFar, Statement
<1>2. ParserInv => TokensClean
  BY <1>1 DEF TokensClean
<1> QED
  BY <1>2, ParserInvHolds, PTL
=============================================================================
