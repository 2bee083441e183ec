---------------------------- MODULE ConfigParser ----------------------------
(***************************************************************************)
(* NginxConfigParser: ParseToken cuts the characters of a configuration    *)
(* into tokens, Parse builds the nested statements from them.  A character *)
(* is one of the classes the code tells apart; Letter stands for all it    *)
(* has no case for.                                                        *)
(*                                                                         *)
(* ParseToken looks one character ahead (peek, unget), so a token ends     *)
(* with the character after it: Feed takes one character and may pass two  *)
(* tokens on to Parse.  The config is the sequence of its statements in    *)
(* the order of the text, each with the depth of the block it stands in    *)
(* and whether it has a child_block_ of its own.                           *)
(***************************************************************************)
EXTENDS Integers, Sequences

CONSTANTS
    Letter,    \* characters without a case of their own
    MaxChars   \* bound: the length of the file

ASSUME MaxCharsAssumption == MaxChars \in Nat

Blank == {"blank", "newline"}         \* ' ', '\t' and '\n'
Quote == {"dquote", "squote"}
Mark == {"semicolon", "lbrace", "rbrace"}
Char == Letter \cup Blank \cup Quote \cup Mark \cup {"return", "hash"}

ASSUME LetterAssumption == Letter \cap (Blank \cup Quote \cup Mark \cup {"return", "hash"}) = {}

TokenType == {"START", "NORMAL", "START_BLOCK", "END_BLOCK", "STATEMENT_END"}

VARIABLES
    parser,  \* the state of ParseToken and Parse, a record
    length   \* the characters read

vars == <<parser, length>>

\* mode: TokenParserState, "quoted" for a quote that has just been closed;
\* quote: the quote that is open; depth: the pushes on config_stack less the
\* pops, its first element not counted, so that -1 is the empty stack.
Start ==
    [mode |-> "whitespace", quote |-> "dquote", value |-> <<>>, last |-> "START",
     depth |-> 0, statements |-> <<>>, result |-> "running"]

-----------------------------------------------------------------------------
(* Parse: one token. *)

Fail(p) == [p EXCEPT !.result = "false"]

\* A statement is entered in the top() of an empty stack: a write through a
\* pointer that is none, after which nothing can be said.
Undefined(p) == [p EXCEPT !.result = "undefined"]

Accept(p) == [p EXCEPT !.result = "true"]

Normal(p, token) ==
    IF p.last = "NORMAL"
    THEN [p EXCEPT !.statements[Len(p.statements)].tokens = Append(@, token)]
    ELSE IF p.depth < 0 THEN Undefined(p)
    ELSE [p EXCEPT !.statements = Append(@, [depth |-> p.depth, tokens |-> <<token>>,
                                             block |-> FALSE]),
                   !.last = "NORMAL"]

\* Mutant: a block may follow any token.
StartBlockAnywhere(p) == [p EXCEPT !.depth = @ + 1, !.last = "START_BLOCK"]

StartBlock(p) ==
    IF p.last # "NORMAL" THEN Fail(p)
    ELSE [p EXCEPT !.statements[Len(p.statements)].block = TRUE, !.depth = @ + 1,
                   !.last = "START_BLOCK"]

\* Mutant: a block may be empty.
EndBlockEmpty(p) ==
    IF p.last \notin {"START_BLOCK", "STATEMENT_END", "END_BLOCK"} THEN Fail(p)
    ELSE [p EXCEPT !.depth = @ - 1, !.last = "END_BLOCK"]

\* Nothing checks the height of the stack.  pop() of an empty std::stack moves
\* the end of its deque and reads no element: Parse goes on, and returns true
\* when no statement follows.
EndBlock(p) ==
    IF p.last \notin {"STATEMENT_END", "END_BLOCK"} THEN Fail(p)
    ELSE [p EXCEPT !.depth = @ - 1, !.last = "END_BLOCK"]

StatementEnd(p) ==
    IF p.last # "NORMAL" THEN Fail(p) ELSE [p EXCEPT !.last = "STATEMENT_END"]

-----------------------------------------------------------------------------
(* ParseToken: one character. *)

\* TOKEN_STATE_INITIAL_WHITESPACE: the first character of a token.
Initial(p, c) ==
    LET q == [p EXCEPT !.mode = "whitespace", !.value = <<>>]
    IN  CASE c = "lbrace" -> StartBlock(q)
          [] c = "rbrace" -> EndBlock(q)
          [] c = "semicolon" -> StatementEnd(q)
          [] c = "hash" -> [q EXCEPT !.mode = "comment"]
          [] c \in Quote -> [q EXCEPT !.mode = "quote", !.quote = c, !.value = <<c>>]
          [] c \in Blank \cup {"return"} -> q
          [] OTHER -> [q EXCEPT !.mode = "normal", !.value = <<c>>]

\* A token ended before c: Parse takes it, and c begins the next one.
Emit(p, c) ==
    LET q == Normal(p, p.value)
    IN  IF q.result = "running" THEN Initial(q, c) ELSE q

\* Mutant: a word ends at white space alone.
EndsWordAtBlank(c) == c \in Blank

\* A '\r' ends no word, and may not follow a quoted token.
EndsWord(c) == c \in Blank \cup Mark

\* The character after a closing quote.
AfterQuote(p, c) == IF EndsWord(c) THEN Emit(p, c) ELSE Fail(p)

Feed(p, c) ==
    CASE p.mode = "whitespace" -> Initial(p, c)
      [] p.mode = "comment" -> IF c \in {"newline", "return"}
                               THEN [p EXCEPT !.mode = "whitespace"] ELSE p
      [] p.mode = "quote" -> [p EXCEPT !.value = Append(@, c),
                                       !.mode = IF c = p.quote THEN "quoted" ELSE "quote"]
      [] p.mode = "quoted" -> AfterQuote(p, c)
      [] p.mode = "normal" -> IF EndsWord(c) THEN Emit(p, c)
                              ELSE [p EXCEPT !.value = Append(@, c)]

\* The end of the file: an error inside or right after quotes, else EOF, also
\* inside an unquoted token, which is dropped.
EndOfFile(p) ==
    IF p.mode \in {"quote", "quoted"} \/ p.last \notin {"STATEMENT_END", "END_BLOCK"}
    THEN Fail(p) ELSE Accept(p)

-----------------------------------------------------------------------------

Init == parser = Start /\ length = 0

Read(c) ==
    /\ parser.result = "running"
    /\ length < MaxChars
    /\ parser' = Feed(parser, c)
    /\ length' = length + 1

End ==
    /\ parser.result = "running"
    /\ parser' = EndOfFile(parser)
    /\ UNCHANGED length

\* Parse of a file name that cannot be opened.
OpenFails ==
    /\ parser = Start
    /\ length = 0
    /\ parser' = Fail(parser)
    /\ UNCHANGED length

Next == End \/ OpenFails \/ \E c \in Char : Read(c)

Spec == Init /\ [][Next]_vars

-----------------------------------------------------------------------------

\* Every block on the stack was opened by a statement of its own; how far the
\* stack is popped, nothing bounds.
TypeOK ==
    /\ parser.mode \in {"whitespace", "comment", "quote", "quoted", "normal"}
    /\ parser.quote \in Quote
    /\ parser.last \in TokenType
    /\ parser.depth \in Int /\ parser.depth <= Len(parser.statements)
    /\ parser.result \in {"running", "true", "false", "undefined"}
    /\ parser.value \in Seq(Char)
    /\ \A i \in DOMAIN parser.statements :
           /\ parser.statements[i].depth \in 0..length
           /\ parser.statements[i].block \in BOOLEAN
           /\ parser.statements[i].tokens \in Seq(Seq(Char))

Statement(i) == parser.statements[i]

\* What portNumber and generate_routes read without a check: a statement has a
\* first token, and a child block that is there has a first statement, one
\* level below.  It holds of every file the parser accepts.
BlocksNested ==
    parser.result = "true" =>
        /\ Statement(1).depth = 0
        /\ \A i \in DOMAIN parser.statements :
               /\ Statement(i).tokens # <<>>
               /\ i > 1 => Statement(i).depth <= Statement(i - 1).depth
                                                    + (IF Statement(i - 1).block THEN 1 ELSE 0)
               /\ Statement(i).block => /\ i < Len(parser.statements)
                                        /\ Statement(i + 1).depth = Statement(i).depth + 1

\* An unquoted token is one word, a quoted one ends with the quote it began
\* with and has no other of its kind, whatever stands between.
TokenClean(token) ==
    IF token[1] \in Quote
    THEN /\ Len(token) >= 2 /\ token[Len(token)] = token[1]
         /\ \A j \in 2..(Len(token) - 1) : token[j] # token[1]
    ELSE \A j \in DOMAIN token : token[j] \notin Blank \cup Mark

\* Every token of every statement of an accepted file is of one of these forms.
TokensClean ==
    parser.result = "true" =>
        \A i \in DOMAIN parser.statements : \A k \in DOMAIN Statement(i).tokens :
            TokenClean(Statement(i).tokens[k])
=============================================================================
