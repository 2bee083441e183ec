----------------------------- MODULE ConfigText -----------------------------
(***************************************************************************)
(* NginxConfig::ToString, the text of a parsed configuration, and what the *)
(* parser makes of that text.                                              *)
(***************************************************************************)
EXTENDS ConfigParser, SequencesExt

Indent(depth) == [i \in 1..(2 * depth) |-> "blank"]

\* Mutant: tokens are written one after the other.
JoinTight(tokens) == FlattenSeq(tokens)

\* The tokens of a statement with a blank between them.
Join(tokens) == Tail(FlattenSeq([k \in DOMAIN tokens |-> <<"blank">> \o tokens[k]]))

\* A statement without what its child block holds.
Line(s) ==
    Indent(s.depth) \o Join(s.tokens)
        \o (IF s.block THEN <<"blank", "lbrace", "newline">> ELSE <<"semicolon", "newline">>)

\* The ends of the blocks of depth from - 1 down to depth.
Close(from, depth) ==
    FlattenSeq([k \in 1..(from - depth) |-> Indent(from - k) \o <<"rbrace", "newline">>])

\* The depth at which the text goes on after statement i.
Inside(statements, i) ==
    IF i = 0 THEN 0 ELSE statements[i].depth + (IF statements[i].block THEN 1 ELSE 0)

ToText(statements) ==
    FlattenSeq([i \in DOMAIN statements |->
                   Close(Inside(statements, i - 1), statements[i].depth) \o Line(statements[i])])
        \o Close(Inside(statements, Len(statements)), 0)

\* Parse stops at its first error.
FeedRunning(p, c) == IF p.result = "running" THEN Feed(p, c) ELSE p

ParseText(text) ==
    LET p == FoldLeft(FeedRunning, Start, text)
    IN  IF p.result = "running" THEN EndOfFile(p) ELSE p

\* ToString of a configuration that was accepted, whatever its layout, comments
\* and quotes, is a text that is accepted again, with its braces balanced, and
\* that means the same.
RoundTrip ==
    parser.result = "true" =>
        LET p == ParseText(ToText(parser.statements))
        IN  p.result = "true" /\ p.depth = 0 /\ p.statements = parser.statements
=============================================================================
