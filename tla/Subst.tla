------------------------------- MODULE Subst -------------------------------
(***************************************************************************)
(* interact -subst PATTERN::REPLACE (src/client.c): cli_subst_compile()    *)
(* takes the options apart, cli_subst_raw() rewrites the output of one     *)
(* message.  Regular expressions are external; here they are literal text  *)
(* with groups in parentheses, not nested.  Such a pattern can match the   *)
(* empty string, as () does, and then the loop of cli_subst() never ends.  *)
(***************************************************************************)
EXTENDS Escapes, Loop

Paren == 40
CloseParen == 41
ColonChar == 58

-----------------------------------------------------------------------------
(* The regular expressions of the C library, as far as they are used *)

\* regcomp()
Regcomp(p) ==
    LET text == SelectSeq(p, LAMBDA c : c \notin {Paren, CloseParen})
        Before(k) == Cardinality({j \in 1 .. k : p[j] \notin {Paren, CloseParen}})
        Nth(c, n) == CHOOSE k \in DOMAIN p : p[k] = c /\ Cardinality({j \in 1 .. k : p[j] = c}) = n
    IN  [text |-> text,
         groups |-> [n \in 1 .. Cardinality({k \in DOMAIN p : p[k] = Paren}) |->
                        <<Before(Nth(Paren, n)), Before(Nth(CloseParen, n))>>]]

\* "invalid ERE pattern"
RegcompFails(p) ==
    LET Count(c, k) == Cardinality({j \in 1 .. k : p[j] = c})
    IN  \/ Count(Paren, Len(p)) # Count(CloseParen, Len(p))
        \/ \E k \in DOMAIN p : Count(Paren, k) < Count(CloseParen, k)

\* regexec(): where the pattern matches in s; the first is rm_so of the match.
Starts(re, s) ==
    {k \in 0 .. (Len(s) - Len(re.text)) : SubSeq(s, k + 1, k + Len(re.text)) = re.text}
rm_so(re, s) == Min(Starts(re, s))
rm_eo(re, s) == rm_so(re, s) + Len(re.text)

\* matches[n]; nothing for a group that is not there.
Group(re, s, n) ==
    IF n = 0 THEN re.text
    ELSE IF n \notin DOMAIN re.groups THEN <<>>
    ELSE SubSeq(re.text, re.groups[n][1] + 1, re.groups[n][2])

-----------------------------------------------------------------------------
(* cli_subst_compile() *)

REPLACE_LITERAL(s) == [lit |-> TRUE, str |-> s, match |-> 0]
REPLACE_MATCH(n) == [lit |-> FALSE, str |-> <<>>, match |-> n]

\* strunesc() as a whole; -1 is appended where it returns NULL.
strunesc(s) ==
    LET n(in) == UnescTurn(in).n
    IN  Loop([in \in Seq(Byte) |-> IF in = <<>> \/ n(in) = 0 THEN <<>> ELSE SubSeq(in, n(in) + 1, Len(in))],
             [in \in Seq(Byte) |-> IF in = <<>> THEN <<>>
                                   ELSE IF n(in) = 0 THEN <<-1>> ELSE <<UnescTurn(in).c>>], s)

\* "invalid backslash escapes", "pattern cannot include NULL bytes"
BadEscapes(s) == \E k \in DOMAIN strunesc(s) : strunesc(s)[k] \in {-1, NUL}

\* [(][0123456789][)]
Refs(s) ==
    {k \in 1 .. (Len(s) - 2) : s[k] = Paren /\ s[k + 1] \in 48 .. 57 /\ s[k + 2] = CloseParen}

cli_subst_parse_repl(s) ==
    LET Literal(t) == IF t = <<>> THEN <<>> ELSE <<REPLACE_LITERAL(t)>>
        k(p) == Min(Refs(p))
    IN  Loop([p \in Seq(Byte) |-> IF Refs(p) = {} THEN <<>> ELSE SubSeq(p, k(p) + 3, Len(p))],
             [p \in Seq(Byte) |->
                IF Refs(p) = {} THEN Literal(p)
                ELSE Literal(SubSeq(p, 1, k(p) - 1)) \o <<REPLACE_MATCH(p[k(p) + 1] - 48)>>], s)

\* strstr(): where SUBST_SEP is.
Seps(s) == {k \in 1 .. (Len(s) - 1) : s[k] = ColonChar /\ s[k + 1] = ColonChar}
PatternPart(s) == SubSeq(s, 1, Min(Seps(s)) - 1)
ReplacePart(s) == SubSeq(s, Min(Seps(s)) + 2, Len(s))

\* Options the client goes on with; it gives up before it connects.
SubstAccepted(s, cstring) ==
    /\ Seps(s) # {}
    /\ PatternPart(s) # <<>>
    /\ ~ (cstring /\ BadEscapes(PatternPart(s)))
    /\ ~ RegcompFails(IF cstring THEN strunesc(PatternPart(s)) ELSE PatternPart(s))
    /\ cstring => \A k \in DOMAIN cli_subst_parse_repl(ReplacePart(s)) :
                     ~ BadEscapes(cli_subst_parse_repl(ReplacePart(s))[k].str)

cli_subst_compile(s, cstring) ==
    LET Plain(t) == IF cstring THEN strunesc(t) ELSE t
        parts == cli_subst_parse_repl(ReplacePart(s))
    IN  [pat |-> Regcomp(Plain(PatternPart(s))),
         repl |-> [k \in DOMAIN parts |-> [parts[k] EXCEPT !.str = Plain(@)]]]

-----------------------------------------------------------------------------
(* The output is written in pieces: of is the output a piece stands for.   *)

Piece(of, text, sub) == [of |-> of, text |-> text, sub |-> sub]
Unchanged(s) == IF s = <<>> THEN <<>> ELSE <<Piece(s, s, 0)>>

Expand(sub, s) ==
    FlattenSeq([k \in DOMAIN sub.repl |->
        IF sub.repl[k].lit THEN sub.repl[k].str ELSE Group(sub.pat, s, sub.repl[k].match)])

\* Fault: the text in front of the match is not skipped.
AfterMatch_Length(re, s) == SubSeq(s, Len(re.text) + 1, Len(s))

\* s += matches[0].rm_eo
AfterMatch(re, s) == SubSeq(s, rm_eo(re, s) + 1, Len(s))

\* What the child may write; what msg_recv() finds in its buffer in place of a
\* byte it could not read.
Octet == 0 .. 255
Stale == 256
Char == 0 .. 256

\* The first -subst that matches anywhere in what is left, as long as something
\* is; the text in front of the match stays as it is.
Hits(subs, s) == {n \in DOMAIN subs : s # <<>> /\ Starts(subs[n].pat, s) # {}}

\* Its match is empty: the next turn finds the same, for ever.
EmptyMatch(subs, s) ==
    Hits(subs, s) # {} /\ [n \in DOMAIN subs |-> subs[n].pat.text][Min(Hits(subs, s))] = <<>>

\* The text such a turn does not get past
Endless == -2

Substituted(sub, n, s) ==
    Unchanged(SubSeq(s, 1, rm_so(sub.pat, s))) \o <<Piece(sub.pat.text, Expand(sub, s), n)>>

SubstRest(subs, s) ==
    IF Hits(subs, s) = {} \/ EmptyMatch(subs, s) THEN <<>>
    ELSE [n \in DOMAIN subs |-> AfterMatch(subs[n].pat, s)][Min(Hits(subs, s))]

SubstOut(subs, s) ==
    IF Hits(subs, s) = {} THEN Unchanged(s)
    ELSE IF EmptyMatch(subs, s) THEN <<Piece(s, <<>>, Endless)>>
    ELSE [n \in DOMAIN subs |-> Substituted(subs[n], n, s)][Min(Hits(subs, s))]

cli_subst(subs, s) ==
    Loop([t \in Seq(Char) |-> SubstRest(subs, t)], [t \in Seq(Char) |-> SubstOut(subs, t)], s)

\* strlen() and the NUL behind it
Nuls(raw) == {k \in DOMAIN raw : raw[k] = NUL}

RawRest(raw) == IF Nuls(raw) = {} THEN <<>> ELSE SubSeq(raw, Min(Nuls(raw)) + 1, Len(raw))

RawOut(subs, raw) ==
    IF Nuls(raw) = {} THEN cli_subst(subs, raw)
    ELSE cli_subst(subs, SubSeq(raw, 1, Min(Nuls(raw)) - 1)) \o Unchanged(<<NUL>>)

cli_subst_raw(subs, raw) ==
    Loop([t \in Seq(Char) |-> RawRest(t)], [t \in Seq(Char) |-> RawOut(subs, t)], raw)

\* cli_subst_raw() does not return.
NeverEnds(subs, raw) ==
    \E pieces \in {cli_subst_raw(subs, raw)} : \E k \in DOMAIN pieces : pieces[k].sub = Endless

=============================================================================
