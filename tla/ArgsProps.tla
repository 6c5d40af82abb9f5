------------------------------ MODULE ArgsProps ------------------------------
(***************************************************************************)
(* What getargs() makes of its strings: the meaning of escapes and of      *)
(* globs defined on their own, and the properties of Args that compare the *)
(* two.                                                                    *)
(***************************************************************************)
EXTENDS Args, Loop

-----------------------------------------------------------------------------
(* C style escapes: the longest spelling wins. *)

Spelled(e) ==
    \/ Len(e) = 2 /\ e[2] \notin {99, 120}
    \/ Len(e) = 3 /\ \/ e[2] = 99 /\ toupper(e[3]) \in 65 .. 95
                     \/ e[2] = 120 /\ isxdigit(e[3])
                     \/ isodigit(e[2]) /\ isodigit(e[3])
    \/ Len(e) = 4 /\ \/ e[2] = 120 /\ isxdigit(e[3]) /\ isxdigit(e[4])
                     \/ e[2] \in 48 .. 51 /\ isodigit(e[3]) /\ isodigit(e[4])

\* One to three digits.
InBase(base, d) ==
    CASE Len(d) = 1 -> Digit(d[1])
      [] Len(d) = 2 -> base * Digit(d[1]) + Digit(d[2])
      [] Len(d) = 3 -> base * (base * Digit(d[1]) + Digit(d[2])) + Digit(d[3])

Denotes(e) ==
    IF e[2] = 99 THEN toupper(e[3]) - 64
    ELSE IF e[2] = 120 THEN InBase(16, SubSeq(e, 3, Len(e)))
    ELSE IF isodigit(e[2]) THEN InBase(8, SubSeq(e, 2, Len(e)))
    ELSE IF e[2] \in DOMAIN Native THEN Native[e[2]]
    ELSE e[2]

\* The lengths an escape at the start of s can have.
Spellings(s) == {k \in 2 .. Min({4, Len(s)}) : Spelled(SubSeq(s, 1, k))}

\* A byte that stands for itself; a backslash at the end does, too.
IsPlain(s) == Head(s) # Backslash \/ Len(s) = 1

MeaningRest(s) ==
    IF s = <<>> THEN <<>>
    ELSE IF IsPlain(s) THEN Tail(s)
    ELSE IF Spellings(s) = {} THEN <<>>
    ELSE SubSeq(s, Max(Spellings(s)) + 1, Len(s))

MeaningOut(s) ==
    IF s = <<>> THEN <<>>
    ELSE IF IsPlain(s) THEN <<Head(s)>>
    ELSE IF Spellings(s) = {} THEN <<-1>>
    ELSE <<Denotes(SubSeq(s, 1, Max(Spellings(s))))>>

\* What a string means; it ends with -1 where an escape is invalid.
Meaning(s) ==
    Loop([t \in Seq(Byte) |-> MeaningRest(t)], [t \in Seq(Byte) |-> MeaningOut(t)], s)

-----------------------------------------------------------------------------
(* Patterns as sequences of atoms: the bytes one or many characters may    *)
(* have, and the anchors.                                                  *)

One(set) == <<"one", set>>
Many(set) == <<"many", set>>
Bol == <<"bol", {}>>
Eol == <<"eol", {}>>
Wrong == <<"wrong", {}>>

\* Members of a bracket expression, ranges included.
Members(s) ==
    UNION {IF k + 2 <= Len(s) /\ s[k + 1] = 45 THEN s[k] .. s[k + 2] ELSE {s[k]} : k \in DOMAIN s}

\* A length and the atom of so many bytes.
Atom(n, atom) == [n |-> n, atom |-> atom]

\* A bracket expression at the start of s: where its members start, and where it
\* may end.  Its first member may be a ].
MembersFrom(s, negs) == IF Len(s) > 1 /\ s[2] \in negs THEN 3 ELSE 2
ClosedAt(s, negs) == {k \in (MembersFrom(s, negs) + 1) .. Len(s) : s[k] = Close}

\* [: [. and [= are not understood.
IsClass(in) == \E k \in 1 .. (Len(in) - 1) : in[k] = Open /\ in[k + 1] \in {Colon, Dot, Equals}

BracketAtom(in, negated) ==
    IF IsClass(in) THEN Wrong ELSE IF negated THEN One(Byte \ Members(in)) ELSE One(Members(in))

BracketAt(s, negs) ==
    IF ClosedAt(s, negs) = {} THEN Atom(Len(s), Wrong)
    ELSE LET from == MembersFrom(s, negs)
             end == Min(ClosedAt(s, negs))
         IN  Atom(end, BracketAtom(SubSeq(s, from, end - 1), from = 3))

\* The table above glob2re() in src/common.c.
GlobAtom(s, first) ==
    CASE s[1] = Star -> Atom(1, Many(Byte))
      [] s[1] = Question -> Atom(1, One(Byte))
      [] s[1] = Open -> BracketAt(s, {Bang, Caret})
      [] s[1] = Caret /\ first -> Atom(1, Bol)
      [] s[1] = Dollar /\ Len(s) = 1 -> Atom(1, Eol)
      [] s[1] = Backslash ->
            IF Len(s) > 1 /\ s[2] \in {Backslash, Star, Question, Open, Close}
            THEN Atom(2, One({s[2]})) ELSE Atom(1, Wrong)
      [] OTHER -> Atom(1, One({s[1]}))

\* An extended regular expression as regcomp() reads it, without groups,
\* alternatives and intervals; first without the * that may follow an atom.
EreOne(s) ==
    CASE s[1] = Open -> BracketAt(s, {Caret})
      [] s[1] = Dot -> Atom(1, One(Byte))
      [] s[1] = Caret -> Atom(1, Bol)
      [] s[1] = Dollar -> Atom(1, Eol)
      [] s[1] = Backslash /\ Len(s) > 1 -> Atom(2, One({s[2]}))
      [] s[1] \in {Star, Question, 40, 41, 43, 123, 124} -> Atom(1, Wrong)
      [] s[1] = Backslash /\ Len(s) = 1 -> Atom(1, Wrong)
      [] OTHER -> Atom(1, One({s[1]}))

EreAtom(s) ==
    LET a == EreOne(s)
    IN  IF a.n < Len(s) /\ s[a.n + 1] = Star /\ a.atom[1] = "one" THEN Atom(a.n + 1, Many(a.atom[2]))
        ELSE a

\* All the atoms of a glob; only the first byte can be an anchor.
GlobRest(s, first) == IF s = <<>> THEN <<>> ELSE SubSeq(s, GlobAtom(s, first).n + 1, Len(s))
GlobOut(s, first) == IF s = <<>> THEN <<>> ELSE <<GlobAtom(s, first).atom>>
GlobAtoms(s, first) ==
    GlobOut(s, first)
    \o Loop([t \in Seq(Byte) |-> GlobRest(t, FALSE)], [t \in Seq(Byte) |-> GlobOut(t, FALSE)],
            GlobRest(s, first))

EreRest(s) == IF s = <<>> THEN <<>> ELSE SubSeq(s, EreAtom(s).n + 1, Len(s))
EreOut(s) == IF s = <<>> THEN <<>> ELSE <<EreAtom(s).atom>>
EreAtoms(s) == Loop([t \in Seq(Byte) |-> EreRest(t)], [t \in Seq(Byte) |-> EreOut(t)], s)

-----------------------------------------------------------------------------
(* Properties *)

\* -cstring with a pattern or data to send, and nothing else.
CStringOpts == [expect |-> {"exact", "re", "bare"}, interact |-> {"re"}, send |-> {"bare", "--"}]
HasEscapes ==
    /\ line.cmd \in DOMAIN CStringOpts /\ Len(line.args) = 2
    /\ line.args[1].o = "cstring"
    /\ line.args[2].o \in CStringOpts[line.cmd] /\ line.args[2].v # NULL

\* -glob with a pattern, and nothing else.
HasGlob ==
    /\ line.cmd = "expect" /\ Len(line.args) = 1
    /\ line.args[1].o = "glob" /\ line.args[1].v # NULL

\* The escapes of -cstring mean what the list above strunesc() says, and only
\* what is not on it is refused.
CStringMeans ==
    phase \in {"usage", "build"} /\ HasEscapes
    => LET text == Meaning(line.args[2].v)
           bad == \/ \E k \in DOMAIN text : text[k] = -1
                  \/ line.cmd # "send" /\ (text = <<>> \/ \E k \in DOMAIN text : text[k] = NUL)
                  \/ line.cmd = "send" /\ Len(text) > MaxSend
       IN  IF phase = "usage" THEN bad
           ELSE ~ bad /\ text = IF line.cmd = "send" THEN st.data ELSE st.pattern

\* The regular expression made of a glob matches what the glob does, and a glob
\* is refused when the table above glob2re() says so.
GlobMeans ==
    phase \in {"usage", "build"} /\ HasGlob
    => LET glob == GlobAtoms(line.args[1].v, TRUE)
           bad == glob = <<>> \/ \E k \in DOMAIN glob : glob[k] = Wrong
       IN  IF phase = "usage" THEN bad ELSE ~ bad /\ EreAtoms(st.pattern) = glob

\* What the shell makes of the word in single quotes that is printed.
ShellWord(s) ==
    IF \E k \in DOMAIN s : s[k] = 39 THEN SubSeq(s, 1, Min({k \in DOMAIN s : s[k] = 39}) - 1) ELSE s

\* The command line `get -expect-buf' prints for a text; of says so.
cli_dump_cstring(t) ==
    [cmd |-> "expect",
     args |-> <<[o |-> "cstring", v |-> NULL],
                [o |-> "exact", v |-> ShellWord(FlattenSeq([k \in DOMAIN t |-> DumpByte(t[k])]))]>>,
     of |-> t]

\* A command line with of is the one printed for it.
ASSUME PrintedAssumption ==
    \A l \in CommandLines : l.of # NULL => l.of \in Seq(Byte) \ {<<>>} /\ l = cli_dump_cstring(l.of)

\* getargs() takes what `get -expect-buf' prints for the text it stands for: no
\* escape runs into the character behind it, and no quote ends the word.
DumpAccepted ==
    line.of # NULL => phase # "usage" /\ (phase = "build" => st.pattern = line.of)

\* The pattern and the flags of what getargs() accepts are such that the server
\* never meets a glob, two kinds of patterns, or a kind without a pattern.
SafeToSend ==
    phase = "build" /\ IsPass(line.cmd) =>
       /\ "GLOB" \notin st.flags
       /\ Cardinality(st.flags \cap {"EXACT", "ERE", "EOF"}) <= 1
       /\ st.flags \cap {"EXACT", "ERE"} # {} => st.pattern # NULL /\ st.pattern # <<>>

\* "At most 10 -subst options can be specified": whatever was typed, getargs()
\* writes to no slot of st_pass.subs that is not there.  It fails: nothing counts.
OptionsFit == phase # "overrun"

=============================================================================
