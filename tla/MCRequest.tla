----------------------------- MODULE MCRequest -----------------------------
(* Command lines for RequestProps. *)
EXTENDS RequestProps

Arg(o, v) == [o |-> o, v |-> v]
Cmd(c, args) == [cmd |-> c, args |-> args, of |-> NULL]

UpTo(n, S) == UNION {[1 .. k -> S] : k \in 0 .. n}

\* A short pattern, one with an escape, a long one.
Ab == <<97, 98>>
Escaped == <<92, 110, 91>>
Long == [k \in 1 .. 60 |-> 97]

ExpectArgs ==
    {Arg(o, NULL) : o \in {"nocase", "anchor", "cstring", "eof", "nonsense", "re"}}
    \cup {Arg("exact", Ab), Arg("re", Ab), Arg("glob", Escaped), Arg("re", Escaped), Arg("re", Long)}
    \cup {Arg("bare", Ab), Arg("bare", <<>>)}
    \cup {Arg("timeout", n) : n \in {-70000, 0, 3, NotInt}}
    \cup {Arg("lookback", n) : n \in {-1, 0, 300}}
InteractArgs ==
    {Arg(o, NULL) : o \in {"nocase", "anchor", "cstring", "nodetach"}}
    \cup {Arg("re", Ab), Arg("re", Escaped), Arg("lookback", 2), Arg("eof", NULL)}
    \cup {Arg("subst", s) : s \in {<<97, 58, 58, 98>>, <<58, 58, 98>>, <<97, 58>>, <<40, 58, 58>>,
                                   <<97, 58, 58, 92, 120>>, <<92, 99, 58, 58, 98>>, NULL}}
WaitArgs == {Arg("lookback", 2), Arg("re", Ab)}
SetArgs ==
    {Arg("timeout", n) : n \in {-3, 70000}} \cup {Arg("ttl", -1), Arg("ttl", 5), Arg("idle", -1), Arg("idle", 6)}
    \cup {Arg("autowait", TRUE), Arg("autowait", FALSE), Arg("nonblock", TRUE), Arg("nonblock", NotInt)}
SendArgs ==
    {Arg(o, NULL) : o \in {"cstring", "cr", "strip", "--", "env"}}
    \cup {Arg("bare", Ab), Arg("bare", <<92, 48>>), Arg("--", Ab), Arg("env", Ab)}
    \cup {Arg("file", <<97, 10, 32>>), Arg("file", <<>>), Arg("file", <<97, 0, 98, 10, 98, 98>>)}
    \cup {Arg("fd", <<97, 98, 32, 98>>), Arg("limit", 3), Arg("limit", 0), Arg("limit", 9)}

Mixes ==
    {Cmd("expect", a) : a \in UpTo(2, ExpectArgs)}
    \cup {Cmd("interact", a) : a \in UpTo(2, InteractArgs)}
    \cup {Cmd("wait", a) : a \in UpTo(2, WaitArgs)}
    \cup {Cmd("set", a) : a \in UpTo(2, SetArgs)}
    \cup {Cmd("send", a) : a \in UpTo(3, SendArgs)}
    \cup {Cmd("kill", a) : a \in UpTo(2, {Arg("signal", 9), Arg("signal", NotInt)})}
    \cup {Cmd("expect_out", a) : a \in UpTo(1, {Arg("index", 7), Arg("index", -7)})}
    \cup {Cmd("get", a) : a \in UpTo(2, {Arg("what", NULL)})}
    \cup {Cmd("close", a) : a \in UpTo(1, {Arg("what", NULL)})}

\* As many -subst as fit, and one more.
SubstLines == {Cmd("interact", [k \in 1 .. n |-> Arg("subst", <<97, 58, 58, 98>>)]) : n \in {MAX_SUBST, MAX_SUBST + 1}}

\* \ 0 3 4 7 a x c n : every kind of escape, complete and broken off
EscapeChars == {92, 48, 52, 55, 97, 120, 99}
EscapeLines ==
    {Cmd("expect", <<Arg("cstring", NULL), Arg("exact", s)>>) : s \in UpTo(4, EscapeChars)}
    \cup {Cmd("send", <<Arg("cstring", NULL), Arg("bare", s)>>) : s \in UpTo(3, EscapeChars)}

\* * [ ] ^ $ ! a, and with ? : . - \ shorter ones
GlobChars == {42, 91, 93, 94, 36, 33, 97}
MoreGlobChars == GlobChars \cup {63, 58, 46, 45, 92}
GlobLines ==
    {Cmd("expect", <<Arg("glob", s)>>) : s \in UpTo(4, GlobChars) \cup UpTo(3, MoreGlobChars)}

\* Bytes that are printed as \ooo, \\, themselves, \n, \xHH, before digits.
DumpLines == {cli_dump_cstring(t) : t \in UpTo(3, {39, 92, 48, 97, 10, 1, 200}) \ {<<>>}}

AllLines == Mixes \cup SubstLines \cup EscapeLines \cup GlobLines \cup DumpLines

\* interact without and with a pattern
InteractLines == {Cmd("interact", a) : a \in UpTo(1, {Arg("re", Ab)})}

Size == <<24, 300>>

=============================================================================
