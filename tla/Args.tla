-------------------------------- MODULE Args --------------------------------
(***************************************************************************)
(* The command line of the sub-commands that talk to the server: getargs() *)
(* (src/main.c), one step for each option with its argument, then the      *)
(* checks and conversions.  An argument is a record: o names the option,   *)
(* whatever spelling was used ("bare" is an argument without a dash), v is *)
(* its argument.  The command line is the user's, so it is any sequence of *)
(* options.                                                                *)
(***************************************************************************)
EXTENDS Glob, FiniteSets

CONSTANTS
    NULL,           \* no argument, no pattern, no data
    NotInt,         \* an argument that is not a number in the range of int
    MaxSend,        \* PASS_MAX_SEND
    CommandLines    \* what the user may type: [cmd, args, of]; of is used in RequestProps

VARIABLES
    line,       \* what the user typed
    i,          \* the next argument
    st,         \* g.cmdopts
    phase

argVars == <<line, i, st, phase, src, dst, room>>

-----------------------------------------------------------------------------
(* The options *)

PatternFlag == [exact |-> "EXACT", bare |-> "EXACT", re |-> "ERE", glob |-> "GLOB"]
SimpleFlag == [nocase |-> "ICASE", anchor |-> "NEWLINE", eof |-> "EOF"]
Kinds == {"EOF", "EXACT", "ERE", "GLOB"}

\* Options without an argument.
FlagOpts == [expect |-> {"nocase", "anchor", "cstring", "eof"},
             interact |-> {"nocase", "anchor", "cstring", "nodetach"},
             wait |-> {}, send |-> {"cstring", "cr", "strip"}, set |-> {},
             kill |-> {}, expect_out |-> {}, get |-> {"what"}, close |-> {}]

\* Options with a string.
TextOpts == [expect |-> {"exact", "re", "glob", "bare"}, interact |-> {"re", "subst"},
             wait |-> {}, send |-> {"env", "file", "fd", "bare", "--"}, set |-> {},
             kill |-> {}, expect_out |-> {}, get |-> {}, close |-> {}]

\* Options with on or off.
BoolOpts == [cmd \in DOMAIN FlagOpts |-> IF cmd = "set" THEN {"autowait", "nonblock"} ELSE {}]

\* Options with a number, and those among them where it cannot be negative.
IntOpts == [expect |-> {"timeout", "lookback"}, interact |-> {"lookback"},
            wait |-> {"lookback"}, send |-> {"limit"}, set |-> {"timeout", "ttl", "idle"},
            kill |-> {"signal"}, expect_out |-> {"index"}, get |-> {}, close |-> {}]
UintOpts == {"lookback", "limit", "signal", "index"}

MAX_SUBST == 10

\* The sub-commands are these, and strings of argv[] have no NUL.
ASSUME ArgumentsAssumption ==
    /\ NULL \notin Seq(Int)
    /\ \A l \in CommandLines :
          /\ l.cmd \in DOMAIN FlagOpts
          /\ Len(l.args) \in Nat /\ DOMAIN l.args = 1 .. Len(l.args)
          /\ \A k \in DOMAIN l.args :
                l.args[k].o \in {"exact", "re", "glob", "bare", "--"} => l.args[k].v \in {NULL} \cup Seq(Byte)

Clamp(n, low) == IF n < low THEN low ELSE n

-----------------------------------------------------------------------------
(* struct st_cmdopts when the sub-command was seen *)

Pass(subcmd, has_timeout, flags) ==
    [subcmd |-> subcmd, has_timeout |-> has_timeout, timeout |-> -1, flags |-> flags,
     pattern |-> NULL, cstring |-> FALSE, lookback |-> 0, subs |-> <<>>]

SubCommand(cmd) ==
    CASE cmd = "expect" -> Pass(1, FALSE, {})
      [] cmd = "interact" -> Pass(2, TRUE, {"EXIT"})
      [] cmd = "wait" -> Pass(3, TRUE, {"EXIT"})
      [] cmd = "send" -> [cstring |-> FALSE, enter |-> FALSE, strip |-> FALSE, sources |-> 0,
                          from |-> "none", data |-> NULL, limit |-> 0]
      [] cmd = "set" -> [autowait |-> NULL, nonblock |-> NULL, timeout |-> NULL,
                         ttl |-> NULL, idle |-> NULL]
      [] cmd = "kill" -> [signal |-> -1]
      [] cmd = "expect_out" -> [index |-> 0]
      [] cmd \in {"get", "close"} -> [options |-> 0]

IsPass(cmd) == cmd \in {"expect", "interact", "wait"}

ArgsInit ==
    /\ line \in CommandLines
    /\ i = 1
    /\ st = SubCommand(line.cmd)
    /\ phase = "args"
    /\ src = <<>> /\ dst = <<>> /\ room = 1

-----------------------------------------------------------------------------
(* One option *)

pass_arg(a) ==
    IF a.o \in DOMAIN PatternFlag
    THEN [st EXCEPT !.pattern = a.v, !.flags = @ \cup {PatternFlag[a.o]}]
    ELSE IF a.o \in DOMAIN SimpleFlag THEN [st EXCEPT !.flags = @ \cup {SimpleFlag[a.o]}]
    ELSE IF a.o = "cstring" THEN [st EXCEPT !.cstring = TRUE]
    ELSE IF a.o = "timeout" THEN [st EXCEPT !.has_timeout = TRUE, !.timeout = Clamp(a.v, -1)]
    ELSE IF a.o = "lookback" THEN [st EXCEPT !.lookback = a.v]
    ELSE IF a.o = "subst" THEN [st EXCEPT !.subs = Append(@, a.v)]
    ELSE st

send_arg(a) ==
    CASE a.o = "cstring" -> [st EXCEPT !.cstring = TRUE]
      [] a.o = "cr" -> [st EXCEPT !.enter = TRUE]
      [] a.o = "strip" -> [st EXCEPT !.strip = TRUE]
      [] a.o = "limit" -> [st EXCEPT !.limit = a.v]
      [] a.o \in {"env", "file", "fd"} ->
            [st EXCEPT !.sources = @ + 1, !.from = a.o, !.data = a.v]
      [] a.o \in {"bare", "--"} ->
            [st EXCEPT !.sources = @ + 1, !.from = "arg", !.data = a.v]

set_arg(a) ==
    CASE a.o = "timeout" -> [st EXCEPT !.timeout = Clamp(a.v, -1)]
      [] a.o = "ttl" -> [st EXCEPT !.ttl = Clamp(a.v, 0)]
      [] a.o = "idle" -> [st EXCEPT !.idle = Clamp(a.v, 0)]
      [] a.o = "autowait" -> [st EXCEPT !.autowait = a.v]
      [] a.o = "nonblock" -> [st EXCEPT !.nonblock = a.v]

Takes(a) ==
    CASE IsPass(line.cmd) -> pass_arg(a)
      [] line.cmd = "send" -> send_arg(a)
      [] line.cmd = "set" -> set_arg(a)
      [] line.cmd = "kill" -> [st EXCEPT !.signal = a.v]
      [] line.cmd = "expect_out" -> [st EXCEPT !.index = a.v]
      [] line.cmd = "get" -> [st EXCEPT !.options = @ + 1]

\* An argument with which getargs() gives up.
UsageError(a) ==
    LET cmd == line.cmd
        texts == TextOpts[cmd]
        ints == IntOpts[cmd]
    IN  \/ a.o \notin FlagOpts[cmd] \cup texts \cup ints \cup BoolOpts[cmd]
        \/ a.v = NULL /\ a.o \in (texts \ {"--"}) \cup ints \cup BoolOpts[cmd]
        \/ a.v = NotInt /\ a.o \in ints \cup BoolOpts[cmd]
        \/ a.o \in ints \cap UintOpts /\ a.v < 0
        \/ cmd = "expect" /\ a.o = "bare" /\ (a.v = <<>> \/ "EXACT" \in st.flags)
        \/ cmd = "send" /\ a.o = "limit" /\ a.v \notin 1 .. MaxSend
        \/ cmd = "send" /\ a.o = "--" /\ i < Len(line.args)
        \/ cmd = "get" /\ st.options > 0

\* st->subs[st->nsubs++] is not checked: one -subst too many is written behind
\* the array.  What follows is undefined, and the model ends there.
Overruns(a) == line.cmd = "interact" /\ a.o = "subst" /\ Len(st.subs) >= MAX_SUBST

\* The data to send ends the command line, whatever follows.
EndsOptions(a) == line.cmd = "send" /\ a.o \in {"bare", "--"}

GetArg ==
    /\ phase = "args" /\ i <= Len(line.args)
    /\ LET a == line.args[i]
       IN  IF UsageError(a) THEN phase' = "usage" /\ UNCHANGED <<i, st>>
           ELSE IF Overruns(a) THEN phase' = "overrun" /\ UNCHANGED <<i, st>>
           ELSE /\ st' = Takes(a)
                /\ i' = IF EndsOptions(a) THEN Len(line.args) + 1 ELSE i + 1
                /\ UNCHANGED phase
    /\ UNCHANGED <<line, src, dst, room>>

-----------------------------------------------------------------------------
(* The checks *)

Exclusive == Cardinality(st.flags \cap Kinds) <= 1

PassRefused ==
    /\ line.cmd = "expect"
    /\ ~ Exclusive \/ ("NEWLINE" \in st.flags /\ "ERE" \notin st.flags)

\* What read() gives: -limit bytes, or the whole of a regular file.
ReadLimit == IF st.limit > 0 THEN st.limit ELSE Len(st.data)

\* isspace()
Space == {9, 10, 11, 12, 13, 32}

\* str_rstrip() and strlen(): what comes before a NUL, without the white space
\* at its end.
Stripped(s) ==
    LET text == {k \in 1 .. Len(s) : \A j \in 1 .. k : s[j] # NUL}
        last == {k \in text : s[k] \notin Space}
    IN  IF last = {} THEN <<>> ELSE SubSeq(s, 1, CHOOSE k \in last : \A j \in last : j <= k)

SendRefused ==
    \/ st.sources > 1
    \/ st.cstring /\ ~ (st.from = "arg" /\ st.data # NULL)
    \/ st.strip /\ st.from \notin {"file", "fd"}
    \/ st.from = "file" /\ st.limit = 0 /\ Len(st.data) \notin 1 .. MaxSend
    \/ st.from = "fd" /\ st.limit = 0

SendData ==
    IF st.data = NULL THEN <<>>
    ELSE IF st.from \notin {"file", "fd"} THEN st.data
    ELSE LET got == SubSeq(st.data, 1, IF ReadLimit < Len(st.data) THEN ReadLimit ELSE Len(st.data))
         IN  IF st.strip THEN Stripped(got) ELSE got

Refused == IF line.cmd = "send" THEN SendRefused ELSE IsPass(line.cmd) /\ PassRefused

\* The string that -cstring is about.
HasText == (IsPass(line.cmd) /\ st.pattern # NULL) \/ line.cmd = "send"
Text == IF line.cmd = "send" THEN st.data ELSE st.pattern

\* The end of the command line: what is checked before anything is converted.
CheckArgs ==
    /\ phase = "args" /\ i > Len(line.args)
    /\ \/ /\ Refused
          /\ phase' = "usage"
          /\ UNCHANGED <<st, src, dst, room>>
       \/ /\ ~ Refused /\ HasText
          /\ IF st.cstring
             THEN phase' = "unesc" /\ UnescStart(Text) /\ UNCHANGED st
             ELSE /\ phase' = "text"
                  /\ st' = IF line.cmd = "send" THEN [st EXCEPT !.data = SendData] ELSE st
                  /\ UNCHANGED <<src, dst, room>>
       \/ /\ ~ Refused /\ ~ HasText
          /\ phase' = "build"
          /\ UNCHANGED <<st, src, dst, room>>
    /\ UNCHANGED <<line, i>>

-----------------------------------------------------------------------------
(* The conversions *)

Unesc ==
    /\ phase = "unesc"
    /\ UnescStep
    /\ UNCHANGED <<line, i, st, phase>>

\* A pattern cannot have a NUL, data can.
Unescaped ==
    /\ phase = "unesc" /\ (UnescFails \/ src = <<>>)
    /\ IF UnescFails \/ (IsPass(line.cmd) /\ \E k \in DOMAIN dst : dst[k] = NUL)
       THEN phase' = "usage" /\ UNCHANGED st
       ELSE /\ phase' = "text"
            /\ st' = IF line.cmd = "send" THEN [st EXCEPT !.data = dst]
                     ELSE [st EXCEPT !.pattern = dst]
    /\ UNCHANGED <<line, i, src, dst, room>>

TooShortOrLong ==
    IF line.cmd = "send" THEN Len(st.data) > MaxSend ELSE st.pattern = <<>>

CheckText ==
    /\ phase = "text"
    /\ \/ /\ TooShortOrLong
          /\ phase' = "usage"
          /\ UNCHANGED <<src, dst, room>>
       \/ /\ ~ TooShortOrLong /\ IsPass(line.cmd) /\ "GLOB" \in st.flags
          /\ phase' = "glob"
          /\ GlobStart(st.pattern)
       \/ /\ ~ TooShortOrLong /\ ~ (IsPass(line.cmd) /\ "GLOB" \in st.flags)
          /\ phase' = "build"
          /\ UNCHANGED <<src, dst, room>>
    /\ UNCHANGED <<line, i, st>>

GlobLoop ==
    /\ phase = "glob"
    /\ GlobStep
    /\ UNCHANGED <<line, i, st, phase>>

\* Fault: the flag that tells what the pattern was is kept.
IsEre_KeepsGlob(flags) == flags \cup {"ERE"}

IsEre(flags) == (flags \ {"GLOB"}) \cup {"ERE"}

GlobDone ==
    /\ phase = "glob" /\ (GlobFails \/ src = <<>>)
    /\ IF GlobFails THEN phase' = "usage" /\ UNCHANGED st
       ELSE /\ phase' = "build"
            /\ st' = [st EXCEPT !.pattern = dst, !.flags = IsEre(@)]
    /\ UNCHANGED <<line, i, src, dst, room>>

getargs == GetArg \/ CheckArgs \/ Unesc \/ Unescaped \/ CheckText \/ GlobLoop \/ GlobDone

ArgsSpec == ArgsInit /\ [][getargs]_argVars

=============================================================================
