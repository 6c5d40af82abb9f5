---------------------------- MODULE RequestProps ----------------------------
(***************************************************************************)
(* What a request must be when it arrives: the properties of Request.      *)
(***************************************************************************)
EXTENDS Request, ArgsProps

-----------------------------------------------------------------------------
(* What the command line says *)

\* The arguments that count: nothing after the data of send does.
Read == {k \in DOMAIN line.args :
            line.cmd = "send" => \A j \in 1 .. (k - 1) : line.args[j].o \notin {"bare", "--"}}
Given(o) == \E k \in Read : line.args[k].o = o
ValueOf(os) == line.args[Max({k \in Read : line.args[k].o \in os})].v
Value(o, default) == IF Given(o) THEN ValueOf({o}) ELSE default

PatternOpts == DOMAIN PatternFlag
HasPattern == \E o \in PatternOpts : Given(o)
SaidText == IF Given("cstring") THEN Meaning(ValueOf(PatternOpts)) ELSE ValueOf(PatternOpts)

\* expect without any option that sets a flag
Plain == line.cmd = "expect" /\ ~ HasPattern /\ \A o \in DOMAIN SimpleFlag : ~ Given(o)

SaidFlags ==
    (IF line.cmd = "expect" THEN {} ELSE {"EXIT"})
    \cup {SimpleFlag[o] : o \in {p \in DOMAIN SimpleFlag : Given(p)}}
    \cup (IF Given("exact") \/ Given("bare") THEN {"EXACT"} ELSE {})
    \cup (IF Given("re") \/ Given("glob") \/ Plain THEN {"ERE"} ELSE {})

PassAsSaid ==
    /\ sv.passing
    /\ sv.subcmd = CASE line.cmd = "expect" -> 1 [] line.cmd = "interact" -> 2 [] line.cmd = "wait" -> 3
    /\ FlagSet(sv.flags) = SaidFlags
    /\ sv.timeout = IF line.cmd # "expect" THEN -1 ELSE Clamp(Value("timeout", DefTimeout), -1)
    /\ sv.lookback = Value("lookback", 0)
    /\ ~ Given("glob") => sv.pattern = IF HasPattern THEN SaidText ELSE IF Plain THEN DotStar ELSE NULL
    /\ line.cmd = "interact" => sv.winsize = Winsize

SetAsSaid ==
    /\ sv.autowait = Value("autowait", FALSE)
    /\ sv.nonblock = Value("nonblock", FALSE)
    /\ sv.def_timeout = Clamp(Value("timeout", DefTimeout), -1)
    /\ sv.ttl = Clamp(Value("ttl", 0), 0)
    /\ sv.idle = Clamp(Value("idle", 0), 0)

Sources == {"env", "file", "fd", "bare", "--"}
SaidData ==
    IF \A o \in Sources : ~ Given(o) THEN <<>>
    ELSE LET v == ValueOf(Sources)
             n == Value("limit", Len(v))
             read == IF Given("file") \/ Given("fd") THEN SubSeq(v, 1, Min({n, Len(v)})) ELSE v
         IN  IF v = NULL THEN <<>>
             ELSE IF Given("cstring") THEN Meaning(v)
             ELSE IF Given("strip") THEN Stripped(read)
             ELSE read

-----------------------------------------------------------------------------
(* Properties *)

Arrived == phase = "closed" /\ written = FrameEnd(Len(Sent))


\* The messages the client has written to their end, and whether it was killed
\* behind the header of the next one.
Whole == Cardinality({k \in DOMAIN Sent : FrameEnd(k) <= written})
InValue == Whole < Len(Sent) /\ FrameEnd(Whole) + 4 + TAG_HDR_SIZE <= written

\* A client that is killed while it writes has made its whole requests and no
\* others: msg_recv() takes every message that was written to its end, none
\* whose end is missing, and what is left of one changes neither the settings
\* nor conn.pass nor what is typed into the pty.  The one exception is a value
\* cut short by ECONNRESET (WholeMessages), and only it can crash the server.
WholeOrNothing ==
    /\ sv.got = 0 => sv = ServInit
    /\ phase \in {"closed", "crashed"} =>
          sv.got = Whole + (IF reset /\ InValue THEN 1 ELSE 0)
    /\ phase = "crashed" => reset /\ InValue

\* msg_recv(): "RETURN: NULL: error, ptr: The whole received message."  No
\* message is processed that was not received to its end.
WholeMessages == phase \in {"sent", "closed", "crashed"} => sv.got <= Whole

=============================================================================
