-------------------------------- MODULE Pty --------------------------------
(***************************************************************************)
(* The spawned process and its pty, as far as the server can tell.  This   *)
(* is the kernel's and the child's side of src/pty.c's pty_fork(): what    *)
(* read(ptm), SIGCHLD and waitpid() show the server.                       *)
(***************************************************************************)
EXTENDS Naturals

CONSTANTS
    MaxOut,     \* bound: bytes written to the pts
    PtyCap,     \* bytes the pty holds before writers block
    Grand,      \* TRUE: a child of the child has the pts open too
    MayStop     \* TRUE: the child may be stopped and continued (kill -STOP)

ASSUME PtyAssumption ==
    /\ MaxOut \in Nat /\ PtyCap \in Nat \ {0}
    /\ Grand \in BOOLEAN /\ MayStop \in BOOLEAN

VARIABLES
    child,      \* "running", "stopped", "zombie" or "reaped"
    pts,        \* who has the slave side open
    produced,   \* bytes written to the pts so far
    pend,       \* bytes written and not read from the ptm yet
    sigpend     \* a SIGCHLD is on its way to the server

ptyVars == <<child, pts, produced, pend, sigpend>>

PtyTypeOK ==
    /\ child \in {"running", "stopped", "zombie", "reaped"}
    /\ pts \subseteq {"child", "grand"}
    /\ produced \in 0 .. MaxOut /\ pend \in 0 .. PtyCap
    /\ sigpend \in BOOLEAN

PtyInit ==
    /\ child = "running"
    /\ pts = IF Grand THEN {"child", "grand"} ELSE {"child"}
    /\ produced = 0 /\ pend = 0 /\ sigpend = FALSE

ChildWrite ==
    /\ (child = "running" /\ "child" \in pts) \/ "grand" \in pts
    /\ produced < MaxOut /\ pend < PtyCap
    /\ produced' = produced + 1 /\ pend' = pend + 1
    /\ UNCHANGED <<child, pts, sigpend>>

\* The grandchild goes away, or the child closes its terminal and lives on.
ClosePts(h) ==
    /\ h \in pts /\ (h = "child" => child = "running")
    /\ pts' = pts \ {h}
    /\ UNCHANGED <<child, produced, pend, sigpend>>

\* `caught': the server's handler is installed; SIGCHLD is ignored otherwise.
ChildExit(caught) ==
    /\ child \in {"running", "stopped"}
    /\ child' = "zombie"
    /\ pts' = pts \ {"child"}
    /\ sigpend' = caught
    /\ UNCHANGED <<produced, pend>>

\* sig_handle() does not set SA_NOCLDSTOP: these raise SIGCHLD, too.
ChildStopOrCont(caught) ==
    /\ MayStop
    /\ \/ child = "running" /\ child' = "stopped"
       \/ child = "stopped" /\ child' = "running"
    /\ sigpend' = (caught \/ sigpend)
    /\ UNCHANGED <<pts, produced, pend>>

\* read(ptm) returns data, or an error once nobody can write any more.
Readable == pend > 0 \/ pts = {}

=============================================================================
