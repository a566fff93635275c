----------------------------- MODULE AtomicLock -----------------------------
(***************************************************************************)
(* What the commands of src/cgen/main.cpp promise about cgen.resolved: a   *)
(* command replaces the file in one step or leaves it, and takes a package *)
(* to another commit only where it has a reason to.  The file is lost as a *)
(* whole if it is at all, when the disk is full or the process is killed.  *)
(***************************************************************************)
CONSTANTS Configs, CommandLines, CommitsOf

VARIABLES
  config,   \* the external packages of cgen.yml
  lock,     \* the rows of cgen.resolved
  command,  \* the running or else the last command
  phase,    \* "idle", "running", "written", or "lost" when a file was
  outcome   \* how the last command ended

vars == <<config, lock, command, phase, outcome>>

Configured       == {config[i] : i \in DOMAIN config}
RowsOf(rows, p)  == {row \in rows : row.path = p.path}
Matches(row, p)  == row.original = p.original /\ row.strategy = p.strategy
Resolved(p)      == {[p EXCEPT !.version = c] : c \in CommitsOf[p.url]}

Init ==
  /\ config \in Configs /\ lock = {}
  /\ command = [name |-> "generate", paths |-> <<>>] /\ phase = "idle" /\ outcome = "none"

\* The user changes the project between two commands.
Edit ==
  /\ phase = "idle" /\ config' \in Configs /\ outcome' = "none"
  /\ UNCHANGED <<lock, command, phase>>

Begin(c) ==
  /\ phase = "idle" /\ phase' = "running" /\ command' = c
  /\ UNCHANGED <<config, lock, outcome>>

\* "cgen -g" resolves a package without a row, or with one that is for another
\* version or strategy, "cgen -u" those it names, or all.
Reason(p) ==
  IF command.name = "generate"
  THEN RowsOf(lock, p) = {} \/ \E row \in RowsOf(lock, p) : ~Matches(row, p)
  ELSE command.paths = <<>> \/ \E i \in DOMAIN command.paths : command.paths[i] = p.path

\* Rows are old or resolved from the configuration, and no package that is
\* configured loses its row.
MayBecome(rows) ==
  /\ \A row \in rows : \E p \in Configured :
       row.path = p.path /\ (row \in lock \/ (Reason(p) /\ row \in Resolved(p)))
  /\ \A p \in Configured : RowsOf(lock, p) # {} => RowsOf(rows, p) # {}

Write ==
  /\ phase = "running" /\ phase' = "written" /\ MayBecome(lock')
  /\ UNCHANGED <<config, command, outcome>>

\* With no row to write the file is left as it is.
Leave ==
  /\ phase = "running" /\ phase' = "written" /\ MayBecome({})
  /\ UNCHANGED <<config, lock, command, outcome>>

Lose ==
  /\ phase \in {"running", "written"} /\ phase' = "lost"
  /\ lock' = IF phase = "running" THEN {} ELSE lock
  /\ UNCHANGED <<config, command, outcome>>

\* What is true of a command that reports success.
Complete ==
  \A p \in Configured :
    IF command.name = "generate"
    THEN RowsOf(lock, p) # {} /\ \A row \in RowsOf(lock, p) : Matches(row, p)
    ELSE Reason(p) => RowsOf(lock, p) # {} /\ RowsOf(lock, p) \subseteq Resolved(p)

End(how) == phase' = "idle" /\ outcome' = how /\ UNCHANGED <<config, command>>

Succeed ==
  /\ phase = "written" /\ Complete /\ UNCHANGED lock
  /\ End(IF command.name = "generate" THEN "generated" ELSE "updated")

Fail == phase \in {"running", "written"} /\ End("failed") /\ UNCHANGED lock

EndLost == phase = "lost" /\ End("lost") /\ UNCHANGED lock

Die ==
  /\ phase # "idle" /\ End("killed")
  /\ lock' = lock \/ (phase = "running" /\ lock' = {})

Next ==
  \/ Edit \/ \E c \in CommandLines : Begin(c)
  \/ Write \/ Leave \/ Lose \/ Succeed \/ Fail \/ EndLost \/ Die

Spec == Init /\ [][Next]_vars
=============================================================================
