------------------------------- MODULE Shell --------------------------------
(***************************************************************************)
(* How the shell runs a command (user/sh.c: main, runcmd, fork1): the      *)
(* processes it forks, their file descriptors, the pipes between them, and *)
(* who waits for whom.                                                     *)
(*                                                                         *)
(* Process 1 is the shell; a fork appends one.  An open file is <<kind>>,  *)
(* <<kind, what>>: the console, a file by its name in the line, or an end  *)
(* of the pipe that was made for a PIPE command.  A step of a process runs *)
(* up to its next fork, wait or exec.  The calls of the kernel may fail,   *)
(* MaxFaults times in a behaviour.                                         *)
(***************************************************************************)
EXTENDS Integers, Sequences

CONSTANTS Scripts,    \* what is typed: sequences of lines, each as the command
                      \* parsecmd makes of it (module ShParse), or NoCmd
          NOFILE,
          MaxFaults   \* the bound on calls that fail

VARIABLES procs,      \* the processes, in the order of their creation: what one does
                      \* (st, cmd), for which line (job), parent, open files
          script,     \* the lines still to come
          faults,     \* the calls that may still fail
          orphans     \* TRUE once a process has panicked that had a child

shvars == <<procs, script, faults, orphans>>

\* A blank line, and cd, which the shell does itself: they fork nothing.
NoCmd == [type |-> "NONE"]

Bad == [type |-> "BAD"]     \* a line that does not parse
First(S) == CHOOSE x \in S : \A y \in S : x <= y

FD == 0..NOFILE-1
Console == <<"console">>
Closed == <<"closed">>
NoOpen == [fd \in FD |-> Closed]

\* The three descriptors main makes sure of.
StdFds == [fd \in FD |-> IF fd < 3 THEN Console ELSE Closed]

Init == /\ procs = <<[st |-> "main", cmd |-> Bad, job |-> Bad, parent |-> 0, ofile |-> StdFds]>>
        /\ script \in Scripts
        /\ faults = MaxFaults
        /\ orphans = FALSE

-----------------------------------------------------------------------------
(* The calls of the kernel.                                                *)

close(ofile, fd) == [ofile EXCEPT ![fd] = Closed]
\* open, dup and pipe take the lowest free descriptor.
fdalloc(ofile, f) == [ofile EXCEPT ![First({fd \in FD : ofile[fd] = Closed})] = f]
FdOf(ofile, f) == First({fd \in FD : ofile[fd] = f})

ReadEnd(cmd) == <<"r", cmd>>
WriteEnd(cmd) == <<"w", cmd>>
HasPipe(ofile, cmd) == fdalloc(fdalloc(ofile, ReadEnd(cmd)), WriteEnd(cmd))

Children(p) == {c \in 1..Len(procs) : procs[c].parent = p /\ procs[c].st # "gone"}

\* exit: the children go to init, which waits for them.
Exited(p) ==
  [c \in 1..Len(procs) |->
     IF c = p
       THEN [procs[p] EXCEPT !.st = IF procs[p].parent = 0 THEN "gone" ELSE "zombie", !.ofile = NoOpen]
     ELSE IF c \in Children(p)
       THEN [procs[c] EXCEPT !.parent = 0, !.st = IF @ = "zombie" THEN "gone" ELSE @]
     ELSE procs[c]]
exit(p) == procs' = Exited(p) /\ UNCHANGED <<script, faults, orphans>>
panic(p) == /\ procs' = Exited(p)
            /\ orphans' = (orphans \/ Children(p) # {})
            /\ UNCHANGED script
\* A call fails, and p panics or exits.
fails(p) == faults > 0 /\ faults' = faults - 1 /\ panic(p)

\* p goes on as q; the child starts with the same open files.
forked(p, q, st, cmd) ==
  /\ procs' = Append([procs EXCEPT ![p] = q], [q EXCEPT !.st = st, !.cmd = cmd, !.parent = p])
  /\ UNCHANGED <<faults, orphans>>
fork1(p, q, st, cmd) == (forked(p, q, st, cmd) /\ UNCHANGED script) \/ fails(p)

becomes(p, q) == procs' = [procs EXCEPT ![p] = q] /\ UNCHANGED <<script, faults, orphans>>
Now(p, st) == [procs[p] EXCEPT !.st = st]

\* wait(0) returns when a child has exited (each caller has one).
wait(p, q) ==
  /\ \E c \in Children(p) :
       procs[c].st = "zombie" /\ procs' = [procs EXCEPT ![c].st = "gone", ![p] = q]
  /\ UNCHANGED <<script, faults, orphans>>

-----------------------------------------------------------------------------
(* The shell.                                                              *)

At1(p, st) == p \in 1..Len(procs) /\ procs[p].st = st
Runs(p, type) == At1(p, "run") /\ procs[p].cmd.type = type

\* The loop of main.  The child parses the line; in case of an error it panics.
main(p) ==
  /\ At1(p, "main") /\ script # <<>>
  /\ \/ /\ Head(script) = NoCmd
        /\ script' = Tail(script) /\ UNCHANGED <<procs, faults, orphans>>
     \/ /\ Head(script) # NoCmd
        /\ script' = Tail(script)
        /\ forked(p, [procs[p] EXCEPT !.st = "mainwait", !.job = Head(script)], "run", Head(script))
     \/ Head(script) # NoCmd /\ fails(p)
main_eof(p) == At1(p, "main") /\ script = <<>> /\ exit(p)
main_wait(p) == At1(p, "mainwait") /\ wait(p, Now(p, "main"))

\* panic() in the parser.
run_bad(p) == Runs(p, "BAD") /\ panic(p) /\ UNCHANGED faults

\* A program that runs is a filter, which reads its input to the end, or a
\* source, which writes more than a pipe holds.
run_exec(p) ==
  /\ Runs(p, "EXEC")
  /\ \/ procs[p].cmd.argv = <<>> /\ exit(p)
     \/ procs[p].cmd.argv # <<>> /\ fails(p)
     \/ procs[p].cmd.argv # <<>> /\ \E st \in {"filter", "source"} : becomes(p, Now(p, st))

RedirFd(cmd) == IF cmd.tok = "<" THEN 0 ELSE 1
Redirect(ofile, cmd) == fdalloc(close(ofile, RedirFd(cmd)), <<"file", cmd.file>>)
run_redir(p) ==
  /\ Runs(p, "REDIR")
  /\ \/ becomes(p, [procs[p] EXCEPT !.cmd = @.cmd, !.ofile = Redirect(@, procs[p].cmd)])
     \/ fails(p)

run_list(p) ==
  Runs(p, "LIST") /\ fork1(p, Now(p, "list"), "run", procs[p].cmd.left)
RightOf(p) == [procs[p] EXCEPT !.st = "run", !.cmd = @.right]
list_wait(p) == At1(p, "list") /\ wait(p, RightOf(p))

\* pipe() or the fork may fail.
run_pipe(p) ==
  /\ Runs(p, "PIPE")
  /\ fork1(p, [procs[p] EXCEPT !.st = "pipe", !.ofile = HasPipe(@, procs[p].cmd)],
           "left", procs[p].cmd)
run_right(p) == At1(p, "pipe") /\ fork1(p, Now(p, "close"), "right", procs[p].cmd)

Unpiped(ofile, cmd) == close(close(ofile, FdOf(ofile, ReadEnd(cmd))), FdOf(ofile, WriteEnd(cmd)))
\* close(fd); dup(end); close(p[0]); close(p[1]): end's own copy is above fd.
Plug(ofile, fd, f) == [fdalloc(close(ofile, fd), f) EXCEPT ![FdOf(ofile, f)] = Closed]
PlugLeft(ofile, cmd) == close(Plug(ofile, 1, WriteEnd(cmd)), FdOf(ofile, ReadEnd(cmd)))
PlugRight(ofile, cmd) == close(Plug(ofile, 0, ReadEnd(cmd)), FdOf(ofile, WriteEnd(cmd)))

left_child(p) ==
  /\ At1(p, "left")
  /\ becomes(p, [procs[p] EXCEPT !.st = "run", !.cmd = @.left, !.ofile = PlugLeft(@, procs[p].cmd)])
right_child(p) ==
  /\ At1(p, "right")
  /\ becomes(p, [procs[p] EXCEPT !.st = "run", !.cmd = @.right, !.ofile = PlugRight(@, procs[p].cmd)])

\* Mutant of pipe_close: the read end stays open in the process that waits.
PipeCloseWrite(p) ==
  /\ At1(p, "close")
  /\ becomes(p, [Now(p, "wait2") EXCEPT !.ofile = close(@, FdOf(@, WriteEnd(procs[p].cmd)))])
pipe_close(p) ==
  At1(p, "close") /\ becomes(p, [Now(p, "wait2") EXCEPT !.ofile = Unpiped(@, procs[p].cmd)])
pipe_wait(p) ==
  \/ At1(p, "wait2") /\ wait(p, Now(p, "wait1"))
  \/ At1(p, "wait1") /\ wait(p, Now(p, "exit"))
pipe_exit(p) == At1(p, "exit") /\ exit(p)

run_back(p) ==
  /\ Runs(p, "BACK")
  /\ fork1(p, Now(p, "exit"), "run", procs[p].cmd.cmd)

-----------------------------------------------------------------------------
(* The programs and the pipes of the kernel, as the shell relies on them.  *)

Holds(p, f) == \E fd \in FD : procs[p].ofile[fd] = f
Held(f) == \E p \in 1..Len(procs) : Holds(p, f)
IsPipe(f, end) == f[1] = end

\* A filter ends when nobody can write to its input any more; a source when its
\* output is taken, or can be read by nobody any more.
InputEnds(p) == IsPipe(procs[p].ofile[0], "r") => ~Held(WriteEnd(procs[p].ofile[0][2]))
OutputEnds(p) ==
  IsPipe(procs[p].ofile[1], "w") =>
    \/ ~Held(ReadEnd(procs[p].ofile[1][2]))
    \/ \E c \in 1..Len(procs) :
         procs[c].st = "filter" /\ procs[c].ofile[0] = ReadEnd(procs[p].ofile[1][2])
program(p) == /\ (At1(p, "filter") /\ InputEnds(p)) \/ (At1(p, "source") /\ OutputEnds(p))
              /\ exit(p)

Step(p) == \/ main(p) \/ main_eof(p) \/ main_wait(p)
           \/ run_bad(p) \/ run_exec(p) \/ run_redir(p)
           \/ run_list(p) \/ list_wait(p) \/ run_back(p)
           \/ run_pipe(p) \/ run_right(p) \/ left_child(p) \/ right_child(p)
           \/ pipe_close(p) \/ pipe_wait(p) \/ pipe_exit(p)
           \/ program(p)
Done == (\A p \in 1..Len(procs) : procs[p].st = "gone") /\ UNCHANGED shvars
Next == Done \/ \E p \in 1..Len(procs) : Step(p)
Spec == Init /\ [][Next]_shvars

-----------------------------------------------------------------------------
(* What a command means: the programs of it, and the files they have.      *)

RECURSIVE Wiring(_, _, _)
Wiring(cmd, in, out) ==
  CASE cmd.type = "EXEC" -> {[argv |-> cmd.argv, in |-> in, out |-> out]}
    [] cmd.type = "REDIR" -> IF cmd.tok = "<" THEN Wiring(cmd.cmd, <<"file", cmd.file>>, out)
                                              ELSE Wiring(cmd.cmd, in, <<"file", cmd.file>>)
    [] cmd.type = "PIPE" -> Wiring(cmd.left, in, WriteEnd(cmd)) \cup Wiring(cmd.right, ReadEnd(cmd), out)
    [] cmd.type = "LIST" -> Wiring(cmd.left, in, out) \cup Wiring(cmd.right, in, out)
    [] cmd.type = "BACK" -> Wiring(cmd.cmd, in, out)
    [] OTHER -> {}
RECURSIVE Foreground(_)
Foreground(cmd) ==
  CASE cmd.type = "EXEC" -> {cmd.argv}
    [] cmd.type = "REDIR" -> Foreground(cmd.cmd)
    [] cmd.type \in {"PIPE", "LIST"} -> Foreground(cmd.left) \cup Foreground(cmd.right)
    [] OTHER -> {}
RECURSIVE Lists(_)
Lists(cmd) ==
  CASE cmd.type \in {"REDIR", "BACK"} -> Lists(cmd.cmd)
    [] cmd.type = "PIPE" -> Lists(cmd.left) \cup Lists(cmd.right)
    [] cmd.type = "LIST" -> {cmd} \cup Lists(cmd.left) \cup Lists(cmd.right)
    [] OTHER -> {}
Argvs(cmd) == {x.argv : x \in Wiring(cmd, Console, Console)}

Programs == {p \in 1..Len(procs) : procs[p].st \in {"filter", "source"}}

TypeOK ==
  /\ \A p \in 1..Len(procs) :
       /\ procs[p].st \in {"main", "mainwait", "run", "list", "pipe", "left", "right", "close",
                           "wait1", "wait2", "exit", "filter", "source", "zombie", "gone"}
       /\ procs[p].parent \in 0..p-1
       /\ DOMAIN procs[p].ofile = FD
       /\ \A fd \in FD : procs[p].ofile[fd][1] \in {"console", "closed", "file", "r", "w"}
  /\ faults \in 0..MaxFaults

\* A program starts with the input and the output its place in the line gives
\* it, standard error on the console and no other descriptor: no end of a pipe
\* leaks into it (REDIR and PIPE of runcmd, user/sh.c).
Plumbed ==
  \A p \in Programs :
    /\ \A fd \in FD \ 0..2 : procs[p].ofile[fd] = Closed
    /\ procs[p].ofile[2] = Console
    /\ [argv |-> procs[p].cmd.argv, in |-> procs[p].ofile[0], out |-> procs[p].ofile[1]]
         \in Wiring(procs[p].job, Console, Console)

\* In "l ; r" no program of r runs while one of l does that is not in the
\* background, unless a process that had children has panicked (LIST and PIPE
\* of runcmd, user/sh.c).
ListInOrder ==
  orphans \/ \A p, q \in Programs : \A n \in Lists(procs[p].job) :
    ~ /\ procs[q].job = procs[p].job
      /\ procs[p].cmd.argv \in Argvs(n.right)
      /\ procs[q].cmd.argv \in Foreground(n.left)

\* The shell asks for the next line, or ends, only when all programs of a line
\* that are not in the background have, unless a process that had children has
\* panicked: the wait of main is not taken by a child it is not meant for
\* (main and BACK of runcmd, user/sh.c).
PromptAfterCommand ==
  orphans \/ procs[1].st = "mainwait" \/ \A p \in Programs : procs[p].cmd.argv \notin Foreground(procs[p].job)

Blocked(p) ==
  \/ procs[p].st \in {"zombie", "gone"}
  \/ /\ procs[p].st \in {"mainwait", "list", "wait1", "wait2"}
     /\ \A c \in Children(p) : procs[c].st # "zombie"
  \/ procs[p].st = "filter" /\ ~InputEnds(p)
  \/ procs[p].st = "source" /\ ~OutputEnds(p)

\* While the shell waits some process can go on: none keeps open an end of a
\* pipe that another one waits to be closed (PIPE of runcmd, user/sh.c).  Every
\* step takes a process forward in its command, so the wait of the shell ends.
ShellReturns == procs[1].st = "mainwait" => \E p \in 1..Len(procs) : ~Blocked(p)

\* A line runs as it reads: the right files, the right order, a prompt when it is
\* done and not before (runcmd and main, user/sh.c).
RunsAsWritten ==
  TypeOK /\ Plumbed /\ ListInOrder /\ PromptAfterCommand /\ ShellReturns
=============================================================================
