------------------------------ MODULE MCParts -------------------------------
(***************************************************************************)
(* Instances for TLC of the parts of the system that are small and do not  *)
(* depend on each other: the console, the clock, virtual memory, the       *)
(* allocator of user programs, and the shell, how it parses a line and how *)
(* it runs a command.  part says which of them moves in a behaviour; the   *)
(* others stay in their initial state, so a property need only be          *)
(* evaluated where its part moves.                                         *)
(***************************************************************************)
EXTENDS Console

VARIABLES part,
          ticks, due, pa, elapsed,
          m, ops,
          hdr, freep, top, blocks, foreign, failed,
          procs, script, faults, orphans,
          alphabet, typed      \* the line given to the parser

\* A line is edited until the buffer is full; lines and ends of file are read;
\* output comes from all sides.
Editing == [typed |-> {"a", "U", "H"}, keys |-> 4, prints |-> 0, writes |-> 0, reads |-> 1]
Reading == [typed |-> {"a", "D", "nl"}, keys |-> 3, prints |-> 0, writes |-> 0, reads |-> 2]
Talking == [typed |-> {"P", "cr", "nul"}, keys |-> 1, prints |-> 2, writes |-> 2, reads |-> 0]

MCLoads == {Editing, Reading, Talking}

Clk == INSTANCE Clock WITH Cpu <- {0, 1}, Pauser <- {"p1"}, W <- 8, MaxN <- 3

\* A program of one page, and one of two segments, of which one is cut short.
Seg(vaddr, memsz, filesz, perm, short) ==
  [vaddr |-> vaddr, memsz |-> memsz, filesz |-> filesz, perm |-> perm, short |-> short]
Programs ==
  { [segs |-> << Seg(0, 1, 1, {"X"}, FALSE) >>, args |-> 1],
    [segs |-> << Seg(0, 2, 2, {"X"}, FALSE), Seg(2, 1, 1, {"W"}, TRUE) >>, args |-> 1] }
Pages == INSTANCE Vm
           WITH Proc <- {1, 2}, NPAGES <- 22, PGSIZE <- 2, W <- 2, USERSTACK <- 1,
                Progs <- Programs, Value <- {"v"}, MaxSz <- 10, MaxOps <- 4

Mem == INSTANCE Umalloc WITH MinCore <- 2, MaxTop <- 8, MaxUnits <- 3
Par == INSTANCE ShParse WITH MAXARGS <- 3

\* Lines for the parser: all short ones, and longer ones of fewer characters.
Alphabets ==
  {[chars |-> Par!Symbols \cup {" ", "a"}, len |-> 4]}
  \cup {[chars |-> {"a"} \cup c, len |-> 6] :
          c \in {{"|", "(", ")"}, {"|", ";", "&"}, {"(", ")", "<"}, {" ", ">"}}}

\* Lines for the shell.
Typed == {<< <<"a", "|", "a", "|", "a">> >>,
          << <<"(", "a", ";", "a", ")", "|", "a">> >>,
          << <<"a", "&", ";", "a", ">", "a">>, <<"a">> >>,
          << <<"a", "|", "a", "&">>, <<>>, <<"a">> >>,
          << <<"a", "<", "a", ">", "a", ">", ">", "a", ";", "a">> >>,
          << <<"(", "|", "a", ")", "<", "a">>, <<"a", "(">> >>}
Commands ==
  {[k \in DOMAIN s |-> IF s[k] = <<>> THEN [type |-> "NONE"] ELSE Par!parsecmd(s[k])] : s \in Typed}
Sh == INSTANCE Shell WITH Scripts <- Commands, NOFILE <- 6, MaxFaults <- 1

clock == <<ticks, due, pa, elapsed>>
pages == <<m, ops>>
memory == <<hdr, freep, top, blocks, foreign, failed>>
shell == <<procs, script, faults, orphans>>
parser == <<alphabet, typed>>
allvars == <<part, vars, clock, pages, memory, shell, parser>>

\* One more character of the line is typed.
Type == /\ Len(typed) < alphabet.len
        /\ \E c \in alphabet.chars : typed' = Append(typed, c)
        /\ UNCHANGED alphabet

MCInit == /\ part \in {"console", "clock", "vm", "malloc", "shell", "parser"}
          /\ Init /\ Clk!Init /\ Pages!Init /\ Mem!Init /\ Sh!Init
          /\ alphabet \in Alphabets /\ typed = <<>>
          /\ part # "console" => todo = Talking
          /\ part # "shell" => script = CHOOSE s \in Commands : TRUE
          /\ part # "parser" => alphabet = CHOOSE a \in Alphabets : TRUE

MCNext ==
  /\ UNCHANGED part
  /\ \/ part = "console" /\ Next /\ UNCHANGED <<clock, pages, memory, shell, parser>>
     \/ part = "clock" /\ Clk!Next /\ UNCHANGED <<vars, pages, memory, shell, parser>>
     \/ part = "vm" /\ Pages!Next /\ UNCHANGED <<vars, clock, memory, shell, parser>>
     \/ part = "malloc" /\ Mem!Next /\ UNCHANGED <<vars, clock, pages, shell, parser>>
     \/ part = "shell" /\ Sh!Next /\ UNCHANGED <<vars, clock, pages, memory, parser>>
     \/ part = "parser" /\ Type /\ UNCHANGED <<vars, clock, pages, memory, shell>>
     \/ part = "parser" /\ Len(typed) = alphabet.len /\ UNCHANGED <<vars, clock, pages, memory, shell, parser>>

MCSpec == MCInit /\ [][MCNext]_allvars /\ Fairness

-----------------------------------------------------------------------------
(* The properties of the parts other than the console.                     *)

\* See Clock: pause(n) returns after n ticks, neither before nor long after.
PauseExact == Clk!PauseExact

\* See Vm: no panic, no page lost or used twice, whatever fails half way.
MemoryExact == part = "vm" => Pages!MemoryExact

\* See Vm: programs see memories as AddressSpace describes them.
AddressSpaceSpec == Pages!A!Init /\ [][part = "vm" => Pages!A!Next]_Pages!Spaces

\* See Umalloc: the heap is partitioned, coalesced, and used up before it fails.
HeapExact == part = "malloc" => Mem!HeapExact

\* See ShParse: the parser of the shell agrees with the grammar.
ParserCorrect == part = "parser" => Par!ParserCorrect(typed)

\* See Shell: a line runs as it reads, and the prompt comes back.
RunsAsWritten == part = "shell" => Sh!RunsAsWritten
=============================================================================
