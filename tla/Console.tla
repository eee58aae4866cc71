------------------------------ MODULE Console -------------------------------
(***************************************************************************)
(* The console and its UART: kernel/console.c and kernel/uart.c, with the  *)
(* PLIC's part of devintr (trap.c) and the kernel's printf as another      *)
(* user of the transmitter.                                                *)
(*                                                                         *)
(* Three kinds of code run at once, on different CPUs: the interrupt       *)
(* handler (the PLIC lets one run at a time), the processes in consoleread *)
(* and consolewrite, and one printf (pr.lock).  What happens under         *)
(* cons.lock or tx_lock without touching the device in between is one      *)
(* step; sleep releases the lock and blocks in one step, except that a     *)
(* kill may come between consoleread's killed() and its sleep().           *)
(*                                                                         *)
(* The UART is external: a transmit FIFO, which LSR calls idle when it is  *)
(* empty, an interrupt that is raised when it becomes empty and is         *)
(* acknowledged by reading ISR or by writing THR, and received characters, *)
(* which keep the interrupt raised until they are read.                    *)
(***************************************************************************)
EXTENDS Naturals, Sequences

CONSTANTS Reader, Writer,      \* processes that read, that write the console
          INPUT_BUF_SIZE,
          M,                   \* r, w and e count modulo M (2^32)
          Start,               \* value of r, w and e after some use
          MaxN,                \* bound: characters a call asks for
          Loads                \* bound: which and how many characters are
                               \* typed, how many are printed, how many reads and writes are called

VARIABLES buf, r, w, e,        \* cons
          lock,                \* who holds cons.lock: "free", "intr" or a reader
          rd,                  \* readers: pc, n, target, killed
          tx_busy,
          wr,                  \* writers: pc, and characters left of uartwrite
          pr,                  \* printf: "idle", "spin" or "put"; pr.lock with "intr"
          h,                   \* the handler: pc, c, the characters left to
                               \* echo and what comes then
          fifo, thre, rx,      \* the UART
          todo                 \* what is left of the load

input == <<buf, r, w, e, lock, rd>>
output == <<tx_busy, wr>>
uart == <<fifo, thre, rx>>
vars == <<input, output, pr, h, uart, todo>>

\* C('D'), C('U') (kill line), C('H') and delete, C('P'), '\n', '\r', NUL.
Keys == {"D", "U", "H", "P", "nl", "cr", "nul", "a", "b"}
Stored == Keys \ {"U", "H", "P", "cr", "nul"}

Minus(x, y) == (x + M - y) % M

TypeOK ==
  /\ buf \in [0..INPUT_BUF_SIZE-1 -> Stored \cup {"nul"}]
  /\ r \in 0..M-1 /\ w \in 0..M-1 /\ e \in 0..M-1
  /\ Minus(e, r) <= INPUT_BUF_SIZE /\ Minus(w, r) <= Minus(e, r)
  /\ lock \in Reader \cup {"free", "intr"}
  /\ rd \in [Reader -> [pc : {"idle", "acquire", "loop", "sleep", "asleep"},
                        n : 0..MaxN, target : 0..MaxN, killed : BOOLEAN]]
  /\ tx_busy \in BOOLEAN
  /\ wr \in [Writer -> [pc : {"idle", "loop", "asleep"}, n : 0..MaxN]]
  /\ pr \in {"idle", "spin", "put", "intr"}
  /\ h \in [pc : {"off", "tx", "rx", "console", "kill", "spin", "put", "store", "procdump"},
            c : Keys, echo : 0..3, then : {"kill", "store", "end"}]
  /\ fifo \in Nat /\ thre \in BOOLEAN
  /\ rx \in Seq(Keys)
  /\ todo \in [typed : SUBSET Keys, keys : Nat, prints : Nat, writes : Nat, reads : Nat]

\* What the constants have to be: the indices wrap around at a multiple of the
\* size of the buffer, and they tell a full buffer from an empty one.
Sizes ==
  /\ INPUT_BUF_SIZE \in Nat \ {0} /\ M \in Nat /\ Start \in 0..M-1 /\ MaxN \in Nat
  /\ INPUT_BUF_SIZE < M /\ M % INPUT_BUF_SIZE = 0
  /\ "free" \notin Reader /\ "intr" \notin Reader
  /\ Loads \subseteq [typed : SUBSET Keys, keys : Nat, prints : Nat, writes : Nat, reads : Nat]
ASSUME ConsoleAssumption == Sizes

NoCall == [pc |-> "idle", n |-> 0, target |-> 0, killed |-> FALSE]
Off == [pc |-> "off", c |-> "nul", echo |-> 0, then |-> "end"]

\* consoleinit and uartinit, and input that was read.
Init == /\ buf = [k \in 0..INPUT_BUF_SIZE-1 |-> "nul"]
        /\ r = Start /\ w = Start /\ e = Start
        /\ lock = "free"
        /\ rd = [p \in Reader |-> NoCall]
        /\ tx_busy = FALSE
        /\ wr = [p \in Writer |-> [pc |-> "idle", n |-> 0]]
        /\ pr = "idle"
        /\ h = Off
        /\ fifo = 0 /\ thre = FALSE /\ rx = <<>>
        /\ todo \in Loads

-----------------------------------------------------------------------------
(* The UART (external).                                                    *)

TxIdle == fifo = 0

\* WriteReg(THR, c): c goes to the FIFO, the transmit interrupt is acknowledged.
WriteTHR == fifo' = fifo + 1 /\ thre' = FALSE /\ UNCHANGED rx

\* A character leaves on the line; the last one raises the interrupt.
Transmit == /\ fifo > 0
            /\ fifo' = fifo - 1
            /\ thre' = (thre \/ fifo = 1)
            /\ UNCHANGED <<input, output, pr, h, rx, todo>>

\* Somebody types; a character that finds one unread is lost in this UART.
Receive == /\ todo.keys > 0 /\ rx = <<>>
           /\ \E c \in todo.typed : rx' = <<c>>
           /\ todo' = [todo EXCEPT !.keys = @ - 1]
           /\ UNCHANGED <<input, output, pr, h, fifo, thre>>

-----------------------------------------------------------------------------
(* consoleread                                                             *)

consoleread(p, n) ==
  /\ rd[p].pc = "idle" /\ ~rd[p].killed /\ todo.reads > 0
  /\ todo' = [todo EXCEPT !.reads = @ - 1]
  /\ rd' = [rd EXCEPT ![p].pc = "acquire", ![p].n = n, ![p].target = n]
  /\ UNCHANGED <<buf, r, w, e, lock, output, pr, h, uart>>

\* acquire(&cons.lock), at the start or at the end of sleep.
read_acquire(p) ==
  /\ rd[p].pc = "acquire" /\ lock = "free"
  /\ lock' = p
  /\ rd' = [rd EXCEPT ![p].pc = "loop"]
  /\ UNCHANGED <<buf, r, w, e, output, pr, h, uart, todo>>

ReadReturn(p) ==
  /\ lock' = "free"
  /\ rd' = [rd EXCEPT ![p] = [NoCall EXCEPT !.killed = rd[p].killed]]

\* No input: return if killed, else go to sleep.
read_wait(p) ==
  /\ rd[p].pc = "loop" /\ rd[p].n > 0 /\ r = w
  /\ \/ rd[p].killed /\ ReadReturn(p)
     \/ /\ ~rd[p].killed
        /\ rd' = [rd EXCEPT ![p].pc = "sleep"]
        /\ UNCHANGED lock
  /\ UNCHANGED <<buf, r, w, e, output, pr, h, uart, todo>>

read_sleep(p) ==
  /\ rd[p].pc = "sleep"
  /\ lock' = "free"
  /\ rd' = [rd EXCEPT ![p].pc = "asleep"]
  /\ UNCHANGED <<buf, r, w, e, output, pr, h, uart, todo>>

\* The rest of the loop: a character goes to the caller, unless it is ^D after
\* others, which stays, or copyout fails, which loses it.
read_char(p) ==
  LET c == buf[r % INPUT_BUF_SIZE]
      eof == c = "D"
  IN
  /\ rd[p].pc = "loop" /\ rd[p].n > 0 /\ r # w
  /\ r' = IF eof /\ rd[p].n < rd[p].target THEN r ELSE (r + 1) % M
  /\ \/ ReadReturn(p)
     \/ /\ ~eof /\ c # "nl"
        /\ rd' = [rd EXCEPT ![p].n = @ - 1]
        /\ UNCHANGED lock
  /\ UNCHANGED <<buf, w, e, output, pr, h, uart, todo>>

read_return(p) ==
  /\ rd[p].pc = "loop" /\ rd[p].n = 0
  /\ ReadReturn(p)
  /\ UNCHANGED <<buf, r, w, e, output, pr, h, uart, todo>>

\* kkill of a process that is in consoleread.
kill(p) ==
  /\ rd[p].pc # "idle" /\ ~rd[p].killed
  /\ rd' = [rd EXCEPT ![p].killed = TRUE,
                      ![p].pc = IF @ = "asleep" THEN "acquire" ELSE @]
  /\ UNCHANGED <<buf, r, w, e, lock, output, pr, h, uart, todo>>

-----------------------------------------------------------------------------
(* consolewrite, by way of uartwrite, which gets a chunk at a time; a       *)
(* failing copyin ends the write early.                                    *)

consolewrite(p, n) ==
  /\ wr[p].pc = "idle" /\ todo.writes > 0
  /\ todo' = [todo EXCEPT !.writes = @ - 1]
  /\ wr' = [wr EXCEPT ![p] = [pc |-> "loop", n |-> n]]
  /\ UNCHANGED <<input, tx_busy, pr, h, uart>>

\* One turn of the loop of uartwrite; tx_lock is released by sleep or by the
\* return, which is where a busy transmitter or the last character leads.
uartwrite(p) ==
  /\ wr[p].pc = "loop"
  /\ \/ /\ tx_busy
        /\ wr' = [wr EXCEPT ![p].pc = "asleep"]
        /\ UNCHANGED <<tx_busy, uart>>
     \/ /\ ~tx_busy
        /\ WriteTHR
        /\ tx_busy' = TRUE
        /\ wr' = [wr EXCEPT ![p] = IF @.n > 1 THEN [pc |-> "asleep", n |-> @.n - 1]
                                   ELSE [pc |-> "idle", n |-> 0]]
  /\ UNCHANGED <<input, pr, h, todo>>

-----------------------------------------------------------------------------
(* printf: uartputc_sync, a character at a time, under pr.lock.            *)

printf ==
  /\ pr = "idle" /\ todo.prints > 0
  /\ pr' = "spin"
  /\ UNCHANGED <<input, output, h, uart, todo>>

print_spin ==
  /\ pr = "spin" /\ TxIdle
  /\ pr' = "put"
  /\ UNCHANGED <<input, output, h, uart, todo>>

print_put ==
  /\ pr = "put"
  /\ WriteTHR
  /\ todo' = [todo EXCEPT !.prints = @ - 1]
  /\ pr' \in IF todo'.prints > 0 THEN {"idle", "spin"} ELSE {"idle"}
  /\ UNCHANGED <<input, output, h>>

-----------------------------------------------------------------------------
(* The interrupt handler: uartintr and consoleintr                         *)

\* devintr claims the interrupt; uartintr reads ISR.
uartintr ==
  /\ h.pc = "off" /\ (thre \/ rx # <<>>)
  /\ thre' = FALSE
  /\ h' = [Off EXCEPT !.pc = "tx"]
  /\ UNCHANGED <<input, output, pr, fifo, rx, todo>>

\* Mutant of tx_done: the wakeup is missing.
TxDoneQuiet ==
  /\ h.pc = "tx"
  /\ tx_busy' = (tx_busy /\ ~TxIdle)
  /\ h' = [h EXCEPT !.pc = "rx"]
  /\ UNCHANGED <<input, wr, pr, uart, todo>>

\* tx_busy = 0 and wakeup(&tx_chan), if the transmitter is idle.
tx_done ==
  /\ h.pc = "tx"
  /\ IF TxIdle
       THEN /\ tx_busy' = FALSE
            /\ wr' = [p \in Writer |-> IF wr[p].pc = "asleep"
                                         THEN [wr[p] EXCEPT !.pc = "loop"] ELSE wr[p]]
       ELSE UNCHANGED <<tx_busy, wr>>
  /\ h' = [h EXCEPT !.pc = "rx"]
  /\ UNCHANGED <<input, pr, uart, todo>>

\* uartgetc: no character is left and plic_complete follows, or one is read.
uartgetc ==
  /\ h.pc = "rx"
  /\ IF rx = <<>> THEN h' = Off /\ UNCHANGED rx
     ELSE /\ h' = [h EXCEPT !.pc = "console", !.c = Head(rx)]
          /\ rx' = Tail(rx)
  /\ UNCHANGED <<input, output, pr, fifo, thre, todo>>

\* Release cons.lock and go for the next character.
ConsoleEnd == lock' = "free" /\ h' = [Off EXCEPT !.pc = "rx"]

\* consputc: one character, or three for BACKSPACE.
consputc(k, then) == h' = [h EXCEPT !.pc = "spin", !.echo = k, !.then = then]

Backspace(then) ==
  /\ e' = Minus(e, 1)
  /\ consputc(3, then)

\* Mutant of Erasable: what was committed and not yet read can be erased.
Room == Minus(e, r) < INPUT_BUF_SIZE
ErasableAll == e # r
Erasable == e # w

\* consoleintr: acquire cons.lock and switch on the character; what is to be
\* stored is echoed first.
consoleintr ==
  /\ h.pc = "console" /\ lock = "free"
  /\ \/ /\ h.c = "P"
        /\ lock' = "intr" /\ h' = [h EXCEPT !.pc = "procdump"]
        /\ UNCHANGED e
     \/ /\ h.c = "U"
        /\ lock' = "intr" /\ h' = [h EXCEPT !.pc = "kill"]
        /\ UNCHANGED e
     \/ /\ h.c = "H" /\ Erasable
        /\ lock' = "intr" /\ Backspace("end")
     \/ /\ h.c \notin {"P", "U", "H", "nul"} /\ Room
        /\ lock' = "intr" /\ consputc(1, "store")
        /\ UNCHANGED e
     \/ /\ \/ h.c = "H" /\ ~Erasable
           \/ h.c = "nul"
           \/ h.c \notin {"P", "U", "H"} /\ ~Room
        /\ ConsoleEnd
        /\ UNCHANGED e
  /\ UNCHANGED <<buf, r, w, rd, output, pr, uart, todo>>

\* The loop of ^U.
kill_line ==
  /\ h.pc = "kill"
  /\ IF Erasable /\ buf[Minus(e, 1) % INPUT_BUF_SIZE] # "nl"
       THEN Backspace("kill") /\ UNCHANGED lock
       ELSE ConsoleEnd /\ UNCHANGED e
  /\ UNCHANGED <<buf, r, w, rd, output, pr, uart, todo>>

\* procdump: printf, of one character here, when pr.lock is free.
procdump ==
  /\ h.pc = "procdump" /\ pr = "idle"
  /\ pr' = "intr"
  /\ consputc(1, "end")
  /\ UNCHANGED <<input, output, uart, todo>>

\* uartputc_sync waits for LSR_TX_IDLE and then writes THR.
echo_spin ==
  /\ h.pc = "spin" /\ TxIdle
  /\ h' = [h EXCEPT !.pc = "put"]
  /\ UNCHANGED <<input, output, pr, uart, todo>>

echo_put ==
  /\ h.pc = "put"
  /\ WriteTHR
  /\ IF h.echo > 1 THEN h' = [h EXCEPT !.pc = "spin", !.echo = @ - 1] /\ UNCHANGED <<lock, pr>>
     ELSE IF h.then = "end"
            THEN ConsoleEnd /\ pr' = IF pr = "intr" THEN "idle" ELSE pr
            ELSE h' = [h EXCEPT !.pc = h.then, !.echo = 0] /\ UNCHANGED <<lock, pr>>
  /\ UNCHANGED <<buf, r, w, e, rd, output, todo>>

\* Whether the character ends a line, or fills the buffer.
\* Mutant of Commits: a full buffer does not count.
CommitsLine(c, n) == c \in {"nl", "D"}
Commits(c, n) == c \in {"nl", "D"} \/ n = INPUT_BUF_SIZE

\* wakeup(&cons.r).
WakeReaders == [p \in Reader |-> IF rd[p].pc = "asleep"
                                   THEN [rd[p] EXCEPT !.pc = "acquire"] ELSE rd[p]]

\* cons.buf[cons.e++ % INPUT_BUF_SIZE] = c, and the end of a line.
store ==
  LET c == IF h.c = "cr" THEN "nl" ELSE h.c
  IN
  /\ h.pc = "store"
  /\ buf' = [buf EXCEPT ![e % INPUT_BUF_SIZE] = c]
  /\ e' = (e + 1) % M
  /\ IF Commits(c, Minus(e', r)) THEN w' = e' /\ rd' = WakeReaders
                                 ELSE UNCHANGED <<w, rd>>
  /\ ConsoleEnd
  /\ UNCHANGED <<r, output, pr, uart, todo>>

-----------------------------------------------------------------------------
handling == \/ uartintr \/ tx_done \/ uartgetc \/ consoleintr \/ kill_line
            \/ procdump \/ echo_spin \/ echo_put \/ store
printing == print_spin \/ print_put
reading(p) == \/ read_acquire(p) \/ read_wait(p) \/ read_sleep(p)
              \/ read_char(p) \/ read_return(p)

\* Nothing is left to do until somebody types or calls.
quiet == /\ h = Off /\ pr = "idle" /\ fifo = 0 /\ ~thre /\ rx = <<>>
         /\ \A p \in Reader : rd[p].pc \in {"idle", "asleep"}
         /\ \A p \in Writer : wr[p].pc = "idle"
         /\ UNCHANGED vars

Next == \/ Transmit \/ Receive \/ handling \/ printing \/ printf
        \/ \E p \in Reader : \/ reading(p) \/ kill(p)
                             \/ \E n \in 1..MaxN : consoleread(p, n)
        \/ \E p \in Writer : uartwrite(p) \/ \E n \in 1..MaxN : consolewrite(p, n)
        \/ quiet

Spec == Init /\ [][Next]_vars

\* The transmitter transmits, interrupts are taken, and code that is not asleep
\* keeps running.  Nobody has to type, to call or to print.
Fairness == /\ WF_vars(Transmit) /\ SF_vars(handling) /\ WF_vars(printing)
            /\ \A p \in Reader : SF_vars(reading(p))
            /\ \A p \in Writer : WF_vars(uartwrite(p))

FairSpec == Spec /\ Fairness

-----------------------------------------------------------------------------
(* Properties                                                              *)

\* The buffer implements the line discipline: characters are read in the order
\* they were typed, edited lines as they were when they were ended, none twice
\* and none while it can still be erased, across the wrap of the indices.
Slice(from, to) == [k \in 1..Minus(to, from) |-> buf[((from + k - 1) % M) % INPUT_BUF_SIZE]]
Lines == INSTANCE LineDiscipline
           WITH Stored <- Stored, Ends <- {"nl", "D"}, Capacity <- INPUT_BUF_SIZE,
                ready <- Slice(r, w), line <- Slice(w, e)
Discipline == Lines!Spec

\* No reader sleeps while there is something to read: who committed a line
\* called wakeup(&cons.r) under cons.lock.
ReaderNotStranded == \A p \in Reader : rd[p].pc \in {"sleep", "asleep"} => r = w

\* A buffer that takes no more input has all of it committed: else the reader
\* would wait for a newline that consoleintr drops.
FullIsReadable == lock = "free" /\ Minus(e, r) = INPUT_BUF_SIZE => w = e

\* uartputc_sync and uartwrite test for an idle transmitter and write as two
\* steps, without a common lock; the characters they race to add to the FIFO
\* are never more than one each of the handler, printf and a writer.
FifoBounded == fifo <= 3

\* A write to the console waits for a transmitter that will interrupt: the
\* interrupt that clears tx_busy is not lost, though echo and printf also write
\* THR and so acknowledge it.
WriterGoesOn == \A p \in Writer : wr[p].pc = "asleep" ~> wr[p].pc # "asleep"

\* The input that consoleintr takes reaches the reader, and output never piles up.
ConsoleSafe == TypeOK /\ ReaderNotStranded /\ FullIsReadable /\ FifoBounded
=============================================================================
