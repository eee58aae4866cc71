---------------------------- MODULE ConsoleProofs ---------------------------
(***************************************************************************)
(* Proofs about Console, for any number of readers and writers, any size   *)
(* of the buffer and any load.                                             *)
(*                                                                         *)
(* ConsoleSafe is not inductive: that no reader sleeps on input needs who  *)
(* holds cons.lock (Locking), that the buffer does not overflow needs that *)
(* the room the handler saw before it echoed is still there when it stores *)
(* (Storing), and the bound of the FIFO needs a count of those who have    *)
(* seen an idle transmitter and have not written yet (Racing).             *)
(***************************************************************************)
EXTENDS Console, RingLemmas, TLAPS

\* Most steps are first-order; the ones that need arithmetic or many facts at once
\* name the SMT solver.
USE ZenonT(60)

\* Who holds cons.lock: a reader in its loop up to sleep, or the handler while
\* it edits, echoes or stores.
Locking ==
  /\ \A p \in Reader : lock = p <=> rd[p].pc \in {"loop", "sleep"}
  /\ lock = "intr" <=> h.pc \in {"kill", "spin", "put", "store", "procdump"}

\* A character that is echoed and then stored is one to be kept, and the room
\* that was found for it is still there: cons.lock is held since.
Echoed == (h.pc \in {"spin", "put"} /\ h.then = "store") \/ h.pc = "store"
Storing == Echoed => h.c \notin {"P", "U", "H", "nul"} /\ Room

\* A full buffer is committed, also inside the handler.
Full == Minus(e, r) = INPUT_BUF_SIZE => w = e

\* Everybody who has seen an idle transmitter adds one character at most.
One(b) == IF b THEN 1 ELSE 0
Racing == fifo + One(pr = "put") + One(h.pc = "put") + One(~tx_busy) <= 3

\* A printf that is under way has a character left.
Printing == pr \in {"spin", "put"} => todo.prints > 0

IInv == TypeOK /\ Locking /\ Storing /\ ReaderNotStranded /\ Full /\ Racing /\ Printing

-----------------------------------------------------------------------------
(* Arithmetic of the indices                                               *)

\* The distance of two indices.
LEMMA MinusIs ==
  ASSUME Sizes, NEW x \in 0..M-1, NEW y \in 0..M-1
  PROVE  /\ Minus(x, y) = Ahead(x, y, M)
         /\ Minus(x, y) = IF y <= x THEN x - y ELSE x + M - y
         /\ Minus(x, y) \in 0..M-1
         /\ Minus(x, y) = 0 <=> x = y
<1>1. M \in Nat \ {0}
  BY SMTT(60) DEF Sizes
<1>2. Minus(x, y) = Ahead(x, y, M)
  BY DEF Minus, Ahead
<1> QED
  BY <1>1, <1>2, AheadIs, SMTT(60)

\* An index that goes on by one, at either end.
LEMMA Forth ==
  ASSUME Sizes, NEW x \in 0..M-1, NEW y \in 0..M-1
  PROVE  /\ (x + 1) % M \in 0..M-1
         /\ Minus(x, y) < INPUT_BUF_SIZE => Minus((x + 1) % M, y) = Minus(x, y) + 1
         /\ x # y => Minus(x, (y + 1) % M) = Minus(x, y) - 1
<1>1. M \in Nat \ {0} /\ INPUT_BUF_SIZE \in Nat /\ INPUT_BUF_SIZE <= M - 1
  BY SMTT(60) DEF Sizes
<1>2. (x + 1) % M \in 0..M-1 /\ (y + 1) % M \in 0..M-1
  BY <1>1, StepIs
<1>3. /\ Minus(x, y) = Ahead(x, y, M) /\ Minus(x, y) \in 0..M-1
      /\ Minus((x + 1) % M, y) = Ahead((x + 1) % M, y, M)
      /\ Minus(x, (y + 1) % M) = Ahead(x, (y + 1) % M, M)
  BY <1>2, MinusIs
<1>4. /\ Ahead(x, y, M) < M - 1 => Ahead((x + 1) % M, y, M) = Ahead(x, y, M) + 1
      /\ x # y => Ahead(x, (y + 1) % M, M) = Ahead(x, y, M) - 1
  BY <1>1, AheadMoves
<1> QED
  BY <1>1, <1>2, <1>3, <1>4, SMTT(60)

\* An index that goes back by one.
LEMMA Back ==
  ASSUME Sizes, NEW x \in 0..M-1, NEW y \in 0..M-1
  PROVE  /\ Minus(x, 1) \in 0..M-1
         /\ x # y => Minus(Minus(x, 1), y) = Minus(x, y) - 1
<1>1. M \in Nat /\ 1 \in 0..M-1
  BY SMTT(60) DEF Sizes
<1>2. PICK z \in 0..M-1 : z = Minus(x, 1) /\ z = IF 1 <= x THEN x - 1 ELSE x + M - 1
  BY <1>1, MinusIs
<1>3. Minus(x, y) = IF y <= x THEN x - y ELSE x + M - y
  BY MinusIs
<1>4. Minus(z, y) = IF y <= z THEN z - y ELSE z + M - y
  BY MinusIs
<1> QED
  BY <1>1, <1>2, <1>3, <1>4, SMTT(60)

\* An index between two others.
LEMMA Between ==
  ASSUME Sizes, NEW x \in 0..M-1, NEW y \in 0..M-1, NEW z \in 0..M-1,
         Minus(y, z) <= Minus(x, z)
  PROVE  Minus(x, y) = Minus(x, z) - Minus(y, z)
<1>1. M \in Nat
  BY DEF Sizes
<1>2. Minus(x, y) = IF y <= x THEN x - y ELSE x + M - y
  BY MinusIs
<1>3. Minus(x, z) = IF z <= x THEN x - z ELSE x + M - z
  BY MinusIs
<1>4. Minus(y, z) = IF z <= y THEN y - z ELSE y + M - z
  BY MinusIs
<1> QED
  BY <1>1, <1>2, <1>3, <1>4, SMTT(60)
-----------------------------------------------------------------------------
(* Steps that leave the input alone                                        *)

\* TypeOK in two parts: the input, and the rest.
InputType ==
  /\ buf \in [0..INPUT_BUF_SIZE-1 -> Stored \cup {"nul"}]
  /\ r \in 0..M-1 /\ w \in 0..M-1 /\ e \in 0..M-1
  /\ Minus(e, r) <= INPUT_BUF_SIZE /\ Minus(w, r) <= Minus(e, r)
Call == [pc : {"idle", "acquire", "loop", "sleep", "asleep"},
         n : 0..MaxN, target : 0..MaxN, killed : BOOLEAN]
ReaderType == lock \in Reader \cup {"free", "intr"} /\ rd \in [Reader -> Call]
Handler == [pc : {"off", "tx", "rx", "console", "kill", "spin", "put", "store", "procdump"},
            c : Keys, echo : 0..3, then : {"kill", "store", "end"}]
Load == [typed : SUBSET Keys, keys : Nat, prints : Nat, writes : Nat, reads : Nat]
WriterType == /\ tx_busy \in BOOLEAN
              /\ wr \in [Writer -> [pc : {"idle", "loop", "asleep"}, n : 0..MaxN]]
UartType == fifo \in Nat /\ thre \in BOOLEAN /\ rx \in Seq(Keys)
OtherType == /\ pr \in {"idle", "spin", "put", "intr"}
             /\ h \in Handler /\ todo \in Load

\* TypeOK is the conjunction of its parts.
LEMMA TypeParts ==
  TypeOK <=> InputType /\ ReaderType /\ WriterType /\ UartType /\ OtherType
BY DEF TypeOK, InputType, ReaderType, WriterType, UartType, OtherType, Call, Handler, Load

\* The same after a step.
LEMMA TypePartsNext ==
  TypeOK' <=> InputType' /\ ReaderType' /\ WriterType' /\ UartType' /\ OtherType'
BY DEF TypeOK, InputType, ReaderType, WriterType, UartType, OtherType, Call, Handler, Load

\* The input does not change, and the handler keeps or does not need cons.lock.
LEMMA SameInput ==
  ASSUME IInv, UNCHANGED input
  PROVE  InputType' /\ ReaderType' /\ ReaderNotStranded' /\ Full'
<1>1. InputType /\ ReaderType
  BY TypeParts DEF IInv
<1>2. /\ buf' = buf /\ r' = r /\ w' = w /\ e' = e /\ lock' = lock /\ rd' = rd
  BY DEF input
<1> QED
  BY <1>1, <1>2 DEF IInv, InputType, ReaderType, ReaderNotStranded, Full, Minus

\* The handler is where it was.
LEMMA SameHandler ==
  ASSUME IInv, UNCHANGED input, UNCHANGED h
  PROVE  Locking' /\ Storing'
BY DEF IInv, input, Locking, Storing, Echoed, Room, Minus

-----------------------------------------------------------------------------
(* The UART, the writers and printf                                        *)

\* One more character in the FIFO.
LEMMA Added == \A k \in Nat : k + 1 \in Nat
BY SMTT(60)

\* The FIFO only gets shorter.
LEMMA TransmitStep ==
  ASSUME Sizes, IInv, Transmit
  PROVE  IInv'
<1>1. UNCHANGED input /\ UNCHANGED h /\ UNCHANGED output /\ pr' = pr /\ rx' = rx /\ todo' = todo
  BY DEF Transmit
<1>2. WriterType /\ UartType /\ OtherType
  BY TypeParts DEF IInv
<1>3. WriterType' /\ OtherType' /\ UartType'
  BY <1>1, <1>2, SMTT(60) DEF WriterType, UartType, OtherType, Transmit, output
<1>4. Racing'
  BY <1>1, <1>2, SMTT(60) DEF IInv, Racing, One, Transmit, output, UartType
<1>5. Printing'
  BY <1>1 DEF IInv, Printing
<1> QED
  BY <1>1, <1>3, <1>4, <1>5, SameInput, SameHandler, TypePartsNext DEF IInv

\* A typed character waits in the UART.
LEMMA ReceiveStep ==
  ASSUME Sizes, IInv, Receive
  PROVE  IInv'
<1>1. /\ UNCHANGED input /\ UNCHANGED h /\ UNCHANGED output /\ pr' = pr
      /\ fifo' = fifo /\ thre' = thre
  BY DEF Receive
<1>2. WriterType /\ UartType /\ OtherType
  BY TypeParts DEF IInv
<1>3. WriterType'
  BY <1>1, <1>2 DEF WriterType, output
<1>4. todo' \in Load
  BY <1>2, SMTT(60) DEF OtherType, Load, Receive
<1>5. rx' \in Seq(Keys)
  <2>1. PICK c \in todo.typed : rx' = <<c>>
    BY DEF Receive
  <2>2. c \in Keys
    BY <1>2 DEF OtherType, Load
  <2> QED
    BY <2>1, <2>2, SMTT(60)
<1>6. UartType' /\ OtherType'
  BY <1>1, <1>2, <1>4, <1>5 DEF UartType, OtherType
<1>7. Racing'
  BY <1>1 DEF IInv, Racing, One, output
<1>8. Printing'
  BY <1>1, <1>2, SMTT(60) DEF IInv, Printing, Receive, OtherType, Load
<1> QED
  BY <1>1, <1>3, <1>6, <1>7, <1>8, SameInput, SameHandler, TypePartsNext DEF IInv

\* A write begins; nothing is sent yet.
LEMMA ConsolewriteStep ==
  ASSUME Sizes, IInv, NEW p \in Writer, NEW n \in 1..MaxN, consolewrite(p, n)
  PROVE  IInv'
<1>1. /\ UNCHANGED input /\ UNCHANGED h /\ tx_busy' = tx_busy /\ pr' = pr
      /\ fifo' = fifo /\ thre' = thre /\ rx' = rx
  BY DEF consolewrite, uart
<1>2. WriterType /\ UartType /\ OtherType
  BY TypeParts DEF IInv
<1>3. n \in 0..MaxN
  BY SMTT(60) DEF Sizes
<1>4. WriterType'
  BY <1>1, <1>2, <1>3, SMTT(60) DEF WriterType, consolewrite
<1>5. UartType' /\ OtherType'
  BY <1>1, <1>2, SMTT(60) DEF UartType, OtherType, consolewrite, Load
<1>6. Racing'
  BY <1>1 DEF IInv, Racing, One
<1>7. Printing'
  BY <1>1, <1>2, SMTT(60) DEF IInv, Printing, consolewrite, OtherType, Load
<1> QED
  BY <1>1, <1>4, <1>5, <1>6, <1>7, SameInput, SameHandler, TypePartsNext DEF IInv

\* A writer that finds the transmitter idle makes it busy.
LEMMA UartwriteStep ==
  ASSUME Sizes, IInv, NEW p \in Writer, uartwrite(p)
  PROVE  IInv'
<1>1. UNCHANGED input /\ UNCHANGED h /\ pr' = pr /\ todo' = todo /\ rx' = rx
  BY DEF uartwrite, WriteTHR, uart
<1>2. WriterType /\ UartType /\ OtherType
  BY TypeParts DEF IInv
<1>3. WriterType'
  <2>1. wr[p] \in [pc : {"idle", "loop", "asleep"}, n : 0..MaxN] /\ MaxN \in Nat
    BY <1>2 DEF WriterType, Sizes
  <2>2. wr[p].n > 1 => wr[p].n - 1 \in 0..MaxN
    BY <2>1, SMTT(60)
  <2>3. CASE tx_busy
    BY <1>2, <2>1, <2>3, SMTT(60) DEF WriterType, uartwrite
  <2>4. CASE ~tx_busy
    <3>1. PICK c \in [pc : {"idle", "loop", "asleep"}, n : 0..MaxN] : wr' = [wr EXCEPT ![p] = c]
      BY <2>1, <2>2, <2>4, SMTT(60) DEF uartwrite
    <3>2. tx_busy' = TRUE
      BY <2>4 DEF uartwrite
    <3> QED
      BY <1>2, <3>1, <3>2 DEF WriterType
  <2> QED
    BY <2>3, <2>4
<1>4. UartType' /\ OtherType'
  <2>1. \/ fifo' = fifo /\ thre' = thre
        \/ fifo' = fifo + 1 /\ thre' = FALSE
    BY DEF uartwrite, WriteTHR, uart
  <2> QED
    BY <1>1, <1>2, <2>1, Added DEF UartType, OtherType
<1>5. Racing'
  BY <1>1, <1>2, SMTT(60) DEF IInv, Racing, One, uartwrite, WriteTHR, uart, UartType, WriterType
<1>6. Printing'
  BY <1>1 DEF IInv, Printing
<1> QED
  BY <1>1, <1>3, <1>4, <1>5, <1>6, SameInput, SameHandler, TypePartsNext DEF IInv

\* printf adds a character only after it has seen an empty FIFO.
LEMMA PrintStep ==
  ASSUME Sizes, IInv, printf \/ print_spin \/ print_put
  PROVE  IInv'
<1>1. UNCHANGED input /\ UNCHANGED h /\ UNCHANGED output /\ rx' = rx
  BY DEF printf, print_spin, print_put, WriteTHR, uart
<1>2. WriterType /\ UartType /\ OtherType
  BY TypeParts DEF IInv
<1>3. WriterType'
  BY <1>1, <1>2 DEF WriterType, output
<1>4. UartType'
  <2>1. \/ fifo' = fifo /\ thre' = thre
        \/ fifo' = fifo + 1 /\ thre' = FALSE
    BY DEF printf, print_spin, print_put, WriteTHR, uart
  <2> QED
    BY <1>1, <1>2, <2>1, Added DEF UartType
<1>5. OtherType'
  <2>1. todo' \in Load
    BY <1>2, SMTT(60) DEF IInv, Printing, OtherType, Load, printf, print_spin, print_put
  <2> QED
    BY <1>1, <1>2, <2>1, SMTT(60) DEF OtherType, printf, print_spin, print_put
<1>6. Racing'
  BY <1>1, <1>2, SMTT(60) DEF IInv, Racing, One, printf, print_spin, print_put, WriteTHR, TxIdle, uart,
    output, UartType, WriterType
<1>7. Printing'
  BY <1>2, SMTT(60) DEF IInv, Printing, printf, print_spin, print_put, OtherType, Load
<1> QED
  BY <1>1, <1>3, <1>4, <1>5, <1>6, <1>7, SameInput, SameHandler, TypePartsNext DEF IInv
-----------------------------------------------------------------------------
(* The handler                                                             *)

\* The handler after a field or all of them changed.
LEMMA HandlerType ==
  ASSUME h \in Handler
  PROVE  /\ Off \in Handler /\ Off.pc = "off"
         /\ [Off EXCEPT !.pc = "tx"] \in Handler /\ [Off EXCEPT !.pc = "tx"].pc = "tx"
         /\ [Off EXCEPT !.pc = "rx"] \in Handler /\ [Off EXCEPT !.pc = "rx"].pc = "rx"
         /\ \A q \in {"rx", "put", "kill", "procdump"} :
              /\ [h EXCEPT !.pc = q] \in Handler
              /\ [h EXCEPT !.pc = q].pc = q
              /\ [h EXCEPT !.pc = q].c = h.c
              /\ [h EXCEPT !.pc = q].then = h.then
BY SMTT(60) DEF Handler, Off, Keys

\* The handler begins to echo.
LEMMA ConsputcType ==
  ASSUME h \in Handler, NEW k \in 1..3, NEW t \in {"kill", "store", "end"}, consputc(k, t)
  PROVE  h' \in Handler /\ h'.pc = "spin" /\ h'.c = h.c /\ h'.then = t
<1>1. k \in 0..3
  BY SMTT(60)
<1>2. h' = [h EXCEPT !.pc = "spin", !.echo = k, !.then = t]
  BY DEF consputc
<1> QED
  BY <1>1, <1>2 DEF Handler

\* The handler moves, inside its critical section or outside.
LEMMA HandlerMoves ==
  ASSUME IInv, UNCHANGED input,
         h.pc \in {"kill", "spin", "put", "store", "procdump"}
           <=> h'.pc \in {"kill", "spin", "put", "store", "procdump"}
  PROVE  Locking'
BY DEF IInv, input, Locking

\* The handler begins, outside of cons.lock.
LEMMA UartintrStep ==
  ASSUME Sizes, IInv, uartintr
  PROVE  IInv'
<1>1. /\ UNCHANGED input /\ UNCHANGED output /\ pr' = pr /\ fifo' = fifo /\ rx' = rx
      /\ todo' = todo /\ thre' = FALSE /\ h.pc = "off"
  BY DEF uartintr
<1>2. WriterType /\ UartType /\ OtherType
  BY TypeParts DEF IInv
<1>3. h' \in Handler /\ h'.pc = "tx"
  BY <1>2, HandlerType DEF uartintr, OtherType
<1>4. WriterType' /\ UartType' /\ OtherType'
  BY <1>1, <1>2, <1>3 DEF WriterType, UartType, OtherType, output
<1>5. Locking'
  BY <1>1, <1>3, HandlerMoves
<1>6. Storing'
  BY <1>3 DEF Storing, Echoed
<1>7. Racing' /\ Printing'
  BY <1>1, <1>3 DEF IInv, Racing, One, Printing, output
<1> QED
  BY <1>1, <1>4, <1>5, <1>6, <1>7, SameInput, TypePartsNext DEF IInv

\* tx_busy is cleared only when nothing is in the FIFO.
LEMMA TxDoneStep ==
  ASSUME Sizes, IInv, tx_done
  PROVE  IInv'
<1>1. /\ UNCHANGED input /\ UNCHANGED uart /\ pr' = pr /\ todo' = todo /\ h.pc = "tx"
  BY DEF tx_done
<1>2. WriterType /\ UartType /\ OtherType
  BY TypeParts DEF IInv
<1>3. h' \in Handler /\ h'.pc = "rx"
  BY <1>2, HandlerType DEF tx_done, OtherType
<1>4. WriterType'
  <2> DEFINE C == [pc : {"idle", "loop", "asleep"}, n : 0..MaxN]
  <2>1. \A c \in C : [c EXCEPT !.pc = "loop"] \in C
    BY SMTT(60)
  <2>2. CASE TxIdle
    <3> DEFINE Woken(p) == IF wr[p].pc = "asleep" THEN [wr[p] EXCEPT !.pc = "loop"] ELSE wr[p]
    <3>1. tx_busy' = FALSE /\ wr' = [p \in Writer |-> Woken(p)]
      BY <2>2 DEF tx_done
    <3>2. \A p \in Writer : Woken(p) \in C
      BY <1>2, <2>1 DEF WriterType
    <3> HIDE DEF Woken
    <3> QED
      BY <3>1, <3>2 DEF WriterType
  <2>3. CASE ~TxIdle
    BY <1>2, <2>3 DEF WriterType, tx_done
  <2> QED
    BY <2>2, <2>3
<1>5. UartType' /\ OtherType'
  BY <1>1, <1>2, <1>3 DEF UartType, OtherType, uart
<1>6. Locking'
  BY <1>1, <1>3, HandlerMoves
<1>7. Storing'
  BY <1>3 DEF Storing, Echoed
<1>8. Racing'
  <2>1. fifo' = fifo /\ (tx_busy' = tx_busy \/ fifo = 0)
    BY <1>1 DEF tx_done, TxIdle, uart
  <2> QED
    BY <1>1, <1>2, <1>3, <2>1, SMTT(60) DEF IInv, Racing, One, UartType
<1>9. Printing'
  BY <1>1 DEF IInv, Printing
<1> QED
  BY <1>1, <1>4, <1>5, <1>6, <1>7, <1>8, <1>9, SameInput, TypePartsNext DEF IInv

\* The handler takes a character, or is done.
LEMMA UartgetcStep ==
  ASSUME Sizes, IInv, uartgetc
  PROVE  IInv'
<1>1. /\ UNCHANGED input /\ UNCHANGED output /\ pr' = pr /\ fifo' = fifo /\ thre' = thre
      /\ todo' = todo /\ h.pc = "rx"
  BY DEF uartgetc
<1>2. WriterType /\ UartType /\ OtherType
  BY TypeParts DEF IInv
<1>3. h' \in Handler /\ h'.pc \in {"off", "console"} /\ rx' \in Seq(Keys)
  <2>1. CASE rx = <<>>
    BY <1>2, <2>1, HandlerType DEF uartgetc, OtherType, UartType
  <2>2. CASE rx # <<>>
    <3>1. Head(rx) \in Keys /\ Tail(rx) \in Seq(Keys)
      BY <1>2, <2>2, SMTT(60) DEF UartType
    <3>2. h' = [h EXCEPT !.pc = "console", !.c = Head(rx)] /\ rx' = Tail(rx)
      BY <2>2 DEF uartgetc
    <3>3. h' \in Handler /\ h'.pc = "console"
      BY <1>2, <3>1, <3>2 DEF OtherType, Handler
    <3> QED
      BY <3>1, <3>2, <3>3
  <2> QED
    BY <2>1, <2>2
<1>4. WriterType' /\ UartType' /\ OtherType'
  BY <1>1, <1>2, <1>3 DEF WriterType, UartType, OtherType, output
<1>5. Locking'
  BY <1>1, <1>3, HandlerMoves
<1>6. Storing'
  BY <1>3 DEF Storing, Echoed
<1>7. Racing' /\ Printing'
  BY <1>1, <1>3 DEF IInv, Racing, One, Printing, output
<1> QED
  BY <1>1, <1>4, <1>5, <1>6, <1>7, SameInput, TypePartsNext DEF IInv

\* The handler takes pr.lock and prints; nothing is stored after that.
LEMMA ProcdumpStep ==
  ASSUME Sizes, IInv, procdump
  PROVE  IInv'
<1>1. /\ UNCHANGED input /\ UNCHANGED output /\ UNCHANGED uart /\ todo' = todo
      /\ h.pc = "procdump" /\ pr = "idle" /\ pr' = "intr"
  BY DEF procdump
<1>2. WriterType /\ UartType /\ OtherType
  BY TypeParts DEF IInv
<1>3. h' \in Handler /\ h'.pc = "spin" /\ h'.then = "end"
  <2>1. consputc(1, "end") /\ 1 \in 1..3
    BY SMTT(60) DEF procdump
  <2> QED
    BY <1>2, <2>1, ConsputcType DEF OtherType
<1>4. WriterType' /\ UartType' /\ OtherType'
  BY <1>1, <1>2, <1>3 DEF WriterType, UartType, OtherType, output, uart
<1>5. Locking'
  BY <1>1, <1>3, HandlerMoves
<1>6. Storing'
  BY <1>3 DEF Storing, Echoed
<1>7. Racing' /\ Printing'
  BY <1>1, <1>3 DEF IInv, Racing, One, Printing, output, uart
<1> QED
  BY <1>1, <1>4, <1>5, <1>6, <1>7, SameInput, TypePartsNext DEF IInv

\* The handler finds the transmitter idle.
LEMMA EchoSpinStep ==
  ASSUME Sizes, IInv, echo_spin
  PROVE  IInv'
<1>1. /\ UNCHANGED input /\ UNCHANGED output /\ UNCHANGED uart /\ pr' = pr /\ todo' = todo
      /\ h.pc = "spin" /\ fifo = 0
  BY DEF echo_spin, TxIdle
<1>2. WriterType /\ UartType /\ OtherType
  BY TypeParts DEF IInv
<1>3. h' \in Handler /\ h'.pc = "put" /\ h'.then = h.then /\ h'.c = h.c
  BY <1>2, HandlerType DEF OtherType, echo_spin
<1>4. WriterType' /\ UartType' /\ OtherType'
  BY <1>1, <1>2, <1>3 DEF WriterType, UartType, OtherType, output, uart
<1>5. Locking'
  BY <1>1, <1>3, HandlerMoves
<1>6. Storing'
  BY <1>1, <1>3 DEF IInv, Storing, Echoed, Room, Minus, input
<1>7. Racing'
  BY <1>1, <1>3, SMTT(60) DEF Racing, One, uart
<1>8. Printing'
  BY <1>1 DEF IInv, Printing
<1> QED
  BY <1>1, <1>4, <1>5, <1>6, <1>7, <1>8, SameInput, TypePartsNext DEF IInv
\* The handler releases cons.lock; a reader is not concerned.
LEMMA ConsoleEndType ==
  ASSUME Sizes, IInv, ConsoleEnd, lock = "intr" \/ lock = "free",
         \A p \in Reader : rd'[p].pc \in {"loop", "sleep"} <=> rd[p].pc \in {"loop", "sleep"}
  PROVE  /\ h' \in Handler /\ h'.pc = "rx" /\ lock' = "free"
         /\ Locking' /\ Storing'
<1>1. h \in Handler
  BY TypeParts DEF IInv, OtherType
<1>2. h' \in Handler /\ h'.pc = "rx" /\ lock' = "free"
  BY <1>1, HandlerType DEF ConsoleEnd
<1>3. Locking'
  BY <1>2 DEF Locking, IInv, Sizes
<1>4. Storing'
  BY <1>2 DEF Storing, Echoed
<1> QED
  BY <1>2, <1>3, <1>4

\* The last character of an echo leads on to where the handler came from.
LEMMA EchoPutStep ==
  ASSUME Sizes, IInv, echo_put
  PROVE  IInv'
<1>1. /\ buf' = buf /\ r' = r /\ w' = w /\ e' = e /\ rd' = rd
      /\ UNCHANGED output /\ todo' = todo /\ rx' = rx
      /\ fifo' = fifo + 1 /\ thre' = FALSE /\ h.pc = "put"
  BY DEF echo_put, WriteTHR
<1>2. InputType /\ ReaderType /\ WriterType /\ UartType /\ OtherType
  BY TypeParts DEF IInv
<1>3. lock = "intr"
  BY <1>1 DEF IInv, Locking
<1>4. /\ h' \in Handler /\ h'.pc # "put" /\ Locking' /\ Storing'
      /\ lock' \in {"intr", "free"} /\ pr' \in {pr, "idle"}
  <2>1. CASE h.echo > 1
    <3>1. h' = [h EXCEPT !.pc = "spin", !.echo = @ - 1] /\ lock' = lock /\ pr' = pr
      BY <2>1 DEF echo_put
    <3>2. h.echo - 1 \in 0..3
      <4>1. h.echo \in 0..3
        BY <1>2 DEF OtherType, Handler
      <4> QED
        BY <2>1, <4>1, SMTT(60)
    <3>3. h' \in Handler /\ h'.pc = "spin" /\ h'.then = h.then /\ h'.c = h.c
      BY <1>2, <3>1, <3>2 DEF OtherType, Handler
    <3>4. Locking'
      BY <1>1, <3>1, <3>3 DEF IInv, Locking
    <3>5. Storing'
      BY <1>1, <3>3 DEF IInv, Storing, Echoed, Room, Minus
    <3> QED
      BY <1>3, <3>1, <3>3, <3>4, <3>5
  <2>2. CASE ~(h.echo > 1) /\ h.then = "end"
    <3>1. ConsoleEnd /\ pr' \in {pr, "idle"}
      BY <2>2 DEF echo_put
    <3> QED
      BY <1>1, <1>3, <3>1, ConsoleEndType
  <2>3. CASE ~(h.echo > 1) /\ h.then # "end"
    <3>1. h' = [h EXCEPT !.pc = h.then, !.echo = 0] /\ lock' = lock /\ pr' = pr
      BY <2>3 DEF echo_put
    <3>2. h.then \in {"kill", "store"} /\ 0 \in 0..3
      <4>1. h.then \in {"kill", "store", "end"}
        BY <1>2 DEF OtherType, Handler
      <4> QED
        BY <2>3, <4>1, SMTT(60)
    <3>3. h' \in Handler /\ h'.pc = h.then /\ h'.then = h.then /\ h'.c = h.c
      BY <1>2, <3>1, <3>2 DEF OtherType, Handler
    <3>4. Locking'
      BY <1>1, <3>1, <3>2, <3>3 DEF IInv, Locking
    <3>5. Storing'
      BY <1>1, <3>3 DEF IInv, Storing, Echoed, Room, Minus
    <3> QED
      BY <1>3, <3>1, <3>2, <3>3, <3>4, <3>5
  <2> QED
    BY <2>1, <2>2, <2>3
<1>5. InputType' /\ ReaderType' /\ ReaderNotStranded' /\ Full'
  BY <1>1, <1>2, <1>4 DEF IInv, InputType, ReaderType, ReaderNotStranded, Full, Minus
<1>6. WriterType' /\ UartType' /\ OtherType'
  BY <1>1, <1>2, <1>4, Added DEF WriterType, UartType, OtherType, output
<1>7. Racing'
  BY <1>1, <1>2, <1>4, SMTT(60) DEF IInv, Racing, One, output, UartType, WriterType
<1>8. Printing'
  BY <1>1, <1>4 DEF IInv, Printing
<1> QED
  BY <1>4, <1>5, <1>6, <1>7, <1>8, TypePartsNext DEF IInv
\* A character of the line that is being edited is erased: what is committed stays.
LEMMA Erased ==
  ASSUME Sizes, IInv, Erasable, buf' = buf, r' = r, w' = w, e' = Minus(e, 1)
  PROVE  InputType' /\ Full'
<1>1. InputType /\ INPUT_BUF_SIZE \in Nat
  BY TypeParts DEF IInv, Sizes
<1>2. r \in 0..M-1 /\ w \in 0..M-1 /\ e \in 0..M-1
  BY <1>1 DEF InputType
<1>3. PICK a \in 0..M-1 : a = Minus(e, r) /\ (a = 0 <=> e = r)
  BY <1>2, MinusIs
<1>4. PICK b \in 0..M-1 : b = Minus(w, r) /\ (b = 0 <=> w = r)
  BY <1>2, MinusIs
<1>5. b <= a /\ a <= INPUT_BUF_SIZE
  BY <1>1, <1>3, <1>4 DEF InputType
<1>6. e # w
  BY DEF Erasable
<1>7. b # a
  <2>1. Minus(e, w) = a - b /\ (Minus(e, w) = 0 <=> e = w)
    <3>1. Minus(w, r) <= Minus(e, r)
      BY <1>3, <1>4, <1>5
    <3>2. Minus(e, w) = Minus(e, r) - Minus(w, r)
      BY <1>2, <3>1, Between
    <3> QED
      BY <1>2, <1>3, <1>4, <3>2, MinusIs
  <2> QED
    BY <1>5, <1>6, <2>1, SMTT(60)
<1>8. e # r
  BY <1>3, <1>4, <1>5, <1>7, SMTT(60)
<1>9. Minus(e, 1) \in 0..M-1 /\ Minus(Minus(e, 1), r) = a - 1
  BY <1>2, <1>3, <1>8, Back
<1>10. e' \in 0..M-1 /\ Minus(e', r) = a - 1 /\ Minus(w, r) = b
  BY <1>4, <1>9
<1>11. b <= a - 1 /\ a - 1 <= INPUT_BUF_SIZE /\ a - 1 # INPUT_BUF_SIZE
  BY <1>1, <1>5, <1>7, SMTT(60)
<1>12. Minus(e, r)' = Minus(e', r) /\ Minus(w, r)' = Minus(w, r)
  BY DEF Minus
<1> QED
  BY <1>1, <1>2, <1>10, <1>11, <1>12 DEF InputType, Full

\* The handler keeps or takes cons.lock, keeps it until the echo is out or
\* releases it, and erases or leaves the line alone.
LEMMA EditStep ==
  ASSUME Sizes, IInv, UNCHANGED <<buf, r, w, rd, output, pr, uart, todo>>,
         h' \in Handler, h.pc # "put", h'.pc # "put", Locking', Storing', lock' \in {"intr", "free"},
         e' = e \/ (Erasable /\ e' = Minus(e, 1))
  PROVE  IInv'
<1>1. /\ buf' = buf /\ r' = r /\ w' = w /\ rd' = rd /\ UNCHANGED output /\ pr' = pr
      /\ UNCHANGED uart /\ todo' = todo
  OBVIOUS
<1>2. InputType /\ ReaderType /\ WriterType /\ UartType /\ OtherType
  BY TypeParts DEF IInv
<1>3. InputType' /\ Full'
  <2>1. CASE e' = e
    BY <1>1, <1>2, <2>1 DEF IInv, InputType, Full, Minus
  <2>2. CASE Erasable /\ e' = Minus(e, 1)
    BY <1>1, <2>2, Erased
  <2> QED
    BY <2>1, <2>2
<1>4. ReaderType' /\ ReaderNotStranded'
  BY <1>1, <1>2 DEF IInv, ReaderType, ReaderNotStranded
<1>5. WriterType' /\ UartType' /\ OtherType'
  BY <1>1, <1>2 DEF WriterType, UartType, OtherType, output, uart
<1>6. Racing' /\ Printing'
  BY <1>1, SMTT(60) DEF IInv, Racing, One, Printing, output, uart
<1> QED
  BY <1>3, <1>4, <1>5, <1>6, TypePartsNext DEF IInv

\* The handler takes cons.lock, or it has nothing to do and releases it.
LEMMA ConsoleintrStep ==
  ASSUME Sizes, IInv, consoleintr
  PROVE  IInv'
<1>1. UNCHANGED <<buf, r, w, rd, output, pr, uart, todo>> /\ h.pc = "console" /\ lock = "free"
  BY DEF consoleintr
<1>2. h \in Handler
  BY TypeParts DEF IInv, OtherType
<1>3. ASSUME lock' = "intr", h'.pc \in {"kill", "spin", "procdump"}
      PROVE  Locking'
  BY <1>1, <1>3 DEF IInv, Locking, Sizes
<1>4. CASE h.c = "P" /\ lock' = "intr" /\ h' = [h EXCEPT !.pc = "procdump"] /\ e' = e
  <2>1. h' \in Handler /\ h'.pc = "procdump"
    BY <1>2, <1>4, HandlerType
  <2>2. Locking' /\ Storing'
    BY <1>3, <1>4, <2>1 DEF Storing, Echoed
  <2> QED
    BY <1>1, <1>4, <2>1, <2>2, EditStep
<1>5. CASE h.c = "U" /\ lock' = "intr" /\ h' = [h EXCEPT !.pc = "kill"] /\ e' = e
  <2>1. h' \in Handler /\ h'.pc = "kill"
    BY <1>2, <1>5, HandlerType
  <2>2. Locking' /\ Storing'
    BY <1>3, <1>5, <2>1 DEF Storing, Echoed
  <2> QED
    BY <1>1, <1>5, <2>1, <2>2, EditStep
<1>6. CASE Erasable /\ lock' = "intr" /\ Backspace("end")
  <2>1. e' = Minus(e, 1) /\ consputc(3, "end") /\ 3 \in 1..3
    BY <1>6, SMTT(60) DEF Backspace
  <2>2. h' \in Handler /\ h'.pc = "spin" /\ h'.then = "end"
    BY <1>2, <2>1, ConsputcType
  <2>3. Locking' /\ Storing'
    BY <1>3, <1>6, <2>2 DEF Storing, Echoed
  <2> QED
    BY <1>1, <1>6, <2>1, <2>2, <2>3, EditStep
<1>7. CASE h.c \notin {"P", "U", "H", "nul"} /\ Room /\ lock' = "intr" /\ consputc(1, "store") /\ e' = e
  <2>1. 1 \in 1..3
    BY SMTT(60)
  <2>2. h' \in Handler /\ h'.pc = "spin" /\ h'.c = h.c
    BY <1>2, <1>7, <2>1, ConsputcType
  <2>3. Locking' /\ Storing'
    BY <1>1, <1>3, <1>7, <2>2 DEF Storing, Room, Minus
  <2> QED
    BY <1>1, <1>7, <2>2, <2>3, EditStep
<1>8. CASE ConsoleEnd /\ e' = e
  <2>1. /\ h' \in Handler /\ h'.pc = "rx" /\ lock' = "free" /\ Locking' /\ Storing'
    BY <1>1, <1>8, ConsoleEndType
  <2> QED
    BY <1>1, <1>8, <2>1, EditStep
<1> QED
  BY <1>4, <1>5, <1>6, <1>7, <1>8 DEF consoleintr

\* ^U erases a character, or is done.
LEMMA KillLineStep ==
  ASSUME Sizes, IInv, kill_line
  PROVE  IInv'
<1>1. UNCHANGED <<buf, r, w, rd, output, pr, uart, todo>> /\ h.pc = "kill" /\ lock = "intr"
  BY DEF kill_line, IInv, Locking
<1>2. h \in Handler
  BY TypeParts DEF IInv, OtherType
<1>3. CASE Erasable /\ Backspace("kill") /\ lock' = lock
  <2>1. e' = Minus(e, 1) /\ consputc(3, "kill") /\ 3 \in 1..3
    BY <1>3, SMTT(60) DEF Backspace
  <2>2. h' \in Handler /\ h'.pc = "spin" /\ h'.then = "kill"
    BY <1>2, <2>1, ConsputcType
  <2>3. Locking' /\ Storing'
    BY <1>1, <1>3, <2>2 DEF IInv, Locking, Storing, Echoed
  <2> QED
    BY <1>1, <1>3, <2>1, <2>2, <2>3, EditStep
<1>4. CASE ConsoleEnd /\ e' = e
  <2>1. /\ h' \in Handler /\ h'.pc = "rx" /\ lock' = "free" /\ Locking' /\ Storing'
    BY <1>1, <1>4, ConsoleEndType
  <2> QED
    BY <1>1, <1>4, <2>1, EditStep
<1> QED
  BY <1>3, <1>4 DEF kill_line
\* A character is stored: there was room for it, and the last place is committed.
LEMMA StoreStep ==
  ASSUME Sizes, IInv, store
  PROVE  IInv'
<1> DEFINE c == IF h.c = "cr" THEN "nl" ELSE h.c
<1>1. /\ r' = r /\ UNCHANGED output /\ pr' = pr /\ UNCHANGED uart /\ todo' = todo
      /\ h.pc = "store" /\ ConsoleEnd /\ e' = (e + 1) % M
      /\ buf' = [buf EXCEPT ![e % INPUT_BUF_SIZE] = c]
      /\ IF Commits(c, Minus(e', r)) THEN w' = e' /\ rd' = WakeReaders ELSE w' = w /\ rd' = rd
  BY DEF store
<1>2. InputType /\ ReaderType /\ WriterType /\ UartType /\ OtherType
  BY TypeParts DEF IInv
<1>3. lock = "intr" /\ h.c \notin {"P", "U", "H", "nul"} /\ Minus(e, r) < INPUT_BUF_SIZE
  BY <1>1 DEF IInv, Locking, Storing, Echoed, Room
<1>4. c \in Stored
  <2>1. h.c \in Keys
    BY <1>2 DEF OtherType, Handler
  <2> QED
    BY <1>3, <2>1 DEF Stored, Keys
<1>5. /\ Minus(e, r)' = Minus(e, r) + 1 /\ Minus(e', r) = Minus(e, r) + 1
      /\ e' \in 0..M-1 /\ Minus(w, r) <= Minus(e, r) /\ Minus(w, r) \in 0..M-1
      /\ Minus(e, r) \in 0..M-1 /\ INPUT_BUF_SIZE \in Nat
  <2>1. Minus(e, r)' = Minus(e', r)
    BY <1>1 DEF Minus
  <2>2. r \in 0..M-1 /\ w \in 0..M-1 /\ e \in 0..M-1 /\ Minus(w, r) <= Minus(e, r)
    BY <1>2 DEF InputType
  <2>3. (e + 1) % M \in 0..M-1 /\ Minus((e + 1) % M, r) = Minus(e, r) + 1
    BY <1>3, <2>2, Forth
  <2>4. Minus(w, r) \in 0..M-1 /\ Minus(e, r) \in 0..M-1
    BY <2>2, MinusIs
  <2>5. INPUT_BUF_SIZE \in Nat
    BY DEF Sizes
  <2> QED
    BY <1>1, <2>1, <2>2, <2>3, <2>4, <2>5
<1> HIDE DEF c
<1>6. \A p \in Reader : rd[p] \in Call /\ rd[p].pc # "loop" /\ rd[p].pc # "sleep" /\ p # "intr"
  BY <1>2, <1>3 DEF ReaderType, IInv, Locking, Sizes
<1>7. /\ rd' \in [Reader -> Call]
      /\ \A p \in Reader : rd'[p].pc \notin {"loop", "sleep"}
      /\ (w' = w /\ rd' = rd) \/ \A p \in Reader : rd'[p].pc # "asleep"
  <2>1. CASE rd' = WakeReaders
    <3> DEFINE Woken(p) == IF rd[p].pc = "asleep" THEN [rd[p] EXCEPT !.pc = "acquire"] ELSE rd[p]
    <3>1. rd' = [p \in Reader |-> Woken(p)]
      BY <2>1 DEF WakeReaders
    <3>2. \A k \in Call : /\ [k EXCEPT !.pc = "acquire"] \in Call
                         /\ [k EXCEPT !.pc = "acquire"].pc = "acquire"
      BY SMTT(60) DEF Call
    <3>3. \A p \in Reader : Woken(p) \in Call /\ Woken(p).pc \notin {"loop", "sleep", "asleep"}
      BY <1>6, <3>2
    <3> HIDE DEF Woken
    <3> QED
      BY <3>1, <3>3
  <2>2. CASE w' = w /\ rd' = rd
    BY <1>2, <1>6, <2>2 DEF ReaderType
  <2> QED
    BY <1>1, <2>1, <2>2
<1>8. h' \in Handler /\ h'.pc = "rx" /\ lock' = "free" /\ Locking' /\ Storing'
  BY <1>1, <1>3, <1>6, <1>7, ConsoleEndType
<1>9. ReaderType' /\ ReaderNotStranded'
  BY <1>1, <1>7, <1>8 DEF IInv, ReaderType, ReaderNotStranded
<1>10. InputType' /\ Full'
  <2>1. buf' \in [0..INPUT_BUF_SIZE-1 -> Stored \cup {"nul"}]
    BY <1>1, <1>2, <1>4 DEF InputType
  <2>2. CASE w' = e'
    <3>1. Minus(w, r)' = Minus(e, r)'
      BY <2>2 DEF Minus
    <3>2. Minus(e, r)' <= INPUT_BUF_SIZE /\ Minus(w, r)' <= Minus(e, r)'
      BY <1>3, <1>5, <3>1, SMTT(60)
    <3> QED
      BY <1>1, <1>2, <1>5, <2>1, <2>2, <3>2 DEF InputType, Full
  <2>3. CASE w' = w /\ ~Commits(c, Minus(e', r))
    <3>1. Minus(w, r)' = Minus(w, r)
      BY <1>1, <2>3 DEF Minus
    <3>2. Minus(e, r)' # INPUT_BUF_SIZE
      BY <1>5, <2>3 DEF Commits
    <3>3. Minus(e, r)' <= INPUT_BUF_SIZE /\ Minus(w, r)' <= Minus(e, r)'
      BY <1>3, <1>5, <3>1, SMTT(60)
    <3> QED
      BY <1>1, <1>2, <1>5, <2>1, <2>3, <3>2, <3>3 DEF InputType, Full
  <2> QED
    BY <1>1, <2>2, <2>3
<1>11. WriterType' /\ UartType' /\ OtherType'
  BY <1>1, <1>2, <1>8 DEF WriterType, UartType, OtherType, output, uart
<1>12. Racing' /\ Printing'
  BY <1>1, <1>8 DEF IInv, Racing, One, Printing, output, uart
<1> QED
  BY <1>8, <1>9, <1>10, <1>11, <1>12, TypePartsNext DEF IInv
-----------------------------------------------------------------------------
(* The readers                                                             *)

\* A reader moves: it takes or releases cons.lock or leaves it alone, sleeps only
\* when there is nothing to read, and reads only under cons.lock.
LEMMA ReaderMoves ==
  ASSUME Sizes, IInv, NEW p \in Reader,
         UNCHANGED <<buf, w, e, output, pr, h, uart>>,
         todo' \in Load, todo'.prints = todo.prints,
         rd' \in [Reader -> Call], \A q \in Reader : q # p => rd'[q] = rd[q],
         lock' = p <=> rd'[p].pc \in {"loop", "sleep"},
         lock' = lock \/ (lock = "free" /\ lock' = p) \/ (lock = p /\ lock' = "free"),
         rd'[p].pc \in {"sleep", "asleep"} => r = w /\ r' = r,
         r' = r \/ (lock = p /\ r # w /\ InputType' /\ Full')
  PROVE  IInv'
<1>1. /\ buf' = buf /\ w' = w /\ e' = e /\ UNCHANGED output /\ pr' = pr /\ h' = h /\ UNCHANGED uart
  OBVIOUS
<1>2. InputType /\ ReaderType /\ WriterType /\ UartType /\ OtherType
  BY TypeParts DEF IInv
<1>3. InputType' /\ Full'
  <2>1. CASE r' = r
    BY <1>1, <1>2, <2>1 DEF IInv, InputType, Full, Minus
  <2> QED
    BY <2>1
<1>4. ReaderType'
  BY <1>2 DEF ReaderType
<1>5. Locking'
  <2>1. \A q \in Reader : lock' = q <=> rd'[q].pc \in {"loop", "sleep"}
    <3> SUFFICES ASSUME NEW q \in Reader, q # p
                 PROVE  lock' = q <=> rd'[q].pc \in {"loop", "sleep"}
      OBVIOUS
    <3>1. lock' = q <=> lock = q
      BY DEF Sizes
    <3> QED
      BY <3>1 DEF IInv, Locking
  <2>2. lock' = "intr" <=> lock = "intr"
    BY DEF Sizes
  <2> QED
    BY <1>1, <2>1, <2>2 DEF IInv, Locking
<1>6. Storing'
  <2>1. CASE r' = r
    BY <1>1, <2>1 DEF IInv, Storing, Echoed, Room, Minus
  <2>2. CASE lock = p
    BY <1>1, <2>2 DEF IInv, Locking, Storing, Echoed, Sizes
  <2> QED
    BY <2>1, <2>2
<1>7. ReaderNotStranded'
  BY <1>1 DEF IInv, ReaderNotStranded
<1>8. WriterType' /\ UartType' /\ OtherType'
  BY <1>1, <1>2 DEF WriterType, UartType, OtherType, output, uart
<1>9. Racing'
  <2>1. fifo' = fifo /\ tx_busy' = tx_busy /\ pr' = pr /\ h' = h
    BY <1>1 DEF output, uart
  <2> QED
    BY <2>1 DEF IInv, Racing, One
<1>10. Printing'
  BY <1>1 DEF IInv, Printing
<1> QED
  BY <1>3, <1>4, <1>5, <1>6, <1>7, <1>8, <1>9, <1>10, TypePartsNext DEF IInv

\* What a reader's record may become.
LEMMA CallType ==
  ASSUME Sizes, ReaderType, NEW p \in Reader
  PROVE  /\ \A q \in {"acquire", "loop", "sleep", "asleep"} :
              /\ [rd EXCEPT ![p].pc = q] \in [Reader -> Call]
              /\ [rd EXCEPT ![p].pc = q][p].pc = q
         /\ ReadReturn(p) => rd' \in [Reader -> Call] /\ rd'[p].pc = "idle"
<1>1. rd \in [Reader -> Call] /\ rd[p] \in Call
  BY DEF ReaderType
<1>2. ASSUME NEW q \in {"acquire", "loop", "sleep", "asleep"}
      PROVE  /\ [rd EXCEPT ![p].pc = q] \in [Reader -> Call]
             /\ [rd EXCEPT ![p].pc = q][p].pc = q
  BY <1>1, SMTT(60) DEF Call
<1>3. ASSUME ReadReturn(p)
      PROVE  rd' \in [Reader -> Call] /\ rd'[p].pc = "idle"
  <2>1. 0 \in 0..MaxN
    BY SMTT(60) DEF Sizes
  <2>2. /\ [NoCall EXCEPT !.killed = rd[p].killed] \in Call
        /\ [NoCall EXCEPT !.killed = rd[p].killed].pc = "idle"
    BY <1>1, <2>1 DEF NoCall, Call
  <2> QED
    BY <1>1, <1>3, <2>2 DEF ReadReturn
<1> QED
  BY <1>2, <1>3
\* A character is read: what is left is one less.
LEMMA Taken ==
  ASSUME Sizes, IInv, r # w, buf' = buf, w' = w, e' = e, r' = (r + 1) % M
  PROVE  InputType' /\ Full'
<1>1. InputType /\ INPUT_BUF_SIZE \in Nat
  BY TypeParts DEF IInv, Sizes
<1>2. r \in 0..M-1 /\ w \in 0..M-1 /\ e \in 0..M-1
  BY <1>1 DEF InputType
<1>3. PICK a \in 0..M-1 : a = Minus(e, r) /\ (a = 0 <=> e = r)
  BY <1>2, MinusIs
<1>4. PICK b \in 0..M-1 : b = Minus(w, r) /\ (b = 0 <=> w = r)
  BY <1>2, MinusIs
<1>5. b <= a /\ a <= INPUT_BUF_SIZE
  BY <1>1, <1>3, <1>4 DEF InputType
<1>6. e # r
  BY <1>3, <1>4, <1>5, SMTT(60)
<1>7. r' \in 0..M-1 /\ Minus(e, (r + 1) % M) = a - 1 /\ Minus(w, (r + 1) % M) = b - 1
  BY <1>2, <1>3, <1>4, <1>6, Forth
<1>8. Minus(e, r)' = a - 1 /\ Minus(w, r)' = b - 1
  BY <1>7 DEF Minus
<1>9. b - 1 <= a - 1 /\ a - 1 <= INPUT_BUF_SIZE /\ a - 1 # INPUT_BUF_SIZE
  BY <1>1, <1>5, SMTT(60)
<1> QED
  BY <1>1, <1>2, <1>7, <1>8, <1>9 DEF InputType, Full

\* A read begins, outside of cons.lock.
LEMMA ConsolereadStep ==
  ASSUME Sizes, IInv, NEW p \in Reader, NEW n \in 1..MaxN, consoleread(p, n)
  PROVE  IInv'
<1>1. /\ UNCHANGED <<buf, w, e, output, pr, h, uart>> /\ r' = r /\ lock' = lock
      /\ rd[p].pc = "idle"
      /\ rd' = [rd EXCEPT ![p].pc = "acquire", ![p].n = n, ![p].target = n]
      /\ todo' = [todo EXCEPT !.reads = @ - 1] /\ todo.reads > 0
  BY DEF consoleread
<1>2. ReaderType /\ todo \in Load
  BY TypeParts DEF IInv, OtherType
<1>3. todo' \in Load /\ todo'.prints = todo.prints
  BY <1>1, <1>2, SMTT(60) DEF Load
<1>4. n \in 0..MaxN
  BY SMTT(60) DEF Sizes
<1>5. /\ rd' \in [Reader -> Call] /\ rd'[p].pc = "acquire"
      /\ \A q \in Reader : q # p => rd'[q] = rd[q]
  <2>1. rd[p] \in Call /\ rd \in [Reader -> Call]
    BY <1>2 DEF ReaderType
  <2>2. rd'[p] = [rd[p] EXCEPT !.pc = "acquire", !.n = n, !.target = n]
    BY <1>1, <2>1
  <2>3. rd'[p].pc = "acquire"
    BY <2>1, <2>2 DEF Call
  <2>4. rd' \in [Reader -> Call]
    BY <1>1, <1>4, <2>1 DEF Call
  <2> QED
    BY <1>1, <2>1, <2>3, <2>4
<1>6. lock' # p
  BY <1>1 DEF IInv, Locking
<1> QED
  BY <1>1, <1>3, <1>5, <1>6, ReaderMoves

\* A reader takes cons.lock when it is free.
LEMMA ReadAcquireStep ==
  ASSUME Sizes, IInv, NEW p \in Reader, read_acquire(p)
  PROVE  IInv'
<1>1. /\ UNCHANGED <<buf, w, e, output, pr, h, uart>> /\ r' = r /\ lock = "free" /\ lock' = p
      /\ rd' = [rd EXCEPT ![p].pc = "loop"] /\ todo' = todo
  BY DEF read_acquire
<1>2. ReaderType /\ todo \in Load
  BY TypeParts DEF IInv, OtherType
<1>3. /\ rd' \in [Reader -> Call] /\ rd'[p].pc = "loop"
      /\ \A q \in Reader : q # p => rd'[q] = rd[q]
  BY <1>1, <1>2, CallType DEF ReaderType
<1> QED
  BY <1>1, <1>2, <1>3, ReaderMoves

\* A return releases cons.lock.
LEMMA ReturnMoves ==
  ASSUME Sizes, IInv, NEW p \in Reader, ReadReturn(p), rd[p].pc = "loop",
         UNCHANGED <<buf, w, e, output, pr, h, uart, todo>>,
         r' = r \/ (r # w /\ r' = (r + 1) % M)
  PROVE  IInv'
<1>1. ReaderType /\ todo \in Load
  BY TypeParts DEF IInv, OtherType
<1>2. lock = p /\ lock' = "free"
  BY DEF IInv, Locking, ReadReturn
<1>3. /\ rd' \in [Reader -> Call] /\ rd'[p].pc = "idle"
      /\ \A q \in Reader : q # p => rd'[q] = rd[q]
  BY <1>1, CallType DEF ReadReturn, ReaderType
<1>4. r' = r \/ (r # w /\ InputType' /\ Full')
  BY Taken
<1> QED
  BY <1>1, <1>2, <1>3, <1>4, ReaderMoves DEF Sizes

\* A reader that finds nothing goes to sleep or returns.
LEMMA ReadWaitStep ==
  ASSUME Sizes, IInv, NEW p \in Reader, read_wait(p)
  PROVE  IInv'
<1>1. /\ UNCHANGED <<buf, w, e, output, pr, h, uart, todo>> /\ r' = r /\ r = w
      /\ rd[p].pc = "loop"
  BY DEF read_wait
<1>2. CASE ReadReturn(p)
  BY <1>1, <1>2, ReturnMoves
<1>3. CASE rd' = [rd EXCEPT ![p].pc = "sleep"] /\ lock' = lock
  <2>1. ReaderType /\ todo \in Load
    BY TypeParts DEF IInv, OtherType
  <2>2. /\ rd' \in [Reader -> Call] /\ rd'[p].pc = "sleep"
        /\ \A q \in Reader : q # p => rd'[q] = rd[q]
    BY <1>3, <2>1, CallType DEF ReaderType
  <2>3. lock = p
    BY <1>1 DEF IInv, Locking
  <2> QED
    BY <1>1, <1>3, <2>1, <2>2, <2>3, ReaderMoves
<1> QED
  BY <1>2, <1>3 DEF read_wait

\* sleep releases cons.lock; there is still nothing to read.
LEMMA ReadSleepStep ==
  ASSUME Sizes, IInv, NEW p \in Reader, read_sleep(p)
  PROVE  IInv'
<1>1. /\ UNCHANGED <<buf, w, e, output, pr, h, uart, todo>> /\ r' = r /\ lock' = "free"
      /\ rd[p].pc = "sleep" /\ rd' = [rd EXCEPT ![p].pc = "asleep"]
  BY DEF read_sleep
<1>2. ReaderType /\ todo \in Load
  BY TypeParts DEF IInv, OtherType
<1>3. /\ rd' \in [Reader -> Call] /\ rd'[p].pc = "asleep"
      /\ \A q \in Reader : q # p => rd'[q] = rd[q]
  BY <1>1, <1>2, CallType DEF ReaderType
<1>4. lock = p /\ r = w /\ lock' # p
  BY <1>1 DEF IInv, Locking, ReaderNotStranded, Sizes
<1> QED
  BY <1>1, <1>2, <1>3, <1>4, ReaderMoves
\* A reader takes a character, or leaves ^D for the next read.
LEMMA ReadCharStep ==
  ASSUME Sizes, IInv, NEW p \in Reader, read_char(p)
  PROVE  IInv'
<1>1. /\ UNCHANGED <<buf, w, e, output, pr, h, uart, todo>> /\ r # w
      /\ rd[p].pc = "loop" /\ rd[p].n > 0
      /\ r' = r \/ r' = (r + 1) % M
  BY DEF read_char
<1>2. CASE ReadReturn(p)
  BY <1>1, <1>2, ReturnMoves
<1>3. CASE rd' = [rd EXCEPT ![p].n = @ - 1] /\ lock' = lock
  <2>1. ReaderType /\ todo \in Load
    BY TypeParts DEF IInv, OtherType
  <2>2. rd[p] \in Call /\ rd \in [Reader -> Call] /\ rd[p].n \in 0..MaxN
    BY <2>1 DEF ReaderType, Call
  <2>3. rd[p].n - 1 \in 0..MaxN
    BY <1>1, <2>2, SMTT(60) DEF Sizes
  <2>4. rd' \in [Reader -> Call]
    BY <1>3, <2>2, <2>3 DEF Call
  <2>5. rd'[p].pc = "loop"
    <3>1. rd'[p] = [rd[p] EXCEPT !.n = rd[p].n - 1]
      BY <1>3, <2>2
    <3> QED
      BY <1>1, <2>2, <3>1 DEF Call
  <2>6. /\ rd' \in [Reader -> Call] /\ rd'[p].pc = "loop"
        /\ \A q \in Reader : q # p => rd'[q] = rd[q]
    BY <1>3, <2>2, <2>4, <2>5
  <2>7. lock = p
    BY <1>1 DEF IInv, Locking
  <2>8. r' = r \/ (InputType' /\ Full')
    BY <1>1, Taken
  <2> QED
    BY <1>1, <1>3, <2>1, <2>6, <2>7, <2>8, ReaderMoves
<1> QED
  BY <1>2, <1>3 DEF read_char

\* A read that has all its characters returns.
LEMMA ReadReturnStep ==
  ASSUME Sizes, IInv, NEW p \in Reader, read_return(p)
  PROVE  IInv'
<1>1. /\ UNCHANGED <<buf, w, e, output, pr, h, uart, todo>> /\ r' = r
      /\ rd[p].pc = "loop" /\ ReadReturn(p)
  BY DEF read_return
<1> QED
  BY <1>1, ReturnMoves

\* A killed sleeper is woken.
LEMMA KillStep ==
  ASSUME Sizes, IInv, NEW p \in Reader, kill(p)
  PROVE  IInv'
<1> DEFINE q == IF rd[p].pc = "asleep" THEN "acquire" ELSE rd[p].pc
<1>1. /\ UNCHANGED <<buf, w, e, output, pr, h, uart, todo>> /\ r' = r /\ lock' = lock
      /\ rd' = [rd EXCEPT ![p].killed = TRUE, ![p].pc = IF @ = "asleep" THEN "acquire" ELSE @]
  BY DEF kill
<1>2. ReaderType /\ todo \in Load
  BY TypeParts DEF IInv, OtherType
<1>3. rd[p] \in Call /\ rd \in [Reader -> Call]
  BY <1>2 DEF ReaderType
<1>4. /\ rd'[p] = [rd[p] EXCEPT !.killed = TRUE, !.pc = q]
      /\ \A s \in Reader : s # p => rd'[s] = rd[s]
  BY <1>1, <1>3 DEF Call
<1>5. q \in {"idle", "acquire", "loop", "sleep", "asleep"}
  BY <1>3 DEF Call
<1>6. /\ q \in {"loop", "sleep"} <=> rd[p].pc \in {"loop", "sleep"}
      /\ q \in {"sleep", "asleep"} => rd[p].pc \in {"sleep", "asleep"}
  OBVIOUS
<1> HIDE DEF q
<1>7. rd'[p] \in Call /\ rd'[p].pc = q
  BY <1>3, <1>4, <1>5 DEF Call
<1>8. /\ rd' \in [Reader -> Call] /\ rd'[p].pc = q
      /\ \A s \in Reader : s # p => rd'[s] = rd[s]
  BY <1>1, <1>3, <1>4, <1>7
<1>9. lock' = p <=> rd'[p].pc \in {"loop", "sleep"}
  BY <1>1, <1>6, <1>8 DEF IInv, Locking
<1>10. rd'[p].pc \in {"sleep", "asleep"} => r = w /\ r' = r
  BY <1>1, <1>6, <1>8 DEF IInv, ReaderNotStranded
<1> QED
  BY <1>1, <1>2, <1>8, <1>9, <1>10, ReaderMoves

-----------------------------------------------------------------------------
(* Safety                                                                  *)

\* The invariant holds at first.
LEMMA InitIInv == ASSUME Sizes, Init PROVE IInv
<1>1. INPUT_BUF_SIZE \in Nat \ {0} /\ M \in Nat /\ Start \in 0..M-1 /\ 0 \in 0..MaxN /\ 0 \in 0..3
  BY SMTT(60) DEF Sizes
<1>2. Minus(Start, Start) = 0
  BY <1>1, MinusIs
<1>3. Minus(e, r) = 0 /\ Minus(w, r) = 0 /\ 0 <= INPUT_BUF_SIZE /\ 0 <= 0 /\ 0 # INPUT_BUF_SIZE
  BY <1>1, <1>2, SMTT(60) DEF Init
<1>4. InputType
  BY <1>1, <1>3 DEF Init, InputType
<1>5. NoCall \in Call /\ NoCall.pc = "idle" /\ Off \in Handler /\ Off.pc = "off"
  BY <1>1, SMTT(60) DEF NoCall, Call, Off, Handler, Keys
<1>6. ReaderType
  BY <1>5 DEF Init, ReaderType
<1>7. WriterType
  BY <1>1 DEF Init, WriterType
<1>8. UartType
  <2>1. 0 \in Nat /\ <<>> \in Seq(Keys)
    BY SMTT(60)
  <2> QED
    BY <2>1 DEF Init, UartType
<1>9. OtherType
  BY <1>5 DEF Init, OtherType, Sizes, Load
<1>10. \A p \in Reader : rd[p].pc = "idle"
  BY <1>5 DEF Init
<1>11. Locking /\ Storing /\ ReaderNotStranded /\ Printing
  BY <1>5, <1>10 DEF Init, Locking, Storing, Echoed, ReaderNotStranded, Printing, Sizes
<1>12. Full
  BY <1>3 DEF Full
<1>13. Racing
  BY <1>5, SMTT(60) DEF Init, Racing, One
<1> QED
  BY <1>4, <1>6, <1>7, <1>8, <1>9, <1>11, <1>12, <1>13, TypeParts DEF IInv

\* It holds after a step that changes nothing.
LEMMA StutterIInv == ASSUME IInv, UNCHANGED vars PROVE IInv'
<1>1. /\ UNCHANGED input /\ UNCHANGED h /\ UNCHANGED output /\ UNCHANGED uart
      /\ pr' = pr /\ todo' = todo
  BY DEF vars
<1>2. WriterType' /\ UartType' /\ OtherType'
  BY <1>1, TypeParts DEF IInv, WriterType, UartType, OtherType, output, uart
<1>3. Racing' /\ Printing'
  BY <1>1 DEF IInv, Racing, One, Printing, output, uart
<1> QED
  BY <1>1, <1>2, <1>3, SameInput, SameHandler, TypePartsNext DEF IInv

\* It holds after every step.
LEMMA NextIInv == ASSUME Sizes, IInv, [Next]_vars PROVE IInv'
<1>1. CASE handling
  BY <1>1, UartintrStep, TxDoneStep, UartgetcStep, ConsoleintrStep, KillLineStep, ProcdumpStep,
     EchoSpinStep, EchoPutStep, StoreStep DEF handling
<1>2. CASE printing \/ printf
  BY <1>2, PrintStep DEF printing
<1>3. ASSUME NEW p \in Reader, reading(p) \/ kill(p) \/ \E n \in 1..MaxN : consoleread(p, n)
      PROVE  IInv'
  BY <1>3, ReadAcquireStep, ReadWaitStep, ReadSleepStep, ReadCharStep, ReadReturnStep, KillStep,
     ConsolereadStep DEF reading
<1>4. ASSUME NEW p \in Writer, uartwrite(p) \/ \E n \in 1..MaxN : consolewrite(p, n)
      PROVE  IInv'
  BY <1>4, UartwriteStep, ConsolewriteStep
<1>5. CASE quiet \/ UNCHANGED vars
  BY <1>5, StutterIInv DEF quiet
<1> QED
  BY <1>1, <1>2, <1>3, <1>4, <1>5, TransmitStep, ReceiveStep DEF Next

\* Input that consoleintr takes reaches the reader and the FIFO of the UART never
\* holds more than three characters (consoleread, consoleintr, uartputc_sync).
THEOREM ConsoleIsSafe == Spec => []ConsoleSafe
<1>1. Init => IInv
  BY ConsoleAssumption, InitIInv
<1>2. IInv /\ [Next]_vars => IInv'
  BY ConsoleAssumption, NextIInv
<1>3. IInv => ConsoleSafe
  <2> SUFFICES ASSUME IInv PROVE FifoBounded
    BY DEF IInv, ConsoleSafe, Full, FullIsReadable
  <2>1. fifo \in Nat /\ Racing
    BY DEF IInv, TypeOK
  <2> QED
    BY <2>1, SMTT(60) DEF Racing, One, FifoBounded
<1> QED
  BY <1>1, <1>2, <1>3, PTL DEF Spec
-----------------------------------------------------------------------------
(* Parts of the buffer as sequences                                        *)

\* Sequences that agree element by element.
LEMMA SameSeq ==
  ASSUME NEW S, NEW s \in Seq(S), NEW t \in Seq(S), Len(s) = Len(t),
         \A k \in 1..Len(s) : s[k] = t[k]
  PROVE  s = t
BY SMTT(60)

\* The characters of the buffer.
Chars == Stored \cup {"nul"}

\* n characters of the buffer f from index x on.
Part(f, n, x) == [k \in 1..n |-> f[(x + k - 1) % INPUT_BUF_SIZE]]

\* The sequence s is this part.
IsPart(s, f, n, x) ==
  s \in Seq(Chars) /\ Len(s) = n /\ \A k \in 1..n : s[k] = f[(x + k - 1) % INPUT_BUF_SIZE]

\* The places of the buffer.
LEMMA PlaceIn ==
  ASSUME Sizes, NEW x \in Nat, NEW k \in Nat, k > 0
  PROVE  (x + k - 1) % INPUT_BUF_SIZE \in 0..INPUT_BUF_SIZE-1
<1>1. x + k - 1 \in Nat /\ RingSizes(INPUT_BUF_SIZE, M)
  BY SMTT(60) DEF Sizes, RingSizes
<1> QED
  BY <1>1, SamePlace

\* A part has its length and its characters.
LEMMA PartIs ==
  ASSUME Sizes, NEW f \in [0..INPUT_BUF_SIZE-1 -> Chars], NEW n \in Nat, NEW x \in Nat
  PROVE  IsPart(Part(f, n, x), f, n, x)
<1>1. ASSUME NEW k \in 1..n PROVE f[(x + k - 1) % INPUT_BUF_SIZE] \in Chars
  <2>1. k \in Nat /\ k > 0
    BY SMTT(60)
  <2> QED
    BY <2>1, PlaceIn
<1>2. Part(f, n, x) \in [1..n -> Chars]
  BY <1>1 DEF Part
<1>3. Part(f, n, x) \in Seq(Chars) /\ Len(Part(f, n, x)) = n
  <2> HIDE DEF Part
  <2> QED
    BY <1>2, SMTT(60)
<1> QED
  BY <1>3 DEF Part, IsPart

\* The first character is taken off.
LEMMA PartTail ==
  ASSUME Sizes, NEW f \in [0..INPUT_BUF_SIZE-1 -> Chars], NEW n \in Nat \ {0}, NEW x \in 0..M-1
  PROVE  /\ Part(f, n, x) # <<>>
         /\ Tail(Part(f, n, x)) = Part(f, n - 1, (x + 1) % M)
<1> DEFINE y == (x + 1) % M
<1>1. RingSizes(INPUT_BUF_SIZE, M) /\ M \in Nat \ {0} /\ x \in Nat /\ n \in Nat /\ n - 1 \in Nat
  BY SMTT(60) DEF Sizes, RingSizes
<1>2. y \in 0..M-1 /\ y \in Nat
  <2>1. y \in 0..M-1
    BY <1>1, StepIs
  <2> QED
    BY <1>1, <2>1, SMTT(60)
<1>3. \A k \in Nat : (y + k) % INPUT_BUF_SIZE = (x + (k + 1)) % INPUT_BUF_SIZE
  BY <1>1, PlacesAre
<1> HIDE DEF y
<1> DEFINE s == Part(f, n, x)
<1>4. IsPart(s, f, n, x)
  BY <1>1, PartIs
<1> DEFINE t == Part(f, n - 1, y)
<1>5. IsPart(t, f, n - 1, y)
  BY <1>1, <1>2, PartIs
<1> HIDE DEF s, t
<1>6. /\ s # <<>> /\ Tail(s) \in Seq(Chars) /\ Len(Tail(s)) = n - 1
      /\ \A k \in 1..n-1 : Tail(s)[k] = s[k + 1]
  BY <1>4, SMTT(60) DEF IsPart
<1>7. ASSUME NEW k \in 1..n-1 PROVE Tail(s)[k] = t[k]
  <2>1. /\ k - 1 \in Nat /\ k + 1 \in 1..n
        /\ (x + (k + 1) - 1) = x + ((k - 1) + 1) /\ y + k - 1 = y + (k - 1)
    BY <1>1, <1>2, SMTT(60)
  <2>2. t[k] = f[(x + ((k - 1) + 1)) % INPUT_BUF_SIZE]
    BY <1>3, <1>5, <2>1 DEF IsPart
  <2> QED
    BY <1>4, <1>6, <2>1, <2>2 DEF IsPart
<1>8. Tail(s) = t
  BY <1>5, <1>6, <1>7, SameSeq DEF IsPart
<1> QED
  BY <1>4, <1>5, <1>6, <1>8 DEF s, t, y

\* The last character is taken off.
LEMMA PartFront ==
  ASSUME Sizes, NEW f \in [0..INPUT_BUF_SIZE-1 -> Chars], NEW n \in Nat \ {0}, NEW x \in Nat
  PROVE  /\ Part(f, n, x) # <<>>
         /\ SubSeq(Part(f, n, x), 1, Len(Part(f, n, x)) - 1) = Part(f, n - 1, x)
<1>1. n \in Nat /\ n - 1 \in Nat
  BY SMTT(60)
<1> DEFINE s == Part(f, n, x)
<1>2. IsPart(s, f, n, x)
  BY <1>1, PartIs
<1> DEFINE t == Part(f, n - 1, x)
<1>3. IsPart(t, f, n - 1, x)
  BY <1>1, PartIs
<1> HIDE DEF s, t
<1>4. /\ s # <<>> /\ SubSeq(s, 1, n - 1) \in Seq(Chars) /\ Len(SubSeq(s, 1, n - 1)) = n - 1
      /\ \A k \in 1..n-1 : SubSeq(s, 1, n - 1)[k] = s[k] /\ k \in 1..n
  BY <1>1, <1>2, SMTT(60) DEF IsPart
<1>5. SubSeq(s, 1, n - 1) = t
  <2>1. t \in Seq(Chars) /\ Len(t) = n - 1 /\ \A k \in 1..n-1 : SubSeq(s, 1, n - 1)[k] = t[k]
    BY <1>2, <1>3, <1>4 DEF IsPart
  <2> QED
    BY <1>4, <2>1, SameSeq
<1>6. Len(s) = n
  BY <1>2 DEF IsPart
<1> QED
  BY <1>4, <1>5, <1>6 DEF s, t

\* A character is added, at the place after the last.
LEMMA PartAppend ==
  ASSUME Sizes, NEW f \in [0..INPUT_BUF_SIZE-1 -> Chars], NEW n \in Nat, NEW x \in Nat
  PROVE  Append(Part(f, n, x), f[(x + n) % INPUT_BUF_SIZE]) = Part(f, n + 1, x)
<1>1. n + 1 \in Nat /\ x + (n + 1) - 1 = x + n
  BY SMTT(60)
<1> DEFINE s == Part(f, n, x)
<1>2. IsPart(s, f, n, x)
  BY PartIs
<1> DEFINE t == Part(f, n + 1, x)
<1>3. IsPart(t, f, n + 1, x)
  BY <1>1, PartIs
<1> HIDE DEF s, t
<1>4. n + 1 > 0
  BY SMTT(60)
<1>5. PICK c \in Chars : c = f[(x + n) % INPUT_BUF_SIZE]
  BY <1>1, <1>4, PlaceIn
<1>6. /\ Append(s, c) \in Seq(Chars) /\ Len(Append(s, c)) = n + 1
      /\ \A k \in 1..n : Append(s, c)[k] = s[k]
      /\ Append(s, c)[n + 1] = c
      /\ \A k \in 1..n+1 : k \in 1..n \/ k = n + 1
  BY <1>2, <1>5, SMTT(60) DEF IsPart
<1>7. ASSUME NEW k \in 1..n+1 PROVE Append(s, c)[k] = t[k]
  <2>1. CASE k \in 1..n
    BY <1>2, <1>3, <1>6, <2>1 DEF IsPart
  <2>2. CASE k = n + 1
    BY <1>1, <1>3, <1>5, <1>6, <2>2 DEF IsPart
  <2> QED
    BY <1>6, <2>1, <2>2
<1>8. Append(s, c) = t
  BY <1>3, <1>6, <1>7, SameSeq DEF IsPart
<1> QED
  BY <1>5, <1>8 DEF s, t

\* Index y is n places after index x.
Follows(y, x, n) ==
  \A j \in Nat : (y + j) % INPUT_BUF_SIZE = (x + n + j) % INPUT_BUF_SIZE

\* Two parts, one after the other.
Joined(f, n, x, m, y) == Part(f, n, x) \o Part(f, m, y) = Part(f, n + m, x)

\* A part that follows another one makes a longer part with it.
LEMMA PartConcat ==
  ASSUME Sizes, NEW f \in [0..INPUT_BUF_SIZE-1 -> Chars], NEW n \in Nat, NEW m \in Nat,
         NEW x \in Nat, NEW y \in Nat, Follows(y, x, n)
  PROVE  Joined(f, n, x, m, y)
<1>1. n + m \in Nat
  BY SMTT(60)
<1> DEFINE s == Part(f, n, x)
<1>2. IsPart(s, f, n, x)
  BY PartIs
<1> DEFINE t == Part(f, m, y)
<1>3. IsPart(t, f, m, y)
  BY PartIs
<1> DEFINE u == Part(f, n + m, x)
<1>4. IsPart(u, f, n + m, x)
  BY <1>1, PartIs
<1> HIDE DEF s, t, u
<1>5. /\ s \o t \in Seq(Chars) /\ Len(s \o t) = n + m
      /\ \A k \in 1..n : (s \o t)[k] = s[k]
      /\ \A k \in 1..m : (s \o t)[n + k] = t[k]
  <2>1. s \in Seq(Chars) /\ t \in Seq(Chars) /\ Len(s) = n /\ Len(t) = m
    BY <1>2, <1>3 DEF IsPart
  <2>2. s \o t \in Seq(Chars) /\ Len(s \o t) = n + m
    BY <2>1, SMTT(60)
  <2>3. \A k \in 1..n : (s \o t)[k] = s[k]
    BY <2>1, SMTT(60)
  <2>4. \A k \in 1..m : (s \o t)[n + k] = t[k]
    BY <2>1, SMTT(60)
  <2> QED
    BY <2>2, <2>3, <2>4
<1>6. ASSUME NEW k \in 1..n+m PROVE (s \o t)[k] = u[k]
  <2>1. CASE k \in 1..n
    BY <1>2, <1>4, <1>5, <2>1 DEF IsPart
  <2>2. CASE k \notin 1..n
    <3>1. k - n \in 1..m /\ n + (k - n) = k /\ k - n - 1 \in Nat
      BY <2>2, SMTT(60)
    <3>2. y + (k - n) - 1 = y + (k - n - 1) /\ x + n + (k - n - 1) = x + k - 1
      BY <3>1, SMTT(60)
    <3>3. t[k - n] = f[(x + k - 1) % INPUT_BUF_SIZE]
      BY <1>3, <3>1, <3>2 DEF IsPart, Follows
    <3> QED
      BY <1>4, <1>5, <3>1, <3>3 DEF IsPart
  <2> QED
    BY <2>1, <2>2
<1>7. s \o t = u
  BY <1>4, <1>5, <1>6, SameSeq DEF IsPart
<1> QED
  BY <1>7 DEF s, t, u, Joined

\* A write to a place behind a part leaves it alone.
Untouched(f, n, x, i, c) == Part(Put(f, (x + i) % INPUT_BUF_SIZE, c), n, x) = Part(f, n, x)

\* The write leaves the part as it was.
LEMMA PartFrame ==
  ASSUME Sizes, NEW f \in [0..INPUT_BUF_SIZE-1 -> Chars], NEW n \in Nat, NEW x \in 0..M-1,
         NEW i \in 0..INPUT_BUF_SIZE-1, n <= i, NEW c \in Chars
  PROVE  Untouched(f, n, x, i, c)
<1> DEFINE g == Put(f, (x + i) % INPUT_BUF_SIZE, c)
<1>1. RingSizes(INPUT_BUF_SIZE, M) /\ x \in Nat /\ INPUT_BUF_SIZE \in Nat
  BY SMTT(60) DEF Sizes, RingSizes
<1>2. Apart(x, INPUT_BUF_SIZE)
  BY <1>1, PlacesAre
<1>3. ASSUME NEW k \in 1..n
      PROVE  g[(x + k - 1) % INPUT_BUF_SIZE] = f[(x + k - 1) % INPUT_BUF_SIZE]
  <2>1. k - 1 \in 0..INPUT_BUF_SIZE-1 /\ k - 1 # i /\ x + k - 1 = x + (k - 1) /\ k \in Nat /\ k > 0
    BY <1>1, SMTT(60)
  <2>2. (x + (k - 1)) % INPUT_BUF_SIZE # (x + i) % INPUT_BUF_SIZE
    BY <1>2, <2>1 DEF Apart
  <2>3. (x + (k - 1)) % INPUT_BUF_SIZE \in 0..INPUT_BUF_SIZE-1
    BY <1>1, <2>1, PlaceIn
  <2> QED
    BY <2>1, <2>2, <2>3 DEF Put
<1> QED
  BY <1>3 DEF Part, Untouched

\* The place of an index, counted from another one.
LEMMA LinePlaces ==
  ASSUME Sizes, NEW x \in 0..M-1, NEW y \in 0..M-1
  PROVE  Follows(y, x, Minus(y, x))
<1> SUFFICES ASSUME NEW j \in Nat
             PROVE  (y + j) % INPUT_BUF_SIZE = (x + Minus(y, x) + j) % INPUT_BUF_SIZE
  BY DEF Follows
<1>1. RingSizes(INPUT_BUF_SIZE, M) /\ M \in Nat /\ y + j \in Nat
  BY SMTT(60) DEF Sizes, RingSizes
<1>2. Minus(y, x) = IF x <= y THEN y - x ELSE y + M - x
  BY MinusIs
<1>3. x + Minus(y, x) + j = y + j \/ x + Minus(y, x) + j = (y + j) + M
  BY <1>1, <1>2, SMTT(60)
<1> QED
  BY <1>1, <1>3, SamePlace

\* An index and its remainder have the same place.
LEMMA PlaceIs ==
  ASSUME Sizes, NEW z \in Nat, z < M + M
  PROVE  (z % M) % INPUT_BUF_SIZE = z % INPUT_BUF_SIZE
<1>1. RingSizes(INPUT_BUF_SIZE, M) /\ M \in Nat /\ M > 0
  BY SMTT(60) DEF Sizes, RingSizes
<1>2. z % M = IF z < M THEN z ELSE z - M
  BY <1>1, ModOnce
<1>3. CASE z < M
  BY <1>2, <1>3
<1>4. CASE ~(z < M)
  <2>1. PICK v \in Nat : v = z - M /\ v + M = z
    BY <1>1, <1>4, SMTT(60)
  <2>2. (v + M) % INPUT_BUF_SIZE = v % INPUT_BUF_SIZE
    BY <1>1, SamePlace
  <2> QED
    BY <1>2, <1>4, <2>1, <2>2
<1> QED
  BY <1>3, <1>4

\* What Slice takes out of the buffer.
LEMMA SliceIs ==
  ASSUME Sizes, NEW x \in 0..M-1, NEW y \in 0..M-1, NEW f
  PROVE  [k \in 1..Minus(y, x) |-> f[((x + k - 1) % M) % INPUT_BUF_SIZE]] = Part(f, Minus(y, x), x)
<1>1. RingSizes(INPUT_BUF_SIZE, M) /\ M \in Nat /\ M > 0
  BY SMTT(60) DEF Sizes, RingSizes
<1>2. Minus(y, x) \in 0..M-1
  BY MinusIs
<1>3. ASSUME NEW k \in 1..Minus(y, x)
      PROVE  ((x + k - 1) % M) % INPUT_BUF_SIZE = (x + k - 1) % INPUT_BUF_SIZE
  <2>1. x + k - 1 \in Nat /\ x + k - 1 < M + M
    BY <1>1, <1>2, SMTT(60)
  <2> QED
    BY <2>1, PlaceIs
<1> QED
  BY <1>3 DEF Part

-----------------------------------------------------------------------------
(* The console implements the line discipline                              *)

\* What ready and line stand for, before and after a step.
LEMMA Mapping ==
  ASSUME Sizes, InputType
  PROVE  Slice(r, w) = Part(buf, Minus(w, r), r) /\ Slice(w, e) = Part(buf, Minus(e, w), w)
BY SliceIs DEF InputType, Slice

\* The same after a step.
LEMMA MappingNext ==
  ASSUME Sizes, InputType'
  PROVE  /\ Slice(r, w)' = Part(buf', Minus(w', r'), r')
         /\ Slice(w, e)' = Part(buf', Minus(e', w'), w')
<1>1. r' \in 0..M-1 /\ w' \in 0..M-1 /\ e' \in 0..M-1
  BY DEF InputType
<1>2. /\ Slice(r, w)' = [k \in 1..Minus(w', r') |-> buf'[((r' + k - 1) % M) % INPUT_BUF_SIZE]]
      /\ Slice(w, e)' = [k \in 1..Minus(e', w') |-> buf'[((w' + k - 1) % M) % INPUT_BUF_SIZE]]
  BY DEF Slice, Minus
<1> QED
  BY <1>1, <1>2, SliceIs

\* What is known of the indices and of the parts they bound.
LEMMA IndicesAre ==
  ASSUME Sizes, InputType
  PROVE  /\ r \in 0..M-1 /\ w \in 0..M-1 /\ e \in 0..M-1 /\ buf \in [0..INPUT_BUF_SIZE-1 -> Chars]
         /\ r \in Nat /\ w \in Nat /\ e \in Nat /\ INPUT_BUF_SIZE \in Nat
         /\ Minus(w, r) \in Nat /\ Minus(e, r) \in Nat /\ Minus(e, w) \in Nat
         /\ Minus(e, w) + Minus(w, r) = Minus(e, r)
         /\ Minus(e, r) <= INPUT_BUF_SIZE
<1>1. /\ r \in 0..M-1 /\ w \in 0..M-1 /\ e \in 0..M-1 /\ buf \in [0..INPUT_BUF_SIZE-1 -> Chars]
      /\ Minus(e, r) <= INPUT_BUF_SIZE /\ Minus(w, r) <= Minus(e, r)
  BY DEF InputType, Chars
<1>2. M \in Nat /\ INPUT_BUF_SIZE \in Nat
  BY DEF Sizes
<1>3. PICK a \in 0..M-1 : a = Minus(e, r)
  BY <1>1, MinusIs
<1>4. PICK b \in 0..M-1 : b = Minus(w, r)
  BY <1>1, MinusIs
<1>5. PICK n \in 0..M-1 : n = Minus(e, w)
  BY <1>1, MinusIs
<1>6. n = a - b
  <2>1. Minus(e, w) = Minus(e, r) - Minus(w, r)
    BY <1>1, Between
  <2> QED
    BY <1>3, <1>4, <1>5, <2>1
<1>7. n + b = a /\ a \in Nat /\ b \in Nat /\ n \in Nat /\ r \in Nat /\ w \in Nat /\ e \in Nat
  BY <1>1, <1>2, <1>6, SMTT(60)
<1> QED
  BY <1>1, <1>2, <1>3, <1>4, <1>5, <1>7

\* A character that is read was the first of ready.
LEMMA ReadRefines ==
  ASSUME Sizes, IInv, InputType', r # w, buf' = buf, w' = w, e' = e, r' = (r + 1) % M
  PROVE  Lines!Read
<1>1. InputType
  BY TypeParts DEF IInv
<1>2. /\ r \in 0..M-1 /\ w \in 0..M-1 /\ buf \in [0..INPUT_BUF_SIZE-1 -> Chars]
      /\ Minus(w, r) \in Nat
  BY <1>1, IndicesAre
<1>3. Minus(w, r) # 0 /\ Minus(w, (r + 1) % M) = Minus(w, r) - 1
  BY <1>2, MinusIs, Forth
<1>4. /\ Slice(r, w) = Part(buf, Minus(w, r), r) /\ Slice(w, e) = Part(buf, Minus(e, w), w)
      /\ Slice(r, w)' = Part(buf, Minus(w, r) - 1, (r + 1) % M)
      /\ Slice(w, e)' = Part(buf, Minus(e, w), w)
  BY <1>1, <1>3, Mapping, MappingNext
<1>5. Minus(w, r) \in Nat \ {0}
  BY <1>2, <1>3
<1>6. /\ Part(buf, Minus(w, r), r) # <<>>
      /\ Tail(Part(buf, Minus(w, r), r)) = Part(buf, Minus(w, r) - 1, (r + 1) % M)
  BY <1>2, <1>5, PartTail
<1> QED
  BY <1>4, <1>6 DEF Lines!Read

\* A character that is erased was the last of line.
LEMMA EraseRefines ==
  ASSUME Sizes, IInv, InputType', Erasable, buf' = buf, r' = r, w' = w, e' = Minus(e, 1)
  PROVE  Lines!Erase
<1>1. InputType /\ e # w
  BY TypeParts DEF IInv, Erasable
<1>2. /\ e \in 0..M-1 /\ w \in 0..M-1 /\ w \in Nat /\ buf \in [0..INPUT_BUF_SIZE-1 -> Chars]
      /\ Minus(e, w) \in Nat
  BY <1>1, IndicesAre
<1>3. Minus(e, w) # 0 /\ Minus(Minus(e, 1), w) = Minus(e, w) - 1
  BY <1>1, <1>2, MinusIs, Back
<1>4. /\ Slice(r, w) = Part(buf, Minus(w, r), r) /\ Slice(w, e) = Part(buf, Minus(e, w), w)
      /\ Slice(r, w)' = Part(buf, Minus(w, r), r) /\ Slice(w, e)' = Part(buf, Minus(e, w) - 1, w)
  BY <1>1, <1>3, Mapping, MappingNext
<1>5. Minus(e, w) \in Nat \ {0}
  BY <1>2, <1>3
<1>6. /\ Part(buf, Minus(e, w), w) # <<>>
      /\ SubSeq(Part(buf, Minus(e, w), w), 1, Len(Part(buf, Minus(e, w), w)) - 1)
           = Part(buf, Minus(e, w) - 1, w)
  BY <1>2, <1>5, PartFront
<1> QED
  BY <1>4, <1>6 DEF Lines!Erase

\* A stored character ends up behind the line that is being edited, and a line
\* that ends or fills the buffer behind what can be read.
LEMMA StoreRefines ==
  ASSUME Sizes, IInv, InputType', store
  PROVE  Lines!Next
<1> DEFINE c == IF h.c = "cr" THEN "nl" ELSE h.c
<1>1. /\ r' = r /\ e' = (e + 1) % M /\ h.pc = "store"
      /\ buf' = [buf EXCEPT ![e % INPUT_BUF_SIZE] = c]
      /\ IF Commits(c, Minus(e', r)) THEN w' = e' ELSE w' = w
  BY DEF store
<1>2. InputType /\ h.c \in Keys
  BY TypeParts DEF IInv, OtherType, Handler
<1>3. h.c \notin {"P", "U", "H", "nul"} /\ Minus(e, r) < INPUT_BUF_SIZE
  BY <1>1 DEF IInv, Storing, Echoed, Room
<1>4. c \in Stored /\ c \in Chars
  BY <1>2, <1>3 DEF Stored, Keys, Chars
<1> HIDE DEF c
<1>5. /\ r \in 0..M-1 /\ w \in 0..M-1 /\ e \in 0..M-1 /\ buf \in [0..INPUT_BUF_SIZE-1 -> Chars]
      /\ r \in Nat /\ w \in Nat /\ e \in Nat /\ INPUT_BUF_SIZE \in Nat
  BY <1>2, IndicesAre
<1>6. PICK a \in Nat : a = Minus(e, r)
  BY <1>2, IndicesAre
<1>7. PICK b \in Nat : b = Minus(w, r)
  BY <1>2, IndicesAre
<1>8. PICK n \in Nat : n = Minus(e, w)
  BY <1>2, IndicesAre
<1>9. n + b = a
  BY <1>2, <1>6, <1>7, <1>8, IndicesAre
<1>10. /\ a \in 0..INPUT_BUF_SIZE-1 /\ n \in 0..INPUT_BUF_SIZE-1 /\ b <= a /\ n <= n
       /\ n < INPUT_BUF_SIZE /\ a < INPUT_BUF_SIZE /\ n + 1 \in Nat /\ b + (n + 1) = a + 1
       /\ b + n = a /\ b + n + 1 = a + 1
  BY <1>3, <1>5, <1>6, <1>9, SMTT(60)
<1>11. Minus(e', r) = a + 1 /\ Minus(e', w) = n + 1 /\ e' \in 0..M-1 /\ Minus(e', e') = 0
  <2>1. (e + 1) % M \in 0..M-1 /\ Minus((e + 1) % M, r) = a + 1 /\ Minus((e + 1) % M, w) = n + 1
    <3>1. Minus(e, r) < INPUT_BUF_SIZE /\ Minus(e, w) < INPUT_BUF_SIZE
      BY <1>6, <1>8, <1>10
    <3>2. (e + 1) % M \in 0..M-1 /\ Minus((e + 1) % M, r) = Minus(e, r) + 1
      BY <1>5, <3>1, Forth
    <3>3. Minus((e + 1) % M, w) = Minus(e, w) + 1
      BY <1>5, <3>1, Forth
    <3> QED
      BY <1>6, <1>8, <3>2, <3>3
  <2> QED
    BY <1>1, <2>1, MinusIs
<1>12. e % INPUT_BUF_SIZE = (r + a) % INPUT_BUF_SIZE /\ e % INPUT_BUF_SIZE = (w + n) % INPUT_BUF_SIZE
  <2>1. 0 \in Nat /\ e + 0 = e /\ r + a + 0 = r + a /\ w + n + 0 = w + n
    BY <1>5, SMTT(60)
  <2>2. Follows(e, r, a) /\ Follows(e, w, n)
    BY <1>5, <1>6, <1>8, LinePlaces
  <2>3. /\ (e + 0) % INPUT_BUF_SIZE = (r + a + 0) % INPUT_BUF_SIZE
        /\ (e + 0) % INPUT_BUF_SIZE = (w + n + 0) % INPUT_BUF_SIZE
    BY <2>1, <2>2 DEF Follows
  <2> QED
    BY <2>1, <2>3
<1> DEFINE g == buf'
<1>13. /\ g \in [0..INPUT_BUF_SIZE-1 -> Chars]
       /\ g = [buf EXCEPT ![(r + a) % INPUT_BUF_SIZE] = c]
       /\ g = [buf EXCEPT ![(w + n) % INPUT_BUF_SIZE] = c]
  BY <1>1, <1>4, <1>5, <1>12
<1>14. g[(w + n) % INPUT_BUF_SIZE] = c
  <2>1. (w + n) % INPUT_BUF_SIZE \in 0..INPUT_BUF_SIZE-1
    BY <1>5, <1>12, SMTT(60) DEF Sizes
  <2> QED
    BY <1>5, <1>13, <2>1
<1> HIDE DEF g
<1>15. Part(g, b, r) = Part(buf, b, r) /\ Part(g, n, w) = Part(buf, n, w)
  <2>1. Untouched(buf, b, r, a, c)
    BY <1>4, <1>5, <1>10, PartFrame
  <2>2. Untouched(buf, n, w, n, c)
    BY <1>4, <1>5, <1>10, PartFrame
  <2> QED
    BY <1>13, <2>1, <2>2 DEF Untouched, Put
<1>16. Slice(r, w) = Part(g, b, r) /\ Slice(w, e) = Part(g, n, w)
  BY <1>2, <1>7, <1>8, <1>15, Mapping
<1>17. Append(Slice(w, e), c) = Part(g, n + 1, w)
  <2>1. Append(Part(g, n, w), g[(w + n) % INPUT_BUF_SIZE]) = Part(g, n + 1, w)
    BY <1>5, <1>13, PartAppend
  <2> QED
    BY <1>14, <1>16, <2>1
<1>18. Len(Slice(r, w)) = b /\ Len(Slice(w, e)) = n
  <2>1. IsPart(Part(g, b, r), g, b, r) /\ IsPart(Part(g, n, w), g, n, w)
    BY <1>5, <1>13, PartIs
  <2> QED
    BY <1>16, <2>1 DEF IsPart
<1>19. Len(Slice(r, w)) + Len(Slice(w, e)) < INPUT_BUF_SIZE
  BY <1>10, <1>18
<1>20. /\ Commits(c, Minus(e', r))
           <=> c \in {"nl", "D"} \/ Len(Slice(r, w)) + Len(Slice(w, e)) + 1 = INPUT_BUF_SIZE
  BY <1>10, <1>11, <1>18 DEF Commits
<1>21. CASE Commits(c, Minus(e', r))
  <2>1. w' = e'
    BY <1>1, <1>21
  <2>2. Slice(r, w)' = Part(g, a + 1, r) /\ Slice(w, e)' = Part(g, 0, e')
    BY <1>1, <1>11, <2>1, MappingNext DEF g
  <2>3. Part(g, 0, e') = <<>>
    <3>1. 0 \in Nat /\ e' \in Nat
      BY <1>11, SMTT(60) DEF Sizes
    <3>2. Part(g, 0, e') \in Seq(Chars) /\ Len(Part(g, 0, e')) = 0
      <4>1. IsPart(Part(g, 0, e'), g, 0, e')
        BY <1>13, <3>1, PartIs
      <4> QED
        BY <4>1 DEF IsPart
    <3> QED
      BY <3>2, SMTT(60)
  <2>4. Follows(w, r, b)
    BY <1>5, <1>7, LinePlaces
  <2>5. Part(g, b, r) \o Part(g, n + 1, w) = Part(g, b + (n + 1), r)
    <3>1. Joined(g, b, r, n + 1, w)
      BY <1>5, <1>10, <1>13, <2>4, PartConcat
    <3> QED
      BY <3>1 DEF Joined
  <2>6. Slice(r, w)' = Slice(r, w) \o Append(Slice(w, e), c) /\ Slice(w, e)' = <<>>
    BY <1>10, <1>16, <1>17, <2>2, <2>3, <2>5
  <2>7. Lines!Type(c)
    BY <1>19, <1>20, <1>21, <2>6 DEF Lines!Type
  <2> QED
    BY <1>4, <2>7 DEF Lines!Next
<1>22. CASE ~Commits(c, Minus(e', r))
  <2>1. w' = w
    BY <1>1, <1>22
  <2>2. Slice(r, w)' = Part(g, b, r) /\ Slice(w, e)' = Part(g, n + 1, w)
    BY <1>1, <1>7, <1>11, <2>1, MappingNext DEF g
  <2>3. Slice(w, e)' = Append(Slice(w, e), c) /\ Slice(r, w)' = Slice(r, w)
    BY <1>16, <1>17, <2>2
  <2>4. Lines!Type(c)
    BY <1>19, <1>20, <1>22, <2>3 DEF Lines!Type
  <2> QED
    BY <1>4, <2>4 DEF Lines!Next
<1> QED
  BY <1>21, <1>22

\* A step that moves no index and writes no character.
LEMMA SameRefines ==
  ASSUME buf' = buf, r' = r, w' = w, e' = e
  PROVE  UNCHANGED <<Slice(r, w), Slice(w, e)>>
BY DEF Slice, Minus

\* Every step types, erases or reads a character, or changes neither ready nor line.
LEMMA NextRefines ==
  ASSUME Sizes, IInv, [Next]_vars
  PROVE  [Lines!Next]_<<Slice(r, w), Slice(w, e)>>
<1>1. InputType'
  BY NextIInv, TypePartsNext DEF IInv
<1>2. CASE store
  BY <1>1, <1>2, StoreRefines
<1>3. CASE consoleintr
  <2>1. buf' = buf /\ r' = r /\ w' = w /\ (e' = e \/ (Erasable /\ e' = Minus(e, 1)))
    BY <1>3 DEF consoleintr, Backspace
  <2> QED
    BY <1>1, <2>1, EraseRefines, SameRefines DEF Lines!Next
<1>4. CASE kill_line
  <2>1. buf' = buf /\ r' = r /\ w' = w /\ (e' = e \/ (Erasable /\ e' = Minus(e, 1)))
    BY <1>4 DEF kill_line, Backspace
  <2> QED
    BY <1>1, <2>1, EraseRefines, SameRefines DEF Lines!Next
<1>5. ASSUME NEW p \in Reader, read_char(p)
      PROVE  [Lines!Next]_<<Slice(r, w), Slice(w, e)>>
  <2>1. buf' = buf /\ w' = w /\ e' = e /\ r # w /\ (r' = r \/ r' = (r + 1) % M)
    BY <1>5 DEF read_char
  <2> QED
    BY <1>1, <2>1, ReadRefines, SameRefines DEF Lines!Next
<1>6. CASE buf' = buf /\ r' = r /\ w' = w /\ e' = e
  BY <1>6, SameRefines
<1>7. ASSUME handling
      PROVE  store \/ consoleintr \/ kill_line \/ (buf' = buf /\ r' = r /\ w' = w /\ e' = e)
  BY <1>7 DEF handling, uartintr, tx_done, uartgetc, procdump, echo_spin, echo_put, input
<1>8. ASSUME printing \/ printf \/ Transmit \/ Receive \/ quiet \/ UNCHANGED vars
      PROVE  buf' = buf /\ r' = r /\ w' = w /\ e' = e
  BY <1>8 DEF printing, print_spin, print_put, printf, Transmit, Receive, quiet, vars, input
<1>9. ASSUME NEW p \in Reader, reading(p) \/ kill(p) \/ \E n \in 1..MaxN : consoleread(p, n)
      PROVE  read_char(p) \/ (buf' = buf /\ r' = r /\ w' = w /\ e' = e)
  BY <1>9 DEF reading, read_acquire, read_wait, read_sleep, read_return, kill, consoleread
<1>10. ASSUME NEW p \in Writer, uartwrite(p) \/ \E n \in 1..MaxN : consolewrite(p, n)
       PROVE  buf' = buf /\ r' = r /\ w' = w /\ e' = e
  BY <1>10 DEF uartwrite, consolewrite, input
<1> QED
  BY <1>2, <1>3, <1>4, <1>5, <1>6, <1>7, <1>8, <1>9, <1>10 DEF Next

\* At first nothing is ready and no line has begun.
LEMMA InitRefines == ASSUME Sizes, Init PROVE Lines!Init
<1>1. InputType
  BY InitIInv, TypeParts DEF IInv
<1>2. Minus(w, r) = 0 /\ Minus(e, w) = 0 /\ r \in Nat /\ w \in Nat /\ 0 \in Nat
      /\ buf \in [0..INPUT_BUF_SIZE-1 -> Chars]
  <2>1. r = w /\ w = e
    BY DEF Init
  <2> QED
    BY <1>1, <2>1, IndicesAre, MinusIs
<1>3. /\ Slice(r, w) \in Seq(Chars) /\ Len(Slice(r, w)) = 0
      /\ Slice(w, e) \in Seq(Chars) /\ Len(Slice(w, e)) = 0
  <2>1. IsPart(Part(buf, 0, r), buf, 0, r) /\ IsPart(Part(buf, 0, w), buf, 0, w)
    BY <1>2, PartIs
  <2>2. Slice(r, w) = Part(buf, 0, r) /\ Slice(w, e) = Part(buf, 0, w)
    BY <1>1, <1>2, Mapping
  <2> QED
    BY <2>1, <2>2 DEF IsPart
<1>4. Slice(r, w) = <<>> /\ Slice(w, e) = <<>>
  BY <1>3, SMTT(60)
<1> QED
  BY <1>4 DEF Lines!Init

\* The buffer of console.c implements the line discipline: what consoleread hands
\* out is what was typed and committed, in order, each character once.
THEOREM ConsoleKeepsDiscipline == Spec => Discipline
<1>1. Init => IInv /\ Lines!Init
  BY ConsoleAssumption, InitIInv, InitRefines
<1>2. IInv /\ [Next]_vars => IInv'
  BY ConsoleAssumption, NextIInv
<1>3. IInv /\ [Next]_vars => [Lines!Next]_<<Slice(r, w), Slice(w, e)>>
  BY ConsoleAssumption, NextRefines
<1> QED
  BY <1>1, <1>2, <1>3, PTL DEF Spec, Discipline, Lines!Spec
=============================================================================
