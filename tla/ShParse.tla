------------------------------ MODULE ShParse -------------------------------
(***************************************************************************)
(* The parser of the shell (user/sh.c), as operators on a line of          *)
(* characters, and the grammar it is compared with.                        *)
(*                                                                         *)
(* A character is white space " ", one of the symbols, or "a" for all the  *)
(* others.  s is the position *ps; a word or a file name is <<q, eq>>, the *)
(* positions of its first character and of the one after its last.  A      *)
(* parsing operator returns the command and the position; panic() ends the *)
(* process, so an error is the command Bad, with which nothing goes on.    *)
(***************************************************************************)
EXTENDS Integers, Sequences, FiniteSets, SequencesExt

CONSTANT MAXARGS

Symbols == {"<", "|", ">", "&", ";", "(", ")"}
Bad == [type |-> "BAD"]

At(l, s) == IF s <= Len(l) THEN l[s] ELSE "nul"
First(S) == CHOOSE x \in S : \A y \in S : x <= y

\* The two loops of gettoken and the one of peek over white space, and the loop
\* over a word.
Skip(l, s) == First({t \in s..Len(l)+1 : At(l, t) # " "})
WordEnd(l, s) == First({t \in s..Len(l)+1 : At(l, t) \in Symbols \cup {" ", "nul"}})

Tok(l, tok, q, eq) == [tok |-> tok, word |-> <<q, eq>>, s |-> Skip(l, eq)]
TokenAt(l, q) ==
  IF At(l, q) = "nul" THEN Tok(l, "nul", q, q)
  ELSE IF At(l, q) = ">" /\ At(l, q + 1) = ">" THEN Tok(l, "+", q, q + 2)
  ELSE IF At(l, q) \in Symbols THEN Tok(l, At(l, q), q, q + 1)
  ELSE Tok(l, "a", q, WordEnd(l, q))
gettoken(l, s) == TokenAt(l, Skip(l, s))
peek(l, s, toks) == At(l, Skip(l, s)) \in toks

execcmd(argv) == [type |-> "EXEC", argv |-> argv]
redircmd(cmd, redir) == [type |-> "REDIR", tok |-> redir.tok, file |-> redir.word, cmd |-> cmd]
pipecmd(left, right) == [type |-> "PIPE", left |-> left, right |-> right]
listcmd(left, right) == [type |-> "LIST", left |-> left, right |-> right]
backcmd(cmd) == [type |-> "BACK", cmd |-> cmd]

\* A result, and what another command makes of it.
Res(cmd, s) == [cmd |-> cmd, s |-> s]
PipedTo(left, r) == IF r.cmd = Bad THEN r ELSE Res(pipecmd(left, r.cmd), r.s)
ListedWith(left, r) == IF r.cmd = Bad THEN r ELSE Res(listcmd(left, r.cmd), r.s)

-----------------------------------------------------------------------------
(* The parser.  parseredirs is inlined in the loops of its two callers:    *)
(* redirs collects what it wraps around the command, innermost first.      *)

Wrap(cmd, redirs) == FoldLeft(redircmd, cmd, redirs)

Redir(l, t) == [tok |-> t.tok, word |-> gettoken(l, t.s).word]

RECURSIVE parseredirs(_, _, _)
parseredirs(l, s, redirs) ==
  IF ~peek(l, s, {"<", ">"}) THEN [ok |-> TRUE, s |-> Skip(l, s), redirs |-> redirs]
  ELSE IF gettoken(l, gettoken(l, s).s).tok # "a" THEN [ok |-> FALSE, s |-> s, redirs |-> redirs]
  ELSE parseredirs(l, gettoken(l, gettoken(l, s).s).s, Append(redirs, Redir(l, gettoken(l, s))))

RECURSIVE Args(_, _, _)
TooMany(argv) == Len(argv) >= MAXARGS

\* The loop of parseexec, after parseredirs.
Argument(l, r, t, argv) ==
  IF t.tok = "nul" THEN Res(Wrap(execcmd(argv), r.redirs), t.s)
  ELSE IF t.tok # "a" \/ TooMany(Append(argv, t.word)) THEN Res(Bad, t.s)
  ELSE Args(l, parseredirs(l, t.s, r.redirs), Append(argv, t.word))
Args(l, r, argv) ==
  IF ~r.ok THEN Res(Bad, r.s)
  ELSE IF peek(l, r.s, {"|", ")", "&", ";"}) THEN Res(Wrap(execcmd(argv), r.redirs), r.s)
  ELSE Argument(l, r, gettoken(l, r.s), argv)

RECURSIVE parseline(_, _)
BlockEnd(r, d) == Res(IF d.ok THEN Wrap(r.cmd, d.redirs) ELSE Bad, d.s)
BlockClose(l, r) ==
  IF r.cmd = Bad \/ ~peek(l, r.s, {")"}) THEN Res(Bad, r.s)
  ELSE BlockEnd(r, parseredirs(l, gettoken(l, r.s).s, <<>>))
parseblock(l, s) == BlockClose(l, parseline(l, gettoken(l, s).s))

parseexec(l, s) ==
  IF peek(l, s, {"("}) THEN parseblock(l, s) ELSE Args(l, parseredirs(l, s, <<>>), <<>>)

RECURSIVE parsepipe(_, _)
PipeRest(l, r) ==
  IF r.cmd # Bad /\ peek(l, r.s, {"|"})
    THEN PipedTo(r.cmd, parsepipe(l, gettoken(l, r.s).s))
    ELSE r
parsepipe(l, s) == PipeRest(l, parseexec(l, s))

RECURSIVE Backs(_, _)
Backs(l, r) == IF r.cmd # Bad /\ peek(l, r.s, {"&"})
                 THEN Backs(l, Res(backcmd(r.cmd), gettoken(l, r.s).s)) ELSE r
\* Mutant of ListRest: only a pipeline is parsed after a semicolon.
ListRestLeft(l, r) ==
  IF r.cmd # Bad /\ peek(l, r.s, {";"})
    THEN ListedWith(r.cmd, parsepipe(l, gettoken(l, r.s).s))
    ELSE r
ListRest(l, r) ==
  IF r.cmd # Bad /\ peek(l, r.s, {";"})
    THEN ListedWith(r.cmd, parseline(l, gettoken(l, r.s).s))
    ELSE r
parseline(l, s) == ListRest(l, Backs(l, parsepipe(l, s)))

\* The line has to be used up.
Whole(l, r) == IF Skip(l, r.s) = Len(l) + 1 THEN r.cmd ELSE Bad
parsecmd(l) == Whole(l, parseline(l, 1))

\* The words of a command; nulterminate puts a NUL at the end of each.
RECURSIVE Words(_)
Words(cmd) == CASE cmd.type = "EXEC" -> ToSet(cmd.argv)
                [] cmd.type = "REDIR" -> Words(cmd.cmd) \cup {cmd.file}
                [] cmd.type \in {"PIPE", "LIST"} -> Words(cmd.left) \cup Words(cmd.right)
                [] cmd.type = "BACK" -> Words(cmd.cmd)
                [] OTHER -> {}
nulterminate(cmd) == {w[2] : w \in Words(cmd)}

-----------------------------------------------------------------------------
(* The grammar, on the tokens of a line.  A list is cut at its first ; a   *)
(* pipeline at its first |, both outside parentheses.                      *)

RECURSIVE Tokens(_, _)
Tokens(l, s) == IF gettoken(l, s).tok = "nul" THEN <<>>
                ELSE <<[tok |-> gettoken(l, s).tok, word |-> gettoken(l, s).word]>>
                       \o Tokens(l, gettoken(l, s).s)

Depth(t, k) == Cardinality({j \in 1..k : t[j].tok = "("})
               - Cardinality({j \in 1..k : t[j].tok = ")"})
Cut(t, op) == {k \in 1..Len(t) : t[k].tok = op /\ Depth(t, k) = 0}
Before(t, op) == IF Cut(t, op) = {} THEN t ELSE SubSeq(t, 1, First(Cut(t, op)) - 1)
After(t, op) == SubSeq(t, First(Cut(t, op)) + 1, Len(t))

\* Words and redirections, in any order.
Targets(t) == {k \in 2..Len(t) : t[k-1].tok \in {"<", ">", "+"}}
IsSimple(t) == /\ \A k \in 1..Len(t) : t[k].tok \in {"a", "<", ">", "+"}
               /\ \A k \in Targets(t) : t[k].tok = "a"
               /\ t # <<>> => Last(t).tok \notin {"<", ">", "+"}
Picked(t, S) == [n \in 1..Cardinality(S) |->
                   LET k == CHOOSE k \in S : Cardinality({j \in S : j <= k}) = n
                   IN  [tok |-> t[IF k - 1 \in 1..Len(t) THEN k - 1 ELSE k].tok, word |-> t[k].word]]
Args0(t) == {k \in 1..Len(t) : t[k].tok = "a"} \ Targets(t)
Redirected(cmd, t) == Wrap(cmd, Picked(t, Targets(t)))
Simple(t) ==
  IF ~IsSimple(t) \/ Cardinality(Args0(t)) >= MAXARGS THEN Bad
  ELSE Redirected(execcmd([n \in DOMAIN Picked(t, Args0(t)) |-> Picked(t, Args0(t))[n].word]), t)

Lift1(op(_), cmd) == IF cmd = Bad THEN Bad ELSE op(cmd)
Lift2(op(_, _), c, d) == IF c = Bad \/ d = Bad THEN Bad ELSE op(c, d)

RECURSIVE Line(_)
Block(t, close) ==
  LET rest == SubSeq(t, close + 1, Len(t))
  IN  IF IsSimple(rest) /\ Args0(rest) = {}
        THEN Lift1(LAMBDA c : Redirected(c, rest), Line(SubSeq(t, 2, close - 1))) ELSE Bad
Command(t) == IF t = <<>> \/ t[1].tok # "(" THEN Simple(t)
              ELSE IF Cut(t, ")") = {} THEN Bad ELSE Block(t, First(Cut(t, ")")))
RECURSIVE Pipeline(_)
Pipeline(t) == IF Cut(t, "|") = {} THEN Command(t)
               ELSE Lift2(pipecmd, Command(Before(t, "|")), Pipeline(After(t, "|")))
RECURSIVE Job(_)
Job(t) == IF t # <<>> /\ Last(t).tok = "&" THEN Lift1(backcmd, Job(Front(t))) ELSE Pipeline(t)
Line(t) == IF Cut(t, ";") = {} THEN Job(t)
           ELSE Lift2(listcmd, Job(Before(t, ";")), Line(After(t, ";")))
Grammar(l) == Line(Tokens(l, 1))

\* The parser accepts the lines of the grammar and gives each the command the
\* grammar gives it; and the NUL nulterminate puts after a word falls inside no
\* other word of the command (parsecmd, user/sh.c).
Parsed(l, cmd) ==
  /\ cmd = Grammar(l)
  /\ \A w \in Words(cmd) : nulterminate(cmd) \cap w[1]..(w[2] - 1) = {}
ParserCorrect(l) == Parsed(l, parsecmd(l))
=============================================================================
