---------------------------- MODULE CommandLine ----------------------------
(***************************************************************************)
(* The argument vector the program reads its parameters from               *)
(* (bench/parse_command_line.h).  A token is a string; position 1 is the   *)
(* program's name and is never read.                                       *)
(***************************************************************************)
EXTENDS Integers, Sequences, TLC

\* The legacy spellings and what they are now.
kAliases == [tok \in {"-turboquant", "-tq_bits", "-build_tq1_panel"} |->
               CASE tok = "-turboquant" -> "-rsq"
                 [] tok = "-tq_bits" -> "-rsq_bits"
                 [] tok = "-build_tq1_panel" -> "-build_rsq1_panel"]

canonical_flag(tok) == IF tok \in DOMAIN kAliases THEN kAliases[tok] ELSE tok

canonicalize_flags(av) ==
  [i \in DOMAIN av |-> IF i = 1 THEN av[1] ELSE canonical_flag(av[i])]

\* A flag is set when it stands anywhere.
getOption(av, option) == \E i \in 2..Len(av) : av[i] = option

\* A value is the token after the first place the option stands at.  The last
\* token has nothing after it and is never taken for an option.
Places(av, option) == {i \in 2..(Len(av) - 1) : av[i] = option}

getOptionValue_LastMatch(av, option, default) ==
  IF Places(av, option) = {} THEN default
  ELSE LET last == CHOOSE i \in Places(av, option) :
                     \A j \in Places(av, option) : i >= j
       IN  av[last + 1]

getOptionValue(av, option, default) ==
  IF Places(av, option) = {} THEN default
  ELSE LET first == CHOOSE i \in Places(av, option) :
                      \A j \in Places(av, option) : i =< j
       IN  av[first + 1]

\* atoi and atol give 0 for what is not a number; numbers are bounded by 30.
atoi(tok) == IF \E d \in 0..30 : ToString(d) = tok
             THEN CHOOSE d \in 0..30 : ToString(d) = tok ELSE 0

getOptionIntValue(av, option, default) ==
  IF Places(av, option) = {} THEN default
  ELSE atoi(getOptionValue(av, option, ""))

\* badArgument: a negative number ends the program; 0 stands for it above.
IsNegative(tok) == \E d \in 1..30 : ToString(-d) = tok

badArgument(av, option) ==
  Places(av, option) # {} /\ IsNegative(getOptionValue(av, option, ""))

\* The argv of one query: the tokens of its line stand before the base's.
PerConfigArgv(base, line) ==
  canonicalize_flags(<<base[1]>> \o (line \o Tail(base)))
=============================================================================
