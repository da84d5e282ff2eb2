--------------------------- MODULE SamplePrograms ---------------------------
(* Programs with FORWARDs nested two deep, branched and not. *)
EXTENDS Naturals, SequencesExt

Cmd(op, branched) == [op |-> op, branched |-> branched]
Rep == Cmd("REPLY", FALSE)
EndOfMsg == Cmd("EOM", FALSE)

Simple(op) == [cmds |-> <<Cmd(op, FALSE)>>, heads |-> <<>>, bodies |-> <<>>]

Body(its) == FoldLeft(LAMBDA acc, it : acc \o it.cmds, <<>>, its)

\* FORWARD to n destinations that all get the same body.
Multi(n, its) ==
  [cmds |-> [i \in 1 .. n |-> Cmd(IF i = 1 THEN "FORWARD_BEGIN"
                                  ELSE "FORWARD_CONTINUE", FALSE)]
            \o Body(its) \o <<Rep>>,
   heads |-> [i \in 1 .. n |-> i],
   bodies |-> [i \in 1 .. n |-> Body(its) \o <<Rep, EndOfMsg>>]]

\* A branched FORWARD: one group of n destinations, then a single one, each
\* with a body of its own.
Branched(n, its1, its2) ==
  LET first == [i \in 1 .. n |-> Cmd(IF i = 1 THEN "FORWARD_BEGIN"
                                     ELSE "FORWARD_CONTINUE", TRUE)]
               \o Body(its1) \o <<Rep>>
      second == <<Cmd("FORWARD_CONTINUE", TRUE)>> \o Body(its2) \o <<Rep>>
  IN [cmds |-> first \o second,
      heads |-> [i \in 1 .. n + 1 |-> IF i <= n THEN i ELSE Len(first) + 1],
      bodies |-> [i \in 1 .. n + 1 |->
                    (IF i <= n THEN Body(its1) ELSE Body(its2))
                    \o <<Rep, EndOfMsg>>]]

Nested(bodies) == {Multi(n, b) : n \in 1 .. 2, b \in bodies}
                    \cup {Branched(n, b1, b2) : n \in 1 .. 2,
                                                b1 \in bodies, b2 \in bodies}

Bodies0 == {<<>>, <<Simple("COMPUTE")>>}
Items1 == {Simple("LOAD")} \cup Nested(Bodies0)
Bodies1 == {<<>>, <<Simple("COMPUTE")>>} \cup {<<it>> : it \in Nested({<<>>})}
           \cup {<<Multi(1, <<>>), Simple("STORE")>>}
Items2 == Nested(Bodies1)

MCPrograms == {<<i>> : i \in Items2} \cup {<<i, j>> : i \in Items1, j \in Items1}
              \cup {<<Simple("COMPUTE"), i, j>> : i \in Nested({<<>>}),
                                                 j \in Items2}
=============================================================================
