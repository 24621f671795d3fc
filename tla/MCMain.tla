-------------------------------- MODULE MCMain --------------------------------
(* Instances of Main for TLC. *)
EXTENDS Main

Opt(letter, arg) == [letter |-> letter, arg |-> arg]

Line(opts, names) == [opts |-> opts, names |-> names, good |-> TRUE]

Type == Opt("T", "good")
Card == Opt("C", "none")

Outputs == {<<>>, <<Opt("o", "file")>>, <<Opt("o", "-")>>}

Pins == {<<>>, <<Opt("p", "good")>>}

(* What a user writes, and each error once *)
MCCommandLines ==
    {Line(<<Type>> \o o \o p, n) : o \in Outputs, p \in Pins, n \in 0..1}
    \cup {Line(<<Type, Card, Card, Opt("d", "none"), Opt("D", "none")>>, 1),
          Line(<<Type, Card, Card, Card>>, 1),
          Line(<<Type, Opt("h", "none"), Opt("o", "file")>>, 0),
          Line(<<Opt("?", "none"), Type>>, 0),
          Line(<<Opt("T", "bad"), Opt("o", "file")>>, 0),
          Line(<<Type>>, 2),
          [Line(<<Type, Opt("o", "file")>>, 0) EXCEPT !.good = FALSE],
          Line(<<Opt("o", "file")>>, 1)}

RegularFiles == {[kind |-> "regular", held |-> n] : n \in 1..3}

MCInputs ==
    RegularFiles \cup {[kind |-> "pipe", held |-> 2], [kind |-> "unreadable", held |-> 0]}

===============================================================================
