----------------------------- MODULE MCFrontDoor -----------------------------
EXTENDS FrontDoor
Host(name, port) == [name |-> name, port |-> port]

\* One host, with and without its port, a list with a blank piece in it, `*` by
\* itself and as a piece, and settings with nothing between their commas.
MCSettings ==
    { <<Host("a", 0)>>, <<Host("a", 1)>>, <<Host("a", 2), Blank, Host("b", 0)>>,
      <<Star>>, <<Star, Host("b", 1)>>, <<Blank>>, <<Blank, Blank>> }

MCDefaultHosts == {Host("local", 0)}
=============================================================================
