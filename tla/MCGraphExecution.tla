-------------------------- MODULE MCGraphExecution --------------------------
(***************************************************************************)
(* Instances of GraphExecution.  Each graph is given by the operators with *)
(* its name, which the configurations bind to the constants.               *)
(***************************************************************************)
EXTENDS Signals

\* loop { then { if (leaf) { break } else { leaf }, race { leaf, loop { leaf } } } }:
\* generations of two nested loops, and losers of either kind.
RaceKind ==
    [lp |-> "loop", th |-> "then", if |-> "if", cd |-> "leaf", br |-> "break", el |-> "leaf",
     rc |-> "race", sq |-> "leaf", in |-> "loop", bd |-> "leaf"]
RaceKids ==
    [lp |-> <<"th">>, th |-> <<"if", "rc">>, if |-> <<"cd", "br", "el">>, cd |-> <<>>, br |-> <<>>,
     el |-> <<>>, rc |-> <<"sq", "in">>, sq |-> <<>>, in |-> <<"bd">>, bd |-> <<>>]
RaceNodes == DOMAIN RaceKind
RaceOutcomes == [cd |-> {"ok", "app"}, el |-> {"ok"}, sq |-> {"ok"}, bd |-> {"ok"}]

\* continue_on_failure loop {
\*     if_rows { break } else { join { leaf, loop { signal } while leaf } } }:
\* the ways an error can travel to the loop that may consume it, and a node
\* that waits for a signal three orchestrations below the root.
FaultKind ==
    [lp |-> "loop", ir |-> "if_rows", br |-> "break", jn |-> "join", sq |-> "leaf",
     in |-> "loop", sg |-> "signal", wh |-> "leaf"]
FaultKids ==
    [lp |-> <<"ir">>, ir |-> <<"br", "jn">>, br |-> <<>>, jn |-> <<"sq", "in">>, sq |-> <<>>,
     in |-> <<"sg", "wh">>, sg |-> <<>>, wh |-> <<>>]
FaultNodes == DOMAIN FaultKind
FaultOutcomes ==
    [sq |-> {"ok", "app", "fail"}, sg |-> {"ok", "fail"}, wh |-> {"ok", "app"}]
=============================================================================
