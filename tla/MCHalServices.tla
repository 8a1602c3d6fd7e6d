--------------------------- MODULE MCHalServices ---------------------------
(* HalServices with values that a configuration file cannot write. *)
EXTENDS HalServices

MCSetTimes == {[sec |-> 0, usec |-> 0], [sec |-> 2, usec |-> 5]}

MCArcs == {<<1, 1>>, <<1, 2>>}

MCRegions == {<<0, 2>>, <<1, 1>>, <<1, 3>>, <<2, 4>>, <<3, 1>>}

MCCharacters == OwnCharacters \cup {"h", "k"}
MCBacklogs == {-1}
MCLevels == {-1, 3}
MCMessages ==
  { <<Wide(Num("d", -128), 5, FALSE), Wide(Num("X", 10), 3, TRUE), Wide(Str("c", <<"k">>), 2, FALSE)>>,
    <<Num("x", 171), Str("s", <<"h">>), Lit("%"), Num("x", 0)>> }
MCWrites == {<<"EOT", "b", "EOT", "d">>}
=============================================================================
