------------------------------- MODULE MCDates -------------------------------
(* The first years and the last, the turn of the era, each reform and a       *)
(* century of either kind before and after it.                               *)
EXTENDS Dates
Walks == {<<0, 800>>, <<1720600, 1721800>>, <<2268900, 2269300>>, <<2298900, 2299500>>,
          <<2341900, 2342300>>, <<2360900, 2361400>>, <<2378400, 2378900>>,
          <<2451500, 2452000>>, <<5372900, 5373484>>}
MCStarts == {w[1] : w \in Walks}
MCEnds   == {w[2] : w \in Walks}
=============================================================================
