-------------------------- MODULE MCNetworkSimulator --------------------------
(***************************************************************************)
(* The traffic of the simulator's script: between two hosts of a link, to  *)
(* a host of another link, to the last address of the HS network and to    *)
(* the first one behind it, and with times to live that expire.  The       *)
(* routes are added in the simulator's order or with the default last.     *)
(***************************************************************************)
EXTENDS NetworkSimulator

TrafficValue == {<<"dm42", 67, 2>>, <<"dm42", 2, 2>>, <<"applesauce", 183, 2>>,
                 <<"dm42", 184, 2>>, <<"applesauce", 67, 1>>, <<"applesauce", 67, 0>>}

(* To the first address behind the HS network and to one behind mit5.      *)
TrafficToMit == {<<"dm42", 184, 2>>, <<"applesauce", 200, 2>>}

RouteOrdersValue == {<<1, 2, 3, 4, 5, 6, 7>>, <<5, 2, 7, 6, 3, 4, 1>>}
=============================================================================
