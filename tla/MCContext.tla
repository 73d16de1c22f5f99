----------------------------- MODULE MCContext -----------------------------
(***************************************************************************)
(* Two producers, a consumer like app::server and two that are state       *)
(* consumers as well.  The typed point listens to the kept one, as         *)
(* nav_route to (nav_route, string), which listens back; two more are      *)
(* asked for, one of them of a map_store.                                  *)
(***************************************************************************)
EXTENDS Context

MCPoint == {"string", "route", "asked", "map"}
MCListeners == [string |-> <<"route">>, route |-> <<"string">>, asked |-> <<>>, map |-> <<>>]
MCActors == <<"server", "origin", "renderer", "remote", "logger">>
MCProducers == {"origin", "remote"}
MCConsumers == {"server", "renderer", "logger"}
MCStateConsumers == {"renderer", "logger"}
MCProducerOf ==
    [string |-> "origin", route |-> "origin", asked |-> "remote", map |-> "remote"]
=============================================================================
