------------------------------ MODULE MCStartup ------------------------------
(* One file that must be there and one more. *)
EXTENDS Startup

TwoFiles == <<"app_config", "recipe_config">>
=============================================================================
