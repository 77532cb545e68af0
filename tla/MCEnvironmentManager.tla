------------------------ MODULE MCEnvironmentManager ------------------------
EXTENDS EnvironmentManager

(* Every manager, with no history, with one that is shorter and with one that
   is longer than an episode. *)
MCManagers == {"AlfWorld", "ScienceWorld", "TextWorldExpress", "Jericho", "Webshop",
               "Sokoban", "SokobanVisual", "Search", "AppWorld", "GymCard"}
=============================================================================
