---------------------------- MODULE MCViewerControl ----------------------------
(* Instances of ViewerControl for TLC. *)
EXTENDS ViewerControl

PlainTypes   == {"reload_live"}
RestartTypes == {"reload_live", "restart_service"}
UpdateTypes  == {"reload_live", "update_app"}
AllTypes     == {"reload_live", "restart_service", "update_app"}
===============================================================================
