------------------------- MODULE MCRuntimeSettings -------------------------
(***************************************************************************)
(* Small instances of RuntimeSettings: one or two contexts, an environment *)
(* that is silent, asks for debugging, or switches expensive checks off.   *)
(***************************************************************************)
EXTENDS RuntimeSettings, TLC

Silent == {[debug |-> "unset", expensive |-> "unset"]}
Debug == "debug" :> TRUE
Cheap == "expensive" :> FALSE
OneFlag == {Debug, Cheap}
Mixed == OneFlag \cup {Cheap @@ "debug" :> FALSE}
Changing == Silent \cup {[debug |-> "on", expensive |-> "off"], [debug |-> "off", expensive |-> "on"]}
============================================================================
