---------------------------- MODULE MCAsplBridge ----------------------------
(* Every selector of every class with one object beside the plug-in and a  *)
(* thread of HAL's; and the life of several objects, whose numbers run     *)
(* out, with two.                                                          *)
EXTENDS AsplBridge, TLC

CONSTANTS plugin, o1, o2, o3, o4, h1, h2

Talk(o, class, scopes) ==
    [objects : {{o}}, class : {class}, sel : Selectors(IF o = plugin THEN "PlugIn" ELSE class) \cup {"Custom1"},
     scope : scopes, callers : {{h1}}, brief : {FALSE}]
Life(os, cs) ==
    [objects |-> os, class |-> "Device", sel |-> "Class", scope |-> "Global", callers |-> cs,
     brief |-> TRUE]
CustomDef == {"Custom1", "Custom2"}
PlaysDef ==
    Talk(plugin, "Device", {"Global"})
    \cup Talk(o1, "Device", {"Global", "Input"})
    \cup UNION {Talk(o1, class, {"Input"}) : class \in {"Stream", "Volume", "Mute"}}
    \cup {Life({plugin, o1, o2, o3}, {h1, h2}), Life({plugin, o1, o2, o3, o4}, {h1})}
Callers == Permutations({h1, h2})
=============================================================================
