-------------------------- MODULE MCPluginManager --------------------------
(***************************************************************************)
(* A plugin, one that requires it, and one that requires that one and      *)
(* itself; the first can be reconfigured and has lifecycle hooks.          *)
(***************************************************************************)
EXTENDS PluginManager

CONSTANTS base, mid, loop, c1, c2

MCPlugin == {base, mid, loop}
MCRequires ==
  [p \in MCPlugin |-> CASE p = base -> {}
                        [] p = mid  -> {base}
                        [] p = loop -> {mid, loop}]
MCConfig == [p \in MCPlugin |-> IF p = base THEN {c1, c2} ELSE {c1}]
MCReconfigurable == {base}

=============================================================================
