--------------------------- MODULE MC_EffectEngine ---------------------------
(* Constants for model checking EffectEngine with Lowest = 3.              *)
EXTENDS EffectEngine

CONSTANTS e1, e2, c

MCEffects        == {e1, e2}
MCSymmetry       == Permutations(MCEffects)
MCColors         == {e1, e2, c}
MCPriorities     == {0, 2}
MCPrioritiesOne  == {0}
MCNames          == {"rainbow"}
MCEffectTimeouts == {0, 1}
MCClientTimeouts == {0}
MCStart          == {"none", "color", "effect"}
MCForegrounds    == {"none", "effect"}
MCNone           == {"none"}

==============================================================================
