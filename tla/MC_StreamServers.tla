--------------------------- MODULE MC_StreamServers --------------------------
(* Constants for model checking StreamServers with Lowest = 3.             *)
EXTENDS StreamServers

MCPriorities == {1, 2}
MCMessages   == {Message("IMAGE", 1), Message("COLOR", 2), Message("BADIMAGE", 2),
                 Message("CLEAR", 2), Message("CLEARALL", -1),
                 Unparsable(Message("COLOR", 2)), Message("INCOMPLETE", -1)}
MCSymmetry   == Permutations(BoblightClients)

==============================================================================
