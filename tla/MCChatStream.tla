--------------------------- MODULE MCChatStream ---------------------------
(* Instances of ChatStream for TLC.                                        *)
EXTENDS ChatStream, TLC

CONSTANTS s1, s2, d1, d2, c1

MCStreams == {s1, s2}
MCDialog == {d1}
MCDialogs == {d1, d2}
MCId == {c1}
MCCall(id, parses, tool) == [id |-> id, parses |-> parses, tool |-> tool]
MCPlain == {MCCall(c1, TRUE, "plain")}
MCCalls == MCPlain \cup {MCCall(c1, FALSE, "plain"), MCCall(NoId, TRUE, "title"),
                         MCCall(c1, TRUE, "title")}
MCSymmetry == Permutations(MCStreams)
=============================================================================
