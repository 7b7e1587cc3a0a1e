--------------------------- MODULE MCMqttInbound ---------------------------
EXTENDS TopicFilterReference

CONSTANTS long, twin, short, huge

MCMessage == {long, twin, short, huge}
MCTopic == [m \in MCMessage |-> IF m = twin THEN <<"a", "/", "c">> ELSE <<"a", "/", "b">>]
MCSize == [m \in MCMessage |-> CASE m = short -> 1 [] m = huge -> 4 [] OTHER -> 3]
MCLevel == {<<>>, <<"a">>, <<"b">>, <<"a", "b">>}
MCFilter == {<<"a", "/", "+">>, <<"a", "/", "c">>}
=============================================================================
