------------------------------ MODULE MCChatTurns ------------------------------
EXTENDS ChatTurns

MadeUp == {-4, -3, -2, -1}

Deletes == {"delete"}

\* A turn with tools and a repetition, one during which a chat is deleted and
\* another model is tried, and two that may overlap.
Tooled == [turns |-> {1}, tooled |-> {1}, looping |-> {1}, titles |-> {FALSE},
           said |-> 2, models |-> 0, fails |-> TRUE, calls |-> FALSE]
Disturbed == [turns |-> {1}, tooled |-> {}, looping |-> {}, titles |-> BOOLEAN,
              said |-> 1, models |-> 1, fails |-> TRUE, calls |-> TRUE]
Overlapping == [turns |-> {1, 2}, tooled |-> {}, looping |-> {}, titles |-> {FALSE},
                said |-> 1, models |-> 0, fails |-> FALSE, calls |-> FALSE]
One == {[Tooled EXCEPT !.tooled = {}, !.looping = {}]}
Three == {Tooled, Disturbed, Overlapping}
=============================================================================
