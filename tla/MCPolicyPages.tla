----------------------------- MODULE MCPolicyPages -----------------------------
(* The policy pages on small instances.                                    *)
EXTENDS PolicyPages

MCKind == [s \in {"room_temperature", "kids_detected", "time_of_day"} |->
             CASE s = "room_temperature" -> "number"
               [] s = "kids_detected" -> "bool"
               [] s = "time_of_day" -> "enum"]
MCSignals == DOMAIN MCKind
MCDefault == [s \in MCSignals |->
                CASE s = "room_temperature" -> None
                  [] s = "kids_detected" -> <<"bool", 1>>
                  [] s = "time_of_day" -> <<"text", "night">>]
MCEnumValues == [s \in MCSignals |-> IF s = "time_of_day" THEN {"day", "night"} ELSE {}]

\* "move" is a skill and a category.
MCCategory == [k \in {"move", "wait"} |-> IF k = "move" THEN "move" ELSE None]

MCTyped == {{}, {<<"text", "night">>}}

Is(signal, op, v) == [signal |-> signal, op |-> op, list |-> FALSE, values |-> {v}]

Row(mode, terms) ==
    [enabled |-> TRUE, kind |-> "skills", values |-> {"move"}, roles |-> {"guest"},
     mode |-> mode, terms |-> terms]

\* The operators that are not chosen are those of the old policies.
MCRows == {Row("any_of", <<Is("room_temperature", ">", <<"number", 0>>),
                           Is("room_temperature", "<=", <<"number", 0>>)>>),
           Row("all_of", <<Is("room_temperature", ">=", <<"number", 9>>),
                           [signal |-> "time_of_day", op |-> "not_in", list |-> TRUE,
                            values |-> {<<"text", "night">>}]>>),
           Row("all_of", <<Is("kids_detected", "!=", <<"bool", 0>>),
                           Is("room_temperature", "<", <<"number", 9>>)>>)}

MCResumed == {Row("all_of", <<Is("kids_detected", "==", <<"bool", 0>>)>>)}
=============================================================================
