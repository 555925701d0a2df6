--------------------------- MODULE MCEximFilters ---------------------------
(* EximFilters for TLC: two values; files with a comment and an entry, with *)
(* an entry on an unterminated line, and none; comments of one line, or    *)
(* whose second line lists a value.                                        *)
EXTENDS EximFilters

CONSTANTS a, b

SomeFiles == {Absent, <<Line(NoValue, TRUE, TRUE), Line(a, TRUE, TRUE)>>, <<Line(a, FALSE, FALSE)>>}
SomeComments == {<<>>, <<a>>}
=============================================================================
