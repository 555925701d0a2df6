--------------------------- MODULE MCSuppression ---------------------------
(* Pages of two: the HTML page asks Brevo for two contacts and shows both, *)
(* the API asks for two and shows one, so that they share their pages with *)
(* each other and with the category counts.                                *)
EXTENDS Suppression

CONSTANTS c1, c2, c3

MCContacts == {c1, c2, c3}
MCTabOf == [c \in MCContacts |-> IF c = c2 THEN "blocked" ELSE "hard"]
View(cat, limit, peek) == [cat |-> cat, limit |-> limit, peek |-> peek]
MCViews == {View("all", 2, 0), View("all", 1, 1)}
FilteredViews == {View("hard", 2, 0)}
MCLists == {<<c1, c2, c3>>, <<c2>>}
=============================================================================
