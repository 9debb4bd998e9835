--------------------------- MODULE MCCalendarSync ---------------------------
(* Small instances of CalendarSync for TLC. *)
EXTENDS CalendarSync, TLC

CONSTANTS c1, c2, e1, e2, e3, w1

TwoCalendars == <<c1, c2>>
OneEach      == (e1 :> c1) @@ (e2 :> c2)
\* Two events for one page of one.
TwoAndOne    == (e1 :> c1) @@ (e2 :> c1) @@ (e3 :> c2)
\* Only the first event is edited.
OneEdit == [e \in Events |-> IF e = e1 THEN 2 ELSE 1]

OneCalendar  == <<c1>>
AllInOne     == [e \in Events |-> c1]

\* _slug keeps 80 characters: two long ids, such as those of imported events, have
\* one slug when they begin alike.
OwnName    == [e \in Events |-> e]
CommonSlug == [e \in Events |-> e1]
=============================================================================
