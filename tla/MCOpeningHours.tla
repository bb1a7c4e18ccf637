---------------------------- MODULE MCOpeningHours ----------------------------
(* OpeningHours for TLC: the kinds of days there are, among them a break    *)
(* followed by a night, with four ticks a day: midnight, two times between, *)
(* and 23:59.                                                               *)
EXTENDS OpeningHours

From(open, close) == [open |-> open, close |-> close]

MCDayTexts ==
    {Unknown, {}, {From(0, 3)}, {From(1, 3)}, {From(1, 4)}, {From(2, 0)}, {From(1, 2)},
     {From(0, 2)}, {From(2, 1)}, {From(3, 2)}, {From(1, 2), From(3, 1)},
     {From(0, 1), From(2, 4)}}

MCNoticeTexts == {{}, {From(1, 2)}, {From(2, 1)}}
=============================================================================
