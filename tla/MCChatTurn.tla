----------------------------- MODULE MCChatTurn -----------------------------
(* ChatTurn for TLC: years of two days, the first and the fourth with a     *)
(* leap day "C"; no year has a day "D".                                     *)
EXTENDS ChatTurn, Sequences, TLC

MCCalendar ==
    LET day(y, m) == [year |-> y, month_day |-> m]
        days == << day(0, "A"), day(0, "B"), day(0, "C"), day(1, "A"), day(1, "B"),
                   day(2, "A"), day(2, "B"), day(3, "A"), day(3, "B"), day(3, "C") >>
    IN  [d \in 0..(Len(days) - 1) |-> days[d + 1]]

Symmetry == Permutations(Places)
=============================================================================
