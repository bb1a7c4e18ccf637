--------------------------- MODULE MCCourseAssembly ---------------------------
(* CourseAssembly for TLC: two places are walked to from the first one, in  *)
(* both directions, the fourth is far from all.                             *)
EXTENDS CourseAssembly

MCCoord == <<0, 800, -800, 3000>>

Stay(p, minutes) == [place |-> p, stay |-> minutes]

(* Place 9 is not a candidate; the second draft repeats a place and has one *)
(* too many.                                                                *)
Drafts ==
    {<<Stay(1, 60), Stay(2, 60), Stay(4, 60)>>,
     <<Stay(2, 0), Stay(1, 60), Stay(2, 30), Stay(9, 60), Stay(3, 30), Stay(4, 10)>>,
     <<Stay(1, 60), Stay(2, 90)>>,
     <<Stay(9, 60)>>,
     <<Stay(4, 100), Stay(3, 100)>>}

MCAnswers == {None} \cup UNION {[1..n -> Drafts] : n \in 0..3}

MCRequests ==
    [ranked : {<<1, 2, 3, 4>>, <<4, 2, 3>>}, origin : {None, 400}, available : {None, 180},
     visit : {0, 1380}]
=============================================================================
