-------------------------- MODULE MCClassicFilter --------------------------
(***************************************************************************)
(* Small instances of ClassicFilter: two planes of three singular values,  *)
(* in units of 10^-4.  A value below 10 is lost to every threshold; 20 out *)
(* of 100 is lost once the threshold d has passed 20 hundredths.           *)
(***************************************************************************)
EXTENDS ClassicFilter

\* Reduced to the largest values of its planes, 100 and 100.
Plain == << <<100, 60, 5>>, <<100, 35, 20>> >>
\* Loses its second plane and, at every threshold, half of its filters.
Weak == << <<100, 20, 20>>, <<8, 5, 5>> >>
\* Equal values, and one so much smaller that it is never counted.
Even == << <<9000, 9000, 5>>, <<60, 30, 12>> >>
\* Would be emptied by the first threshold.
Tiny == << <<8, 5, 0>>, <<8, 0, 0>> >>
\* The required part of its filters is reached exactly.
Half == << <<50, 20, 15>>, <<100, 60, 0>> >>

CodeStart == -1000
\* All thresholds up to 0.1 act alike: they remove the values below 10.
ShortStart == -10

FileDetectors == {Plain, Weak, Even, Tiny, Half}
=============================================================================
