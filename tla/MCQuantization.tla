--------------------------- MODULE MCQuantization ---------------------------
(***************************************************************************)
(* Quantization on small instances: three dimensions, so that numbers of   *)
(* 3, 5 and 6 bits cross bytes; components below 0, between two roundings, *)
(* above half of what each type holds and above all of it, and one that    *)
(* wraps in the INT4 packing (2.0 * 64 = 128).                             *)
(***************************************************************************)
EXTENDS Quantization

MCComponents == <<-10, 1, 32, 88, 2400>>

\* Each component in each place, in three arrangements.
Arranged(i, j) == [d \in 1 .. 3 |-> MCComponents[1 + ((i + (d - 1) * j) % 5)]]

MCPassPoints == {Arranged(i, j) : i \in 0 .. 4, j \in 0 .. 2}

MCTrainedPoints == {<<-16, 0, 3>>, <<1, 8, 8>>, <<16, 40, -5>>, <<5, -7, 0>>}

MCSampleSets ==
    {<< <<-16, -3, 0>>, <<16, 8, 1>> >>,
     << <<4, 0, 7>>, <<-4, 0, 9>>, <<1, 0, -20>>, <<2, 16, 5>> >>,
     << <<9, 1, 1>>, <<8, 2, -2>>, <<7, 3, 3>>, <<6, 4, 4>>, <<5, 5, -5>>, <<4, 6, 6>>, <<3, 7, 7>> >>}
=============================================================================
