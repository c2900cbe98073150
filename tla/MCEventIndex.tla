---------------------------- MODULE MCEventIndex ----------------------------
(***************************************************************************)
(* Two jobs for TLC.  The first has two signatures, one that finds no      *)
(* event and one that finds two, of which the second reads one again.      *)
(***************************************************************************)
EXTENDS EventIndex, TLC

CONSTANTS first, second, transfer, approval, h1, h2, lower, other

TwoJobs    == {first, second}
TwoEvents  == {transfer, approval}
TwoHashes  == {h1, h2}
SomeLogs   == (first :> << <<>>, <<transfer, approval>> >>)
                @@ (second :> << <<transfer>> >>)
SomeHashes    == (transfer :> h1) @@ (approval :> h2)
SomeAddresses == (transfer :> lower) @@ (approval :> other)
Asked == [s \in Subscribers |-> lower]
=============================================================================
