-------------------------- MODULE MCImageRequests --------------------------
(***************************************************************************)
(* Four requests share two permits: two images of different shapes,        *)
(* the second too large for what the first leaves; two more, the first     *)
(* fetched over http and the second too long to fit however it is scaled;  *)
(* an image and a stray pad in the text; and text with a pad but no image. *)
(***************************************************************************)
EXTENDS ImageRequests, TLC

Requests ==
  ("two"   :> [tokens |-> <<"a", Pad, "b", Pad>>, maxNew |-> 3,
               images |-> <<[size |-> <<4, 6>>, http |-> FALSE],
                            [size |-> <<8, 4>>, http |-> FALSE]>>]) @@
  ("long"  :> [tokens |-> <<Pad, "a", Pad>>, maxNew |-> 2,
               images |-> <<[size |-> <<4, 6>>, http |-> TRUE],
                            [size |-> <<10, 1>>, http |-> FALSE]>>]) @@
  ("stray" :> [tokens |-> <<Pad, "a", Pad>>, maxNew |-> 1,
               images |-> <<[size |-> <<4, 4>>, http |-> FALSE]>>]) @@
  ("text"  :> [tokens |-> <<"a", Pad, "a">>, maxNew |-> 2, images |-> <<>>])
=============================================================================
