---------------------------- MODULE MCSlideshow ----------------------------
(***************************************************************************)
(* Instances of Slideshow for TLC.                                         *)
(***************************************************************************)
EXTENDS Slideshow

Everything == [slug |-> "everything", source |-> "all", mode |-> "spotlight"]
Guests == [slug |-> "guests", source |-> "guest", mode |-> "cinema"]

MCEvents == {<<Everything>>, <<Guests, Everything>>}

Picture(n, type) == [id |-> n, type |-> type]

MCGalleries ==
  {<<>>, <<Picture(1, "Guest"), Picture(2, "Couple"), Picture(3, "Guest")>>}

=============================================================================
