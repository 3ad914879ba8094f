---------------------------- MODULE MCRootfsMount ----------------------------
(***************************************************************************)
(* Small instances of RootfsMount for TLC.                                 *)
(***************************************************************************)
EXTENDS RootfsMount, TLC

Dir(n) == <<Slash, "s", Slash, n>>

(* Overlays whose layers part inside a name, or at the root where they     *)
(* need the names they have; a bind mount, an image.                       *)
Overlay(dirs) ==
  [fs |-> "overlay", big |-> TRUE,
   options |-> <<Option("workdir"), Lowerdir(dirs), Option("ro")>>]
PartsInName == Overlay(<<Dir("1"), Dir("1") \o <<"0">>>>)
PartsAtRoot == Overlay(<<Dir("1"), Dir("2"), <<Slash, "x">>>>)
Bind ==
  [fs |-> "bind", big |-> FALSE, options |-> <<Option("rbind"), Option("rw"), Option("ro")>>]
Image == [fs |-> "erofs", big |-> FALSE, options |-> <<Option("ro"), Option("loop")>>]
WritableImage == [fs |-> "erofs", big |-> FALSE, options |-> <<Option("loop")>>]

SomeRootfses == {<<PartsInName, PartsAtRoot>>, <<Image>>, <<WritableImage, Bind>>}
==============================================================================
