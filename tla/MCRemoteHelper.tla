--------------------------- MODULE MCRemoteHelper ---------------------------
(* Small instances of RemoteHelper for TLC. *)
EXTENDS RemoteHelper

\* home and menu share a key, a hold and a tap; selecth and vlup are other holds; bogus is
\* in neither table.
MCNavEvents == {"home", "menu", "vlup", "bogus"}
MCTwoEvents == {"home", "menu"}
\* Decoded texts: one that is shorter than the deletions reach, one that is not, and the
\* one that decodes to nothing.
MCTexts == {<<>>, <<"a">>, <<"b", "c", "d">>}
MCOneText == {<<"a">>}
MCNoEvents == {}
=============================================================================
