--------------------------- MODULE MCDocumentPurge ---------------------------
(* DocumentPurge on a small instance.                                      *)
EXTENDS DocumentPurge

\* The first version's pages, and the thumbnail of the one on its way.
ThumbAndPage == {<<"page", First>>, <<"thumb", Second>>}

\* One failure and both drawings; or one failure and a restore.
OneFailure == [faults |-> 1, restores |-> 0, drawings |-> ThumbAndPage]
OneRestore == [faults |-> 1, restores |-> 1, drawings |-> {}]
SmallBounds == {OneFailure, OneRestore}
=============================================================================
