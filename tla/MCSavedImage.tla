----------------------------- MODULE MCSavedImage -----------------------------
(* Small instances of SavedImage. *)
EXTENDS SavedImage

\* Two binaries that differ, one whose revision the other's extends.
Revisions == {<<"a">>, <<"a", "b">>, <<"b">>}

===============================================================================
