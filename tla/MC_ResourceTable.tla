--------------------------- MODULE MC_ResourceTable ---------------------------
(* Two managed threads; a plain name, a name with a "." in it, one type.  *)
EXTENDS ResourceTable

MCResNames == {<<"a">>, <<"a", ".", "b">>}
MCResTypes == {<<"t">>}
=============================================================================
