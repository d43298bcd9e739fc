--------------------------- MODULE MCSystemChecks ---------------------------
(* Small versions and literals for TLC; 3 stands for a literal beyond i32. *)
EXTENDS SystemChecks

MCVersions == {<<2, 1>>, <<1, 2>>}
MCStartsWith == {<<"linux", "linux">>, <<"linux", "lin">>, <<"lin", "lin">>}
=============================================================================
