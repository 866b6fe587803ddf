----------------------------- MODULE MCSiteFiles -----------------------------
(* An editable file in the root, a name that is a file or a directory, and a  *)
(* path below it; a short and a long content, so that a file that is not      *)
(* truncated shows.                                                           *)
EXTENDS SiteFiles, TLC

MCPaths == {<< >>, <<"index">>, <<"d">>, <<"d", "x">>}
MCEditable == {<<"index">>}
MCContents == {<<"s">>, <<"l", "l">>}
Symmetry == Permutations(Requests)
=============================================================================
