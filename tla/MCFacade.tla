------------------------------ MODULE MCFacade ------------------------------
(* Facade with every short path of a few servers, good and bad, and of a few *)
(* executables, which neither start nor end in a blank and hold no quote.    *)
EXTENDS Facade

CONSTANT PathLength

MCPaths ==
  {p \in BoundedSeq({"/", "x", "%2F"}, PathLength) :
     p # <<>> => p[1] = "/"}

\* Without a host there is nothing in front of the path.
MCUrls ==
  [scheme : {"", "https", "ftp"}, host : {"", "h", "malformed"},
   path : MCPaths, tail : BOOLEAN]

MCExecutables == {<<"x">>, <<"x", " ", "x">>, <<"x", "x">>}

MCArguments == BoundedSeq({"a", " ", "\""}, 2)

MCArchs == {0, 3, 43, 7}
=============================================================================
