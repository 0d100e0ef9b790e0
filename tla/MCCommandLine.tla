---------------------------- MODULE MCCommandLine ----------------------------
(* CommandLine with good, bad and misplaced arguments. *)
EXTENDS CommandLine

Token(name, value) == [name |-> name, value |-> value]

MCTokens ==
  {Token("server", "s"), Token("server", "t"), Token("server", "not a URL"),
   Token("group", "g"),
   Token("service-name", ""), Token("json", "true"),
   Token("timeout", "malformed"), Token("nope", ""), Token("h", ""),
   Token("", "stray")}
=============================================================================
