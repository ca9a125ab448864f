--------------------------- MODULE MCGroundClient ---------------------------
(***************************************************************************)
(* Small instances of GroundClient: 32-bit numbers wrap at 3, so that the  *)
(* largest period is 2; a frame goes out in at most two pieces.            *)
(***************************************************************************)
EXTENDS GroundClient

Line(word, arguments) == [word |-> word, arguments |-> arguments]

SomeLines ==
  {Bare("ping"), Line("period", <<2>>), Line("period", <<3>>), Bare("quit")}
AllLines ==
  SomeLines \cup {Bare("safe"), Line("ping", <<1>>), Line("period", <<>>)}

AllKinds == {"terminal", "pipe", "file"}

SomeFiles == {<<a, b, c>> : a, b, c \in SomeLines} \cup {<<a>> : a \in SomeLines}

(* For liveness a valid and an invalid line will do.                       *)
LiveLines == {Bare("ping"), Line("period", <<3>>)}
LiveFiles == {<<a, b>> : a, b \in LiveLines}
=============================================================================
