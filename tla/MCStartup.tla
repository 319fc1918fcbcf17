----------------------------- MODULE MCStartup ------------------------------
(* Files, variables and arguments for TLC: of each kind the code tells apart. *)
EXTENDS Startup

File(pairs, whole) == [opens |-> TRUE, begins |-> TRUE, whole |-> whole, pairs |-> pairs]
MCConfigFiles ==
  { File(<<<<"port", Number(8080)>>, <<"log", String("a.log")>>>>, TRUE),
    File(<<<<"log", String("/no/x.log")>>, <<"port", Boolean(TRUE)>>, <<"host", Null>>>>, FALSE),
    [File(<<>>, FALSE) EXCEPT !.begins = FALSE],
    [File(<<>>, FALSE) EXCEPT !.begins = FALSE, !.opens = FALSE] }
MCEnvironment == [key \in {"port", "HOME"} |-> IF key = "port" THEN "9090" ELSE "/root"]
MCArguments == << <<"-v">>, <<"log", "b.log">>, <<"--port", "1">>, <<"log", "a.log">> >>
MCAssignments == { <<"port", Number(73616)>> }
=============================================================================
