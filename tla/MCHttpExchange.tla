--------------------------- MODULE MCHttpExchange ---------------------------
(* Requests of every kind the parser tells apart, for TLC.                   *)
EXTENDS HttpExchange

MCNumerals == {ToString(n) : n \in 0..999}
MCResolutions ==
  {<<>>, <<"127.0.0.1">>, <<"127.0.0.1", "10.0.0.1">>, <<"::1", "127.0.0.1">>}
MCServerFiles ==
  { [opens |-> TRUE, text |-> <<"BEGIN", "\n", "k1", "\n", "END", "\n">>],
    [opens |-> TRUE, text |-> <<"k2">>], [opens |-> FALSE, text |-> <<>>] }
MCClientFile == [opens |-> TRUE, text |-> <<"BEGIN", "\r", "\n", " ", "k1", "END">>]
MCSecrets == {SecretMessage(72, 9, 255), SecretMessage(1, 640, 4)}

Plain ==
  [method |-> "POST", path |-> "/api/simple", query |-> <<>>, length |-> "right",
   encoding |-> "", alive |-> "", cookies |-> <<>>, form |-> <<>>, secret |-> <<>>,
   body |-> <<>>]

Bodies == {<<>>, <<"{", "a", "}">>, <<"{">> \o Crlf \o Crlf \o <<"}">>}
Field(name, lines) == [name |-> name, file |-> "", lines |-> lines]
File(name, file, lines) == [name |-> name, file |-> file, lines |-> lines]

Routed ==
  { [Plain EXCEPT !.method = m, !.path = p, !.query = q] :
      m \in {"GET", "POST"}, p \in {"/api/simple", "/api/long", "/api/none"},
      q \in {<<>>, <<"?", "a", "=", "1", "&", "b">>} }
Bodied ==
  { [Plain EXCEPT !.body = b, !.encoding = e, !.length = l] :
      b \in Bodies, e \in {"", "identity", "gzip", "deflate"}, l \in {"", "right", "x"} }
WithHeaders ==
  { [Plain EXCEPT !.alive = a, !.cookies = c, !.body = b] :
      a \in {"", "Connection", "connection"}, b \in {<<"{">>},
      c \in {<<>>, <<<<"s", "1">>>>, <<<<"s", "1">>, <<"t", "2">>, <<"s", "3">>>>} }
Forms ==
  { [Plain EXCEPT !.form = f, !.encoding = e] : e \in {"", "gzip"},
      f \in { <<Field("f", <<"v">>)>>,
              <<Field("f", <<"v", "w">>), Field("g", <<"x">>)>>,
              <<Field("f", <<"v">>), File("u", "n", <<"x", "y">>), Field("f", <<"z">>)>> } }
\* More than 99 lexemes long, so that the length has three digits.
Long ==
  { [Plain EXCEPT !.form = [i \in 1..7 |-> Field(IF i < 5 THEN "f" ELSE "g", <<"v">>)]],
    [Plain EXCEPT !.path = "/api/secret", !.secret = [i \in 1..75 |-> 3 * i]] }
Secretive ==
  { [Plain EXCEPT !.path = "/api/secret", !.secret = s] :
      s \in {<<b>> : b \in {0, 63, 127, 255}} \cup {<<1, 2>>, <<250, 4, 3>>, <<0, 255, 64, 128>>,
            <<9, 8, 7, 6, 5, 4, 3, 2>>} }
  \cup {[Plain EXCEPT !.path = "/api/secret"]}

MCRequests == Routed \cup Bodied \cup WithHeaders \cup Forms \cup Long \cup Secretive
==============================================================================
