--------------------------- MODULE RouteHandlers ----------------------------
(* The registry of route handlers, and the three handlers of the demo.       *)
EXTENDS HttpResponse, AESCipher

HttpMethod ==
  [GET |-> <<"GET">>, POST |-> <<"POST">>, PUT |-> <<"PUT">>, DELETE |-> <<"DELETE">>,
   PATCH |-> <<"PATCH">>]

\* RouteHandler(method, path): what the handler answers to.
RouteHandler(method, path, answers) ==
  [method_ |-> method, path_ |-> path, answers |-> answers]

(* Slip: one handler per path, whatever the method.                          *)
KeyOfPath(method, path) == path

\* RouteHandlerFactory: one map, from method and path to the handler.
Key(method, path) == method \o <<":">> \o path
NoHandlers == NoMap
registerHandler(handlers, h) ==
  LET key == Key(h.method_, h.path_)
  IN [k \in {key} \cup DOMAIN handlers |-> IF k = key THEN h ELSE handlers[k]]
getHandler(handlers, method, path) ==
  LET key == Key(method, path)
  IN IF key \in DOMAIN handlers THEN handlers[key].answers ELSE "nullptr"

Json(status, body) ==
  setBody(addHeader(setStatusCode(DefaultResponse, status), "Content-Type",
                    "application/json"), body)

\* GetRouteHandler.
SimpleAnswer == Json(HttpResponseStatus.OK, <<"Hello, World!">>)

\* GetLongResponseRouteHandler: two loops of n rounds.
N == 12
Rounds == [i \in 1..N |-> i]
Fibonacci == FoldLeft(LAMBDA p, i : <<p[2], p[1] + p[2]>>, <<0, 1>>, Rounds)[2]
Factorial == FoldLeft(LAMBDA f, i : f * i, 1, Rounds)
LongAnswer ==
  Json(HttpResponseStatus.OK, <<"Fibonacci(", ToString(N), ") = ", ToString(Fibonacci),
             "Factorial(", ToString(N), ") = ", ToString(Factorial)>>)

\* SecretMessage, made at a time counted in tenths of a second, with an id of one
\* byte: to_json() and dump() as bytes, and from_json() of them.
getFormattedTime(time) == time \div 10
SecretMessage(message, time, id) ==
  [message |-> message, createdAt |-> getFormattedTime(time), id |-> id]
uuidToString(id) == <<id \div 16, id % 16>>
to_json(secret) == <<secret.message, secret.createdAt>> \o uuidToString(secret.id)
from_json(bytes) ==
  [message |-> bytes[1], createdAt |-> bytes[2], id |-> 16 * bytes[3] + bytes[4]]

\* GetSecretRouteHandler: the bytes the client sent, and the answer, which is
\* an error when they cannot be decrypted.
SentBytes(request) == base64Decode(request.mBody)
SecretAnswer(request, file, secret) ==
  IF DecryptThrows(Cipher(file), SentBytes(request))
  THEN Json(HttpResponseStatus.BAD_REQUEST, <<"Failed to create payload">>)
  ELSE Json(HttpResponseStatus.OK, base64Encode(encrypt(Cipher(file), to_json(secret))))

\* The line "Decrypted request data" of the log.
SecretLogged(request, file) ==
  IF DecryptThrows(Cipher(file), SentBytes(request)) THEN <<>>
  ELSE decrypt(Cipher(file), SentBytes(request))
==============================================================================
