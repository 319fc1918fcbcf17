---------------------------- MODULE HttpExchange ----------------------------
(* One request and its answer, end to end: the handlers main() registers, a  *)
(* client that connects, writes a request and takes the answer, and the      *)
(* protocol handler in between, which parses what one read returned, routes  *)
(* it, calls the handler and writes the answer's text. Both texts can break  *)
(* off: the server reads once, and its write gives up when the client is     *)
(* slow. The descriptors and threads of this are HttpService's.              *)
EXTENDS HttpRequest, RouteHandlers, ClientConnection

CONSTANTS
  Requests,     \* what clients ask, see RequestText
  ServerFiles,  \* key files the server can find
  ClientFile,   \* the key file the clients use
  Secrets       \* messages with a time and an id

\* The method and the target of a request are words, the target's query starts
\* with its question mark, and no header value breaks its line: a cookie does
\* not hold what separates cookies. A message the client encrypts is one of
\* bytes, and it does not send a form as well.
ASSUME RequestsAssumption ==
  \A a \in Requests :
    /\ a.method \notin White /\ a.path \notin White \cup {"?"}
    /\ a.query = <<>> \/ a.query[1] = "?"
    /\ IsText(a.query) /\ \A i \in DOMAIN a.query : a.query[i] \notin {CR, LF}
    /\ a.alive \in {"", "Connection", "connection"}
    /\ IsText(a.cookies)
    /\ \A i \in DOMAIN a.cookies, k \in 1..2 : a.cookies[i][k] \notin White \cup {";", "="}
    /\ a.encoding \notin White /\ a.length \notin White
    /\ IsText(a.secret) /\ \A i \in DOMAIN a.secret : a.secret[i] \in 0..255
    /\ a.form = <<>> \/ a.secret = <<>>
    /\ IsText(a.body) /\ IsText(a.form)
    /\ \A i \in DOMAIN a.form : IsText(a.form[i].lines)

\* Names, file names and lines of a form are words, none of them part of what
\* frames them, and no word is what a gzip stream ends with.
ASSUME FormsAssumption ==
  \A a \in Requests :
    /\ \A i \in DOMAIN a.form :
         LET f == a.form[i]
         IN /\ f.lines # <<>>
            /\ \A word \in {f.name, f.file} \cup ToSet(f.lines) :
                 word \notin White \cup {"--", "\"", "name=\"", "end"}
    /\ "end" \notin ToSet(a.body)

\* A key file holds nothing but armour and keys, and the clients have theirs.
ASSUME FilesAssumption ==
  /\ \A file \in ServerFiles \cup {ClientFile} :
       IsText(file.text) /\ ToSet(file.text) \subseteq Armour \cup {"k1", "k2"}
  /\ ClientFile.opens

\* A message, its time and its id are one byte each.
ASSUME SecretsAssumption ==
  Secrets \subseteq [message : 0..255, createdAt : 0..255, id : 0..255]

VARIABLES
  pc,        \* register, connect, send, parse, handle, receive or done
  handlers,  \* RouteHandlerFactory's map
  keyFile,   \* the key file the secret handler read
  asked,     \* what the client asks
  text,      \* what the server's read returned
  request,   \* the request the parser made of it
  answer,    \* the response the handler returned
  secret,    \* the message the secret handler put into it
  logged,    \* the client's message, as the secret handler logs it
  received   \* what the client got before the connection was closed

exchangeVars == <<asked, text, request, answer, secret, logged, received>>
vars == <<pc, handlers, keyFile, exchangeVars, connectionVars>>

Routes ==
  << RouteHandler(HttpMethod.POST, <<"/api/simple">>, "simple"),
     RouteHandler(HttpMethod.POST, <<"/api/secret">>, "secret"),
     RouteHandler(HttpMethod.GET, <<"/api/long">>, "long") >>

(*****************************************************************************)
(* The client's text, as HTTP/1.1 writes it.                                 *)
(*****************************************************************************)
Header(name, value) == <<name, ":", " ">> \o value \o Crlf
Joined(lines) == FlattenSeq([i \in DOMAIN lines |-> IF i = 1 THEN <<lines[i]>>
                                                   ELSE Crlf \o <<lines[i]>>])
FormPart(f) ==
  <<"--", "XX">> \o Crlf \o <<"Content-Disposition: form-data; ", "name=\"", f.name, "\"">>
  \o (IF f.file = "" THEN <<>> ELSE <<"; ", "file", "name=\"", f.file, "\"">>)
  \o Crlf \o Crlf \o Joined(f.lines) \o Crlf
Payload(a) ==
  CASE a.form # <<>> -> FlattenSeq([i \in DOMAIN a.form |-> FormPart(a.form[i])])
                        \o <<"--", "XX", "--">> \o Crlf
    [] a.secret # <<>> -> base64Encode(encrypt(Cipher(ClientFile), a.secret))
    [] OTHER -> a.body
Encoded(a) ==
  CASE a.encoding = "gzip" -> compressPayload(Payload(a))
    [] a.encoding = "deflate" -> <<"zlib">> \o Payload(a) \o <<"end">>
    [] OTHER -> Payload(a)
CookieValue(cookies) ==
  FlattenSeq([i \in DOMAIN cookies |->
    (IF i = 1 THEN <<>> ELSE <<";", " ">>) \o <<cookies[i][1], "=", cookies[i][2]>>])
RequestText(a) ==
  <<a.method, " ", a.path>> \o a.query \o <<" ", "HTTP/1.1">> \o Crlf
  \o (IF a.alive = "" THEN <<>> ELSE Header(a.alive, <<"keep-alive">>))
  \o (IF a.cookies = <<>> THEN <<>> ELSE Header("Cookie", CookieValue(a.cookies)))
  \o (IF a.form = <<>> THEN <<>>
      ELSE Header("Content-Type", <<"multipart/form-data", "; ", "boundary=", "XX">>))
  \o (IF a.encoding = "" THEN <<>> ELSE Header("Content-Encoding", <<a.encoding>>))
  \o (IF a.length = "" THEN <<>> ELSE Header("Content-Length",
        <<IF a.length = "right" THEN ToString(Len(Encoded(a))) ELSE a.length>>))
  \o Crlf \o Encoded(a)

\* The digits of a number are a word, and tell the number; an int holds the
\* length of what a client sends.
ASSUME NumbersAssumption ==
  /\ \A a \in Requests :
       ToString(Len(Encoded(a))) \notin White /\ ToString(Len(Encoded(a))) \in Numerals
  /\ \A m, n \in 0..505 : ToString(m) \notin White /\ (ToString(m) = ToString(n) => m = n)

-----------------------------------------------------------------------------
NoRequest == [mMethod |-> <<>>]
NoFile == [opens |-> FALSE, text |-> <<>>]
NoSecret == SecretMessage(0, 0, 0)

Init ==
  /\ pc = "register" /\ handlers = NoHandlers /\ keyFile = NoFile
  /\ asked \in Requests
  /\ text = <<>> /\ request = NoRequest /\ answer = DefaultResponse
  /\ secret = NoSecret /\ logged = <<>> /\ received = <<>>
  /\ ConnectionInit

\* main() registers the handlers, then starts the service.
Register ==
  /\ pc = "register"
  /\ LET n == Cardinality(DOMAIN handlers) + 1
     IN /\ handlers' = registerHandler(handlers, Routes[n])
        /\ pc' = IF n = Len(Routes) THEN "connect" ELSE "register"
  /\ UNCHANGED <<keyFile, exchangeVars, connectionVars>>

Connect ==
  /\ pc = "connect"
  /\ CreateSocket \/ Resolve \/ TryAddress
  /\ pc' = CASE built' = "yes" -> "send" [] built' = "threw" -> "done" [] OTHER -> pc
  /\ UNCHANGED <<handlers, keyFile, exchangeVars>>

\* The client writes; the server's one read returns what has arrived of it.
Send ==
  /\ pc = "send"
  /\ \E n \in 1..Len(RequestText(asked)) : text' = SubSeq(RequestText(asked), 1, n)
  /\ pc' = "parse"
  /\ UNCHANGED <<handlers, keyFile, asked, request, answer, secret, logged, received,
                 connectionVars>>

\* What parseHttpRequest throws ends the task: the connection is closed and
\* nothing is sent.
Parse ==
  /\ pc = "parse"
  /\ \/ /\ ParseThrows(text)
        /\ pc' = "done" /\ UNCHANGED request
     \/ /\ ~ParseThrows(text)
        /\ request' = ParseHttpRequest(text)
        /\ pc' = "handle"
  /\ UNCHANGED <<handlers, keyFile, asked, text, answer, secret, logged, received,
                 connectionVars>>

AnswerOf(handler) ==
  CASE handler = "simple" -> SimpleAnswer
    [] handler = "secret" -> SecretAnswer(request, keyFile', secret')
    [] handler = "long" -> LongAnswer
    [] OTHER -> Response(HttpResponseStatus.NOT_FOUND, "text/plain", <<"Not Found">>)

\* The secret handler makes its cipher from the key file for every request.
Handle ==
  /\ pc = "handle"
  /\ LET handler == getHandler(handlers, request.mMethod, request.mPath)
     IN /\ keyFile' \in IF handler = "secret" THEN ServerFiles ELSE {keyFile}
        /\ secret' \in IF handler = "secret" THEN Secrets ELSE {secret}
        /\ \E value \in HeaderValues(request, <<"Connection">>) :
             answer' = IF KeepAlive(value)
                       THEN addHeader(AnswerOf(handler), "Connection", "keep-alive")
                       ELSE AnswerOf(handler)
        /\ logged' = IF handler = "secret" THEN SecretLogged(request, keyFile') ELSE logged
  /\ pc' = "receive"
  /\ UNCHANGED <<handlers, asked, text, request, received, connectionVars>>

\* sendResponse() writes the text, or as much of it as the client takes, and
\* closes the socket.
Receive ==
  /\ pc = "receive"
  /\ \E n \in 0..Len(toString(answer)) : received' = SubSeq(toString(answer), 1, n)
  /\ pc' = "done"
  /\ UNCHANGED <<handlers, keyFile, asked, text, request, answer, secret, logged,
                 connectionVars>>

Next == Register \/ Connect \/ Send \/ Parse \/ Handle \/ Receive

Spec == Init /\ [][Next]_vars

-----------------------------------------------------------------------------
Arrived == text = RequestText(asked)
Parsed == pc \in {"handle", "receive", "done"} /\ request # NoRequest
Readable == asked.encoding # "deflate" /\ asked.length # ""

\* HttpRequest::parseHttpRequest, handleMultipartFormData: a request that arrives
\* whole with the right length, or with none, is never refused. Whole and not
\* refused it is understood as it was meant: its method, its path without the
\* query, its cookies, and its body once decompressed; of a form every field and
\* every file is found under its name, the last of those with the same name, with
\* the first line of its content, although the delimiter includes the carriage
\* return and never matches the closing one.
FilesAsked == {i \in DOMAIN asked.form : asked.form[i].file # ""}
RequestIsUnderstood ==
  /\ pc = "done" /\ Arrived /\ asked.length \in {"", "right"} => Parsed
  /\ Parsed /\ Arrived =>
    /\ request.mMethod = <<asked.method>> /\ request.mPath = <<asked.path>>
    /\ request.mCookies = Assigned([i \in DOMAIN asked.cookies |-> <<asked.cookies[i][1]>>],
                                   [i \in DOMAIN asked.cookies |-> <<asked.cookies[i][2]>>])
    /\ Readable =>
         /\ request.mBody = Payload(asked)
         /\ request.mFormFields =
              Assigned([i \in DOMAIN asked.form \ FilesAsked |-> <<asked.form[i].name>>],
                       [i \in DOMAIN asked.form \ FilesAsked |-> <<asked.form[i].lines[1]>>])
         /\ request.mFileUploads =
              Assigned([i \in FilesAsked |-> <<asked.form[i].file>>],
                       [i \in FilesAsked |-> <<asked.form[i].lines[1]>>])

\* HttpProtocolHandler::readRequest, HttpRequest::parseHttpRequest: wherever
\* the one read cuts the request off, the handler is given the start of the
\* body the client sent, compressed or not, and never anything else.
CutBodyIsAPrefix ==
  Parsed /\ asked.encoding # "deflate" => IsPrefix(request.mBody, Payload(asked))

\* What the client makes of the text it received: the length the head states,
\* and the body after it.
StatedLength == Headers(received)[<<"Content-Length">>]
ReceivedBody == From(received, Find(received, Crlf \o Crlf, 1) + 4)
TakenForWhole ==
  /\ Find(received, Crlf \o Crlf, 1) # 0
  /\ <<"Content-Length">> \in DOMAIN Headers(received)
  /\ Trim(StatedLength) = <<ToString(Len(ReceivedBody))>>

\* HttpResponse::toString, HttpRequest::keepAlive, sendResponse: a client that
\* believes the stated length never takes an answer that was cut off for a
\* whole one, and never a whole one for cut off: what it takes is the status
\* and the body the handler returned, and it is told to keep the connection
\* only if it asked for that, in whatever case, and always if its request arrived.
AnswerIsUnderstood ==
  LET told == <<"Connection">> \in DOMAIN Headers(received)
  IN pc = "done" =>
       /\ TakenForWhole => /\ ReceivedBody = answer.mBody
                           /\ received[3] = ToString(answer.mStatusCode)
                           /\ told => asked.alive # ""
                           /\ Arrived /\ asked.alive # "" => told
       /\ received # <<>> /\ received = toString(answer) => TakenForWhole

\* GetSecretRouteHandler, AESCipher: when client and server have key files
\* with the same key, wherever these break their lines, a secret that arrives whole
\* is decrypted to what the client meant. Whatever arrived, a client whose cipher
\* is the server's decrypts a secret that was answered to the bytes the server
\* encrypted and reads the server's message in them, its id included; what
\* cannot be decrypted is refused, and not logged.
KeysIn(file) == {"k1", "k2"} \cap ToSet(file.text)
SecretIsRead ==
  KeysIn(keyFile) = KeysIn(ClientFile) /\ Arrived /\ Readable /\ asked.secret # <<>> =>
    /\ logged = asked.secret
    /\ answer.mStatusCode = HttpResponseStatus.OK
AnswerIsReadable ==
  /\ answer.mStatusCode = HttpResponseStatus.OK /\ Cipher(keyFile) = Cipher(ClientFile) =>
       LET bytes == decrypt(Cipher(ClientFile), base64Decode(answer.mBody))
       IN bytes = to_json(secret) /\ from_json(bytes) = secret
  /\ answer.mStatusCode # HttpResponseStatus.OK => logged = <<>>
SecretsAreShared ==
  pc = "receive" /\ keyFile.opens => SecretIsRead /\ AnswerIsReadable

\* RouteHandlerFactory, HttpProtocolHandler::handleRequest: an answer to a
\* request whose first line arrived whole is Not Found exactly when main()
\* registered no handler for the method and the path.
RoutingIsExact ==
  LET start == Len(<<asked.method, " ", asked.path>> \o asked.query) + 1
  IN pc = "receive" /\ Len(text) >= start =>
       (answer.mStatusCode = HttpResponseStatus.NOT_FOUND
          <=> ~\E i \in DOMAIN Routes : /\ Routes[i].method_ = <<asked.method>>
                                        /\ Routes[i].path_ = <<asked.path>>)

\* Connection::Connection(host, port): the constructor returns only with a
\* socket that is connected, whichever of the addresses answered at once or in
\* the meantime, and otherwise leaves no descriptor open.
ConstructionIsAllOrNothing ==
  /\ built = "yes" => socket = "connected" /\ peer # "none"
  /\ built = "threw" => socket \in {"none", "closed"}
==============================================================================
