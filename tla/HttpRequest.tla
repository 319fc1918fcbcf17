---------------------------- MODULE HttpRequest -----------------------------
(* HttpRequest::parseHttpRequest: what the parser makes of the text of one   *)
(* read. A text may break off anywhere, because the protocol handler reads   *)
(* once and hands over what had arrived.                                     *)
EXTENDS Text

CONSTANT
  Numerals  \* the words std::stoi reads an int from; it need not read all of them

ContentLength == <<"Content-Length">>
ContentEncoding == <<"Content-Encoding">>
ContentType == <<"Content-Type">>
Authorization == <<"Authorization">>
Cookie == <<"Cookie">>

\* The first line: firstLineIss >> method >> path >> httpVersion.
FirstLine(text) == Before(text, LF)
MethodOf(line) == NextWord(line)
TargetOf(line) == NextWord(AfterWord(line))

\* The header lines end at an empty one, or with the text.
Headers(text) ==
  LET line(i) == Piece(text, i, LF)
      starts == Starts(text, LF) \ {1}
      blanks == {i \in starts : line(i) = <<CR>>}
      fields == {i \in starts : \A b \in blanks : i < b}
  IN Assigned([i \in fields |-> Before(line(i), ":")], [i \in fields |-> After(line(i), ":")])

\* The target up to its query. The query's pairs are put into a local map,
\* which the function then drops.
Path(target) == Before(target, "?")

\* The loop of inflate() calls over a gzip stream: it stops at the end of the
\* stream, and at the end of a stream that breaks off. Any other input, a
\* zlib ("deflate") stream too, is a data error at once.
Inflate(data) ==
  IF Find(data, <<"gzip">>, 1) = 1 THEN Before(Tail(data), "end") ELSE <<>>

Compressed(headers) ==
  /\ ContentEncoding \in DOMAIN headers
  /\ \E e \in {"gzip", "deflate"} : Contains(headers[ContentEncoding], e)

\* std::stoi of the content length throws where there is no number, or none that
\* an int can hold. Its value is not used.
BadLength(headers) ==
  LET digits == TrimLeft(headers[ContentLength], White)
  IN ContentLength \in DOMAIN headers /\ (digits # <<>> => digits[1] \notin Numerals)

(* Slip: the last character of the blank line is taken for the body.         *)
BodyFromLineFeed(text, headers) ==
  LET blank == Find(text, Crlf \o Crlf, 1)
      raw == IF blank = 0 THEN <<>> ELSE From(text, blank + 3)
  IN IF ContentLength \notin DOMAIN headers THEN <<>>
     ELSE IF Compressed(headers) THEN Inflate(raw) ELSE raw

\* Without a content length there is no body; with one it is all that follows
\* the blank line, however much that is.
Body(text, headers) ==
  LET blank == Find(text, Crlf \o Crlf, 1)
      raw == IF blank = 0 THEN <<>> ELSE From(text, blank + 4)
  IN IF ContentLength \notin DOMAIN headers THEN <<>>
     ELSE IF Compressed(headers) THEN Inflate(raw) ELSE raw

\* The value still has the blank it starts with, so find(' ') stops there.
AuthToken(headers) ==
  IF Authorization \notin DOMAIN headers THEN <<>>
  ELSE IF Before(headers[Authorization], " ") = <<"Bearer">>
       THEN After(headers[Authorization], " ") ELSE <<>>

Cookies(headers) ==
  LET value == headers[Cookie]
      pair(i) == Piece(value, i, ";")
      pairs == {i \in Starts(value, ";") : Contains(pair(i), "=")}
  IN IF Cookie \notin DOMAIN headers THEN NoMap
     ELSE Assigned(
       [i \in pairs |-> TrimRight(TrimLeft(Before(pair(i), "="), Blank), Blank)],
       [i \in pairs |-> TrimRight(TrimLeft(After(pair(i), "="), Blank), Blank \cup {CR})])

(*****************************************************************************)
(* handleMultipartFormData. The delimiter is everything after "boundary=",   *)
(* the carriage return that ends the header line included; with no           *)
(* "boundary=" it is what substr(npos + 9) leaves of the value.              *)
(*****************************************************************************)
IsForm(headers) ==
  ContentType \in DOMAIN headers /\ Contains(headers[ContentType], "multipart/form-data")

Delimiter(headers) ==
  LET p == Find(headers[ContentType], <<"boundary=">>, 1)
  IN <<"--">> \o (IF p = 0 THEN <<"rt/form-data", CR>>
                           ELSE From(headers[ContentType], p + 1))

\* One part per delimiter (no two of these overlap), less the two characters
\* before the next one. A part of less than two characters makes the length wrap
\* around and takes all the rest of the body.
Hits(headers, body) ==
  IF IsForm(headers) THEN {i \in DOMAIN body : Occurs(body, Delimiter(headers), i)} ELSE {}
Part(headers, body, i) ==
  LET start == i + Len(Delimiter(headers))
      hit == Find(body, Delimiter(headers), start)
      next == IF hit = 0 THEN Len(body) + 1 ELSE hit
  IN IF next - start < 2 THEN From(body, start) ELSE SubSeq(body, start, next - 3)

(* Slip: the content is all of the part after the blank line.                *)
WholePartBody(part) ==
  LET blank == Find(part, Crlf \o Crlf, 1)
  IN IF blank = 0 THEN <<"garbled">> ELSE From(part, blank + 4)

\* A part's first line, and its content, which ends at the first line break
\* after the blank line.
PartHead(part) ==
  LET blank == Find(part, Crlf \o Crlf, 1)
  IN Before(IF blank = 0 THEN part ELSE SubSeq(part, 1, blank - 1), CR)
PartBody(part) ==
  LET blank == Find(part, Crlf \o Crlf, 1)
      rest == IF blank = 0 THEN <<"garbled">> ELSE From(part, blank + 4)
      end == Find(rest, Crlf, 1)
  IN IF end = 0 THEN rest ELSE SubSeq(rest, 1, end - 1)

\* Where there is no blank line, substr(npos + 4) drops three characters, and
\* where the first line has no name, substr(npos + 6) drops five of it: both
\* throw when there are fewer.
Characters(words) == FoldLeft(LAMBDA count, word : count + Len(word), 0, words)
PartThrows(part) ==
  \/ Find(part, Crlf \o Crlf, 1) = 0 /\ Characters(part) < 3
  \/ Find(PartHead(part), <<"name=\"">>, 1) = 0 /\ Characters(PartHead(part)) < 5

\* The text in quotes after a key of the part's first header line.
Quoted(head, key) ==
  LET p == Find(head, key, 1)
  IN IF p = 0 THEN <<"garbled">> ELSE Before(From(head, p + Len(key)), "\"")
FieldName(part) == Quoted(PartHead(part), <<"name=\"">>)
IsFile(part) == Find(PartHead(part), <<"file", "name=\"">>, 1) # 0
FileName(part) == Quoted(PartHead(part), <<"file", "name=\"">>)

FormFields(headers, body) ==
  LET part(i) == Part(headers, body, i)
      fields == {i \in Hits(headers, body) : ~IsFile(part(i))}
  IN Assigned([i \in fields |-> FieldName(part(i))], [i \in fields |-> PartBody(part(i))])
FileUploads(headers, body) ==
  LET part(i) == Part(headers, body, i)
      files == {i \in Hits(headers, body) : IsFile(part(i))}
  IN Assigned([i \in files |-> FileName(part(i))], [i \in files |-> PartBody(part(i))])

(*****************************************************************************)
(* parseHttpRequest: it throws, or fills the members of the request.         *)
(*****************************************************************************)
ParseThrows(text) ==
  LET headers == Headers(text)
      body == Body(text, headers)
  IN \/ BadLength(headers)
     \/ \E i \in Hits(headers, body) : PartThrows(Part(headers, body, i))

ParseHttpRequest(text) ==
  LET line == FirstLine(text)
      headers == Headers(text)
      body == Body(text, headers)
  IN [mMethod |-> MethodOf(line), mPath |-> Path(TargetOf(line)), mHeaders |-> headers,
      mBody |-> body, mAuthToken |-> AuthToken(headers), mCookies |-> Cookies(headers),
      mFormFields |-> FormFields(headers, body), mFileUploads |-> FileUploads(headers, body)]

\* getHeaderValue() ignores case; of two headers that differ in case only it
\* returns the one the hash map happens to list first.
HeaderValues(request, key) ==
  LET names == {n \in DOMAIN request.mHeaders : Lower(n) = Lower(key)}
  IN IF names = {} THEN {<<>>} ELSE {request.mHeaders[n] : n \in names}

KeepAlive(value) == value # <<>> /\ Trim(value) = <<"keep-alive">>
==============================================================================
