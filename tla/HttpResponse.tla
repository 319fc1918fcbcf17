---------------------------- MODULE HttpResponse ----------------------------
(* HttpResponse: the members a route handler sets, and the text toString()   *)
(* makes of them. A body is a sequence of lexemes, its length their number.  *)
EXTENDS Text

HttpResponseStatus ==
  [OK |-> 200, CREATED |-> 201, ACCEPTED |-> 202, NO_CONTENT |-> 204,
   MOVED_PERMANENTLY |-> 301, FOUND |-> 302, SEE_OTHER |-> 303, NOT_MODIFIED |-> 304,
   TEMPORARY_REDIRECT |-> 307, PERMANENT_REDIRECT |-> 308, BAD_REQUEST |-> 400,
   UNAUTHORIZED |-> 401, FORBIDDEN |-> 403, NOT_FOUND |-> 404, METHOD_NOT_ALLOWED |-> 405,
   INTERNAL_SERVER_ERROR |-> 500, NOT_IMPLEMENTED |-> 501, BAD_GATEWAY |-> 502,
   SERVICE_UNAVAILABLE |-> 503, GATEWAY_TIMEOUT |-> 504, HTTP_VERSION_NOT_SUPPORTED |-> 505]

getStatusDescription(code) ==
  CASE code = 200 -> "OK" [] code = 201 -> "Created" [] code = 202 -> "Accepted"
    [] code = 204 -> "No Content" [] code = 301 -> "Moved Permanently" [] code = 302 -> "Found"
    [] code = 303 -> "See Other" [] code = 304 -> "Not Modified"
    [] code = 307 -> "Temporary Redirect" [] code = 308 -> "Permanent Redirect"
    [] code = 400 -> "Bad Request" [] code = 401 -> "Unauthorized" [] code = 403 -> "Forbidden"
    [] code = 404 -> "Not Found" [] code = 405 -> "Method Not Allowed"
    [] code = 500 -> "Internal Server Error" [] code = 501 -> "Not Implemented"
    [] code = 502 -> "Bad Gateway" [] code = 503 -> "Service Unavailable"
    [] code = 504 -> "Gateway Timeout" [] code = 505 -> "HTTP Version Not Supported"
    [] OTHER -> ""

Response(code, contentType, body) ==
  [mStatusCode |-> code, mContentType |-> contentType, mBody |-> body,
   mHeaders |-> NoMap]
DefaultResponse == Response(HttpResponseStatus.OK, "text/plain", <<>>)

setStatusCode(response, code) == [response EXCEPT !.mStatusCode = code]
setBody(response, body) == [response EXCEPT !.mBody = body]
addHeader(response, name, value) ==
  [response EXCEPT !.mHeaders = [n \in {name} \cup DOMAIN @ |->
                                   IF n = name THEN value ELSE @[n]]]

\* HttpResponseUtils::compressPayload: one whole gzip stream.
compressPayload(data) == <<"gzip">> \o data \o <<"end">>

corsHeadersDefault ==
  [n \in {"Access-Control-Allow-Origin", "Access-Control-Allow-Methods",
          "Access-Control-Allow-Headers"} |->
     CASE n = "Access-Control-Allow-Origin" -> "*"
       [] n = "Access-Control-Allow-Methods" -> "GET, POST, PUT, DELETE, OPTIONS"
       [] n = "Access-Control-Allow-Headers" -> "Content-Type, Authorization"]

\* The header lines of a map, in the order of some enumeration of its names.
HeaderLines(headers) ==
  LET names == CHOOSE s \in [1..Cardinality(DOMAIN headers) -> DOMAIN headers] :
                 IsInjective(s)
  IN FlattenSeq([i \in DOMAIN names |-> <<names[i], ":", " ", headers[names[i]]>> \o Crlf])

(* Slip: no blank line between the head and the body.                        *)
toStringUnbroken(response) ==
  <<"HTTP/1.1", " ", ToString(response.mStatusCode), " ",
    getStatusDescription(response.mStatusCode)>> \o Crlf
  \o <<"Content-Length", ":", " ", ToString(Len(response.mBody))>> \o Crlf
  \o HeaderLines(response.mHeaders) \o response.mBody

\* toString(): the default headers replace the handler's; the content type
\* given to the constructor is not written.
Headed(response) ==
  [response EXCEPT !.mHeaders =
     [n \in DOMAIN corsHeadersDefault \cup DOMAIN @ |->
        IF n \in DOMAIN corsHeadersDefault THEN corsHeadersDefault[n] ELSE @[n]]]
toString(response) ==
  <<"HTTP/1.1", " ", ToString(response.mStatusCode), " ",
    getStatusDescription(response.mStatusCode)>> \o Crlf
  \o <<"Content-Length", ":", " ", ToString(Len(response.mBody))>> \o Crlf
  \o HeaderLines(Headed(response).mHeaders)
  \o Crlf \o response.mBody
==============================================================================
