------------------------- MODULE HttpExchangeProofs -------------------------
(***************************************************************************)
(* Proofs about one exchange, for any set of requests, messages, addresses *)
(* and key files: the client's constructor succeeds or leaves nothing      *)
(* behind; an answer is Not Found exactly when no handler was registered   *)
(* for the request; a request that arrives whole is understood as it was   *)
(* meant, and one that does not never yields a body that was not sent; the *)
(* client tells a whole answer from one that was cut off; and a secret is  *)
(* read by whoever has its key. The invariants behind these are short.     *)
(* What is long is what they need to know of the parser, of toString(), of *)
(* base 64 and of the cipher: so most of this module is about texts, what  *)
(* cutting, joining and searching them gives, and about bytes.             *)
(***************************************************************************)
EXTENDS HttpExchange, SequenceTheorems, FiniteSetTheorems, WellFoundedInduction,
        NaturalsInduction, TLAPS

-----------------------------------------------------------------------------
(* Texts: what makes one, and what is made of several. *)

(* A function on 1..n is a text. *)
LEMMA MapIsText ==
  ASSUME NEW n \in Nat, NEW s, DOMAIN s = 1..n, s = [i \in 1..n |-> s[i]]
  PROVE  IsText(s)
<1>1. s \in [1..n -> ToSet(s)]
  BY DEF ToSet
<1> QED BY <1>1, SeqDef DEF IsText

(* A sequence over any set is a text. *)
LEMMA SeqIsText ==
  ASSUME NEW S, NEW s \in Seq(S)
  PROVE  IsText(s)
<1>1. Len(s) \in Nat /\ s \in [1..Len(s) -> S]
  BY LenProperties
<1> QED BY <1>1, MapIsText

(* Two texts joined are a text. *)
LEMMA ConcatIsText ==
  ASSUME NEW s, NEW t, IsText(s), IsText(t)
  PROVE  IsText(s \o t)
<1> DEFINE S == ToSet(s) \cup ToSet(t)
<1>1. s \in Seq(S) /\ t \in Seq(S)
  <2>1. s \in Seq(ToSet(s)) /\ t \in Seq(ToSet(t))
    BY DEF IsText
  <2>2. \A A, B : A \subseteq B => Seq(A) \subseteq Seq(B)
    BY SeqDef
  <2> QED BY <2>1, <2>2
<1>2. s \o t \in Seq(S)
  BY <1>1, ConcatProperties
<1> QED BY <1>2, SeqIsText

(* A non-empty set of naturals has a least element. *)
LEMMA SmallestNumber ==
  ASSUME NEW S \in SUBSET Nat, S # {}
  PROVE  \E m \in S : \A n \in S : m <= n
<1>1. IsWellFoundedOn(OpToRel(<, Nat), Nat)
  BY NatLessThanWellFounded
<1>2. PICK m \in S : \A n \in S : ~(<<n, m>> \in OpToRel(<, Nat))
  BY <1>1, WFMin
<1>3. \A n \in S : ~(n < m)
  BY <1>2 DEF OpToRel
<1> QED BY <1>3

Flattens(f, seqs, n) ==
  f = [i \in 1..n |-> IF i = 1 THEN seqs[i] ELSE f[i-1] \o seqs[i]]

(* The recursive function FlattenSeq is defined by exists for any length:  *)
(* by the least length it would not exist for.                             *)
LEMMA FlattenExists ==
  ASSUME NEW seqs, NEW n \in Nat
  PROVE  \E f : Flattens(f, seqs, n)
<1> DEFINE S == {k \in Nat : ~\E f : Flattens(f, seqs, k)}
<1>1. SUFFICES ASSUME S # {} PROVE FALSE
  BY DEF Flattens
<1>2. PICK m \in S : \A k \in S : m <= k
  BY <1>1, SmallestNumber
<1>3. Flattens([i \in 1..0 |-> seqs[i]], seqs, 0)
  BY DEF Flattens
<1>4. m \in Nat \ {0} /\ m - 1 \in Nat /\ m - 1 \notin S
  BY <1>2, <1>3
<1>5. PICK f : Flattens(f, seqs, m - 1)
  BY <1>4
<1> DEFINE g == [i \in 1..m |-> IF i < m THEN f[i]
                                ELSE IF i = 1 THEN seqs[i] ELSE f[i-1] \o seqs[i]]
<1>6. ASSUME NEW i \in 1..m
      PROVE  g[i] = IF i = 1 THEN seqs[i] ELSE g[i-1] \o seqs[i]
  <2>1. CASE i = m
    BY <1>4, <2>1
  <2>2. CASE i < m
    <3>1. \A j \in 1..(m-1) : f[j] = IF j = 1 THEN seqs[j] ELSE f[j-1] \o seqs[j]
      BY <1>5 DEF Flattens
    <3> QED BY <1>4, <2>2, <3>1
  <2> QED BY <1>4, <2>1, <2>2
<1>7. Flattens(g, seqs, m)
  <2> DEFINE h == [i \in 1..m |-> IF i = 1 THEN seqs[i] ELSE g[i-1] \o seqs[i]]
  <2>1. g = h
    <3> HIDE DEF h
    <3>1. DOMAIN h = 1..m /\ \A i \in 1..m : h[i] = g[i]
      BY <1>6 DEF h
    <3>2. h = [i \in 1..m |-> h[i]]
      BY DEF h
    <3>3. DOMAIN g = 1..m /\ g = [i \in 1..m |-> g[i]]
      OBVIOUS
    <3> HIDE DEF g
    <3> QED BY <3>1, <3>2, <3>3
  <2> QED BY <2>1 DEF Flattens
<1> QED BY <1>2, <1>7

(* FlattenSeq of texts is a text: by the first of its partial results      *)
(* that would not be one.                                                  *)
LEMMA FlattenIsText ==
  ASSUME NEW seqs, IsText(seqs), \A i \in DOMAIN seqs : IsText(seqs[i])
  PROVE  IsText(FlattenSeq(seqs))
<1>0. Len(seqs) \in Nat /\ DOMAIN seqs = 1..Len(seqs)
  BY LenProperties DEF IsText
<1> DEFINE f == CHOOSE g : Flattens(g, seqs, Len(seqs))
<1>1. ASSUME Len(seqs) # 0
      PROVE FlattenSeq(seqs) = f[Len(seqs)]
  BY <1>1 DEF FlattenSeq, Flattens
<1>2. Flattens(f, seqs, Len(seqs))
  BY <1>0, FlattenExists
<1> HIDE DEF f
<1> DEFINE S == {k \in 1..Len(seqs) : ~IsText(f[k])}
<1>3. S = {}
  <2>1. SUFFICES ASSUME S # {} PROVE FALSE
    OBVIOUS
  <2>2. PICK m \in S : \A k \in S : m <= k
    <3>1. S \in SUBSET Nat
      BY <1>0
    <3> QED BY <3>1, <2>1, SmallestNumber
  <2>3. f[m] = IF m = 1 THEN seqs[m] ELSE f[m-1] \o seqs[m]
    BY <1>2, <2>2 DEF Flattens
  <2>4. m = 1 \/ IsText(f[m-1])
    BY <1>0, <2>2
  <2>5. IsText(seqs[m])
    BY <1>0
  <2> QED BY <2>2, <2>3, <2>4, <2>5, ConcatIsText
<1>4. CASE Len(seqs) = 0
  BY <1>4 DEF FlattenSeq
<1>5. CASE Len(seqs) # 0
  BY <1>0, <1>1, <1>3, <1>5
<1> QED BY <1>4, <1>5

(* So are a few words. *)
LEMMA WordsAreText ==
  ASSUME NEW u, NEW v, NEW w
  PROVE  IsText(<<>>) /\ IsText(<<u>>) /\ IsText(<<u, v>>) /\ IsText(<<u, v, w>>)
<1>1. <<>> \in Seq({}) /\ <<u>> \in Seq({u}) /\ <<u, v>> \in Seq({u, v})
      /\ <<u, v, w>> \in Seq({u, v, w})
  OBVIOUS
<1> QED BY <1>1, SeqIsText

(* What encrypt() and base64Encode() return is a text. *)
LEMMA EncryptIsText ==
  ASSUME NEW key, NEW data, IsText(data)
  PROVE  IsText(base64Encode(encrypt(key, data)))
<1>1. Len(data) \in Nat /\ DOMAIN data = 1..Len(data)
  BY LenProperties DEF IsText
<1>2. IsText(Padded(data))
  <2> DEFINE n == Block - (Len(data) % Block)
             fill == [i \in 1..n |-> n]
  <2>1. n \in Nat
    BY <1>1 DEF Block
  <2> HIDE DEF n
  <2>2. IsText(fill)
    BY <2>1, MapIsText
  <2> QED BY <2>2, ConcatIsText DEF Padded, n
<1> DEFINE padded == Padded(data)
           shifted == Shifted(padded, key)
<1>3. Len(padded) \in Nat /\ DOMAIN padded = 1..Len(padded)
  BY <1>2, LenProperties DEF IsText
<1>4. IsText(shifted)
  <2> HIDE DEF padded
  <2> QED BY <1>3, MapIsText DEF Shifted
<1> HIDE DEF shifted
<1> DEFINE n == Len(shifted)
           group(g) == [k \in 1..3 |-> IF 3 * g + k <= Len(shifted)
                                       THEN shifted[3 * g + k] ELSE 0]
           chars == [i \in 1..((8 * n + 5) \div 6) |->
                       Base64Chars[Quadruple(group((i - 1) \div 4))[((i - 1) % 4) + 1] + 1]]
           fill == [i \in 1..((3 - (n % 3)) % 3) |-> "="]
<1>5. n \in Nat
  BY <1>4, LenProperties DEF IsText
<1> HIDE DEF n
<1>6. (8 * n + 5) \div 6 \in Nat /\ (3 - (n % 3)) % 3 \in Nat
  BY <1>5
<1>7. IsText(chars) /\ IsText(fill)
  BY <1>6, MapIsText
<1>8. IsText(chars \o fill)
  <2> HIDE DEF chars, fill
  <2> QED BY <1>7, ConcatIsText
<1> QED BY <1>8 DEF base64Encode, encrypt, n, shifted


-----------------------------------------------------------------------------
(* The text of a request, and how it starts. *)

(* The lines of a form field, as the client joins them. *)
LEMMA JoinedIsText ==
  ASSUME NEW lines, IsText(lines)
  PROVE  IsText(Joined(lines))
<1> DEFINE parts == [i \in DOMAIN lines |-> IF i = 1 THEN <<lines[i]>>
                                            ELSE Crlf \o <<lines[i]>>]
<1>1. Len(lines) \in Nat /\ DOMAIN lines = 1..Len(lines)
  BY LenProperties DEF IsText
<1>2. IsText(parts)
  BY <1>1, MapIsText
<1>3. \A i \in DOMAIN parts : IsText(parts[i])
  BY WordsAreText, ConcatIsText DEF Crlf
<1> HIDE DEF parts
<1>4. IsText(FlattenSeq(parts))
  BY <1>2, <1>3, FlattenIsText
<1> QED BY <1>4 DEF Joined, parts

(* One part of a form. *)
LEMMA FormPartIsText ==
  ASSUME NEW f, IsText(f.lines)
  PROVE  IsText(FormPart(f))
<1> DEFINE a == <<"--", "XX">>
           b == <<"Content-Disposition: form-data; ", "name=\"", f.name, "\"">>
           c == IF f.file = "" THEN <<>> ELSE <<"; ", "file", "name=\"", f.file, "\"">>
           d == Joined(f.lines)
<1>1. IsText(a) /\ IsText(b) /\ IsText(c) /\ IsText(d) /\ IsText(Crlf)
  <2>1. b \in Seq({b[1], b[2], b[3], b[4]})
    OBVIOUS
  <2>3. IsText(c)
    <3>1. <<"; ", "file", "name=\"", f.file, "\"">>
          \in Seq({"; ", "file", "name=\"", f.file, "\""})
      OBVIOUS
    <3> QED BY <3>1, SeqIsText, WordsAreText
  <2> QED BY <2>1, <2>3, SeqIsText, WordsAreText, JoinedIsText DEF Crlf
<1> HIDE DEF a, b, c, d
<1>2. IsText(a \o Crlf \o b \o c \o Crlf \o Crlf \o d \o Crlf)
  BY <1>1, ConcatIsText
<1> QED BY <1>2 DEF FormPart, a, b, c, d

(* The body the client means, and the one it sends. *)
LEMMA PayloadIsText ==
  ASSUME NEW a \in Requests
  PROVE  IsText(Payload(a)) /\ IsText(Encoded(a))
<1> DEFINE parts == [i \in DOMAIN a.form |-> FormPart(a.form[i])]
<1>1. IsText(FlattenSeq(parts))
  <2>1. Len(a.form) \in Nat /\ DOMAIN a.form = 1..Len(a.form)
    BY RequestsAssumption, LenProperties DEF IsText
  <2>2. IsText(parts)
    BY <2>1, MapIsText
  <2>3. \A i \in DOMAIN parts : IsText(parts[i])
    BY RequestsAssumption, FormPartIsText
  <2> HIDE DEF parts
  <2> QED BY <2>2, <2>3, FlattenIsText
<1>2. IsText(<<"--", "XX", "--">> \o Crlf)
  BY WordsAreText, ConcatIsText DEF Crlf
<1>3. IsText(FlattenSeq(parts) \o <<"--", "XX", "--">> \o Crlf)
  <2> HIDE DEF parts
  <2>1. IsText(FlattenSeq(parts) \o <<"--", "XX", "--">>) /\ IsText(Crlf)
    BY <1>1, WordsAreText, ConcatIsText DEF Crlf
  <2> QED BY <2>1, ConcatIsText
<1>4. IsText(base64Encode(encrypt(Cipher(ClientFile), a.secret))) /\ IsText(a.body)
  BY RequestsAssumption, EncryptIsText
<1>5. IsText(Payload(a))
  BY <1>3, <1>4 DEF Payload
<1>6. /\ IsText(<<"gzip">> \o Payload(a) \o <<"end">>)
      /\ IsText(<<"zlib">> \o Payload(a) \o <<"end">>)
  BY <1>5, WordsAreText, ConcatIsText
<1> QED BY <1>5, <1>6 DEF Encoded, compressPayload

(* The value of the Cookie header. *)
LEMMA CookieValueIsText ==
  ASSUME NEW cookies, IsText(cookies)
  PROVE  IsText(CookieValue(cookies))
<1> DEFINE parts == [i \in DOMAIN cookies |->
                       (IF i = 1 THEN <<>> ELSE <<";", " ">>)
                       \o <<cookies[i][1], "=", cookies[i][2]>>]
<1>1. Len(cookies) \in Nat /\ DOMAIN cookies = 1..Len(cookies)
  BY LenProperties DEF IsText
<1>2. IsText(parts)
  BY <1>1, MapIsText
<1>3. \A i \in DOMAIN parts : IsText(parts[i])
  BY WordsAreText, ConcatIsText
<1> HIDE DEF parts
<1>4. IsText(FlattenSeq(parts))
  BY <1>2, <1>3, FlattenIsText
<1> QED BY <1>4 DEF CookieValue, parts

(* A header line. *)
LEMMA HeaderIsText ==
  ASSUME NEW name, NEW value, IsText(value)
  PROVE  IsText(Header(name, value))
BY WordsAreText, ConcatIsText DEF Header, Crlf

(* A request line's start: the method, a blank, the path, and what follows. *)
Space == " "
Opens(s, a) ==
  /\ IsText(s) /\ Len(s) >= 4
  /\ s[1] = a.method /\ s[2] = Space /\ s[3] = a.path /\ s[4] \in {"?", Space}

(* What follows a first line does not change how the text starts. *)
LEMMA ConcatOpens ==
  ASSUME NEW a, NEW s, NEW t, Opens(s, a), IsText(t)
  PROVE  Opens(s \o t, a)
<1> DEFINE S == ToSet(s) \cup ToSet(t)
<1>1. s \in Seq(S) /\ t \in Seq(S)
  <2>1. s \in Seq(ToSet(s)) /\ t \in Seq(ToSet(t))
    BY DEF IsText, Opens
  <2>2. \A A, B : A \subseteq B => Seq(A) \subseteq Seq(B)
    BY SeqDef
  <2> QED BY <2>1, <2>2
<1> HIDE DEF S
<1>2. /\ Len(s \o t) = Len(s) + Len(t)
      /\ \A i \in 1..Len(s) : (s \o t)[i] = s[i]
      /\ Len(s) \in Nat /\ Len(t) \in Nat
  BY <1>1, ConcatProperties, LenProperties
<1> QED BY <1>2, ConcatIsText DEF Opens

(* The first line up to the query has three lexemes and the query. *)
LEMMA StartLength ==
  ASSUME NEW a, NEW query, IsText(query)
  PROVE  Len(<<a.method, Space, a.path>> \o query) >= 3
<1> DEFINE start == <<a.method, Space, a.path>>
           S == {a.method, Space, a.path} \cup ToSet(query)
<1>1. start \in Seq(S) /\ query \in Seq(S)
  <2>1. \A A, B : A \subseteq B => Seq(A) \subseteq Seq(B)
    BY SeqDef
  <2>2. start \in Seq({a.method, Space, a.path}) /\ query \in Seq(ToSet(query))
    BY DEF IsText
  <2> HIDE DEF start
  <2> QED BY <2>1, <2>2
<1>2. Len(start) = 3
  OBVIOUS
<1> HIDE DEF S, start
<1>3. Len(start \o query) = Len(start) + Len(query) /\ Len(query) \in Nat
  BY <1>1, ConcatProperties, LenProperties
<1>4. Len(start \o query) >= 3
  BY <1>2, <1>3
<1> QED BY <1>4 DEF start

(* The line the client writes starts with the method, a blank and the      *)
(* path, and then with the query or the blank before the version.          *)
LEMMA LineOpens ==
  ASSUME NEW a, NEW query, NEW end, IsText(query), IsText(end), end # <<>>,
         query = <<>> \/ query[1] = "?", end[1] = Space
  PROVE  Opens(<<a.method, Space, a.path>> \o query \o end, a)
<1> DEFINE start == <<a.method, Space, a.path>>
           S == {a.method, Space, a.path} \cup ToSet(query) \cup ToSet(end)
<1>1. start \in Seq(S) /\ query \in Seq(S) /\ end \in Seq(S)
  <2>1. \A A, B : A \subseteq B => Seq(A) \subseteq Seq(B)
    BY SeqDef
  <2>2. start \in Seq({a.method, Space, a.path}) /\ query \in Seq(ToSet(query))
        /\ end \in Seq(ToSet(end))
    BY DEF IsText
  <2> HIDE DEF start
  <2> QED BY <2>1, <2>2
<1>2. Len(start) = 3 /\ start[1] = a.method /\ start[2] = Space /\ start[3] = a.path
  OBVIOUS
<1> HIDE DEF S, start
<1>3. /\ start \o query \in Seq(S) /\ Len(start \o query) = 3 + Len(query)
      /\ Len(query) \in Nat /\ Len(end) \in Nat \ {0}
      /\ \A i \in 1..3 : (start \o query)[i] = start[i]
      /\ query # <<>> => Len(query) >= 1 /\ (start \o query)[4] = query[1]
  <2>1. Len(query) \in Nat /\ Len(end) \in Nat \ {0} /\ (query # <<>> => Len(query) >= 1)
    BY <1>1, LenProperties, EmptySeq
  <2>2. /\ start \o query \in Seq(S) /\ Len(start \o query) = 3 + Len(query)
        /\ \A i \in 1..(3 + Len(query)) :
             (start \o query)[i] = IF i <= 3 THEN start[i] ELSE query[i - 3]
    <3>1. /\ start \o query \in Seq(S) /\ Len(start \o query) = Len(start) + Len(query)
          /\ \A i \in 1..(Len(start) + Len(query)) :
               (start \o query)[i] = IF i <= Len(start) THEN start[i]
                                     ELSE query[i - Len(start)]
      BY <1>1, ConcatProperties
    <3> QED BY <1>2, <3>1
  <2>3. \A i \in 1..3 : (start \o query)[i] = start[i]
    BY <2>1, <2>2
  <2>4. ASSUME query # <<>> PROVE (start \o query)[4] = query[1]
    <3>1. 4 \in 1..(3 + Len(query))
      BY <2>1, <2>4
    <3> QED BY <2>2, <3>1
  <2> QED BY <2>1, <2>2, <2>3, <2>4
<1> DEFINE line == (start \o query) \o end
<1>4. /\ line \in Seq(S) /\ Len(line) = 3 + Len(query) + Len(end)
      /\ \A i \in 1..(3 + Len(query)) : line[i] = (start \o query)[i]
      /\ line[4 + Len(query)] = end[1]
  <2>1. /\ line \in Seq(S) /\ Len(line) = 3 + Len(query) + Len(end)
        /\ \A i \in 1..(3 + Len(query) + Len(end)) :
             line[i] = IF i <= 3 + Len(query) THEN (start \o query)[i]
                       ELSE end[i - (3 + Len(query))]
    <3> DEFINE front == start \o query
    <3>1. front \in Seq(S) /\ Len(front) = 3 + Len(query)
      BY <1>3
    <3> HIDE DEF front
    <3>2. /\ front \o end \in Seq(S) /\ Len(front \o end) = Len(front) + Len(end)
          /\ \A i \in 1..(Len(front) + Len(end)) :
               (front \o end)[i] = IF i <= Len(front) THEN front[i]
                                   ELSE end[i - Len(front)]
      <4>1. front \in Seq(S) /\ end \in Seq(S)
        BY <1>1, <3>1
      <4> QED BY ONLY <4>1, ConcatProperties
    <3> QED BY <3>1, <3>2 DEF front
  <2> HIDE DEF line
  <2>2. 4 + Len(query) \in 1..(3 + Len(query) + Len(end))
    BY <1>3
  <2>3. line[4 + Len(query)] = end[1]
    BY <1>3, <2>1, <2>2
  <2>4. \A i \in 1..(3 + Len(query)) : line[i] = (start \o query)[i]
    BY <1>3, <2>1
  <2> QED BY <2>1, <2>3, <2>4
<1> HIDE DEF line
<1>5. line[1] = a.method /\ line[2] = Space /\ line[3] = a.path
  BY <1>2, <1>3, <1>4
<1>6. line[4] \in {"?", Space}
  <2>1. CASE query = <<>>
    <3>1. Len(query) = 0
      BY <2>1
    <3> QED BY <1>4, <3>1
  <2>2. CASE query # <<>>
    BY <1>3, <1>4, <2>2
  <2> QED BY <2>1, <2>2
<1>7. IsText(line) /\ Len(line) >= 4
  BY <1>3, <1>4, SeqIsText
<1>8. Opens(line, a)
  BY <1>5, <1>6, <1>7 DEF Opens
<1> QED BY <1>8 DEF line, start

(* And so does the whole text of a request. *)
LEMMA RequestOpens ==
  ASSUME NEW a \in Requests
  PROVE  Opens(RequestText(a), a)
<1> DEFINE line == <<a.method, " ", a.path>> \o a.query \o <<" ", "HTTP/1.1">>
           alive == IF a.alive = "" THEN <<>> ELSE Header(a.alive, <<"keep-alive">>)
           cookies == IF a.cookies = <<>> THEN <<>>
                      ELSE Header("Cookie", CookieValue(a.cookies))
           form == IF a.form = <<>> THEN <<>>
                   ELSE Header("Content-Type",
                               <<"multipart/form-data", "; ", "boundary=", "XX">>)
           encoding == IF a.encoding = "" THEN <<>>
                       ELSE Header("Content-Encoding", <<a.encoding>>)
           length == IF a.length = "" THEN <<>> ELSE Header("Content-Length",
                       <<IF a.length = "right" THEN ToString(Len(Encoded(a))) ELSE a.length>>)
<1>1. Opens(line, a)
  <2>1. \A u, v : IsText(<<u, v>>) /\ <<u, v>> # <<>> /\ <<u, v>>[1] = u
    BY WordsAreText
  <2>2. IsText(a.query) /\ (a.query = <<>> \/ a.query[1] = "?")
    BY RequestsAssumption
  <2>3. \A v : Opens(<<a.method, Space, a.path>> \o a.query \o <<Space, v>>, a)
    BY <2>1, <2>2, LineOpens
  <2> QED BY <2>3 DEF Space
<1>2. /\ IsText(alive) /\ IsText(cookies) /\ IsText(form) /\ IsText(encoding)
      /\ IsText(length) /\ IsText(Crlf) /\ IsText(Encoded(a))
  <2>1. <<"multipart/form-data", "; ", "boundary=", "XX">>
        \in Seq({"multipart/form-data", "; ", "boundary=", "XX"})
    OBVIOUS
  <2>2. IsText(<<"multipart/form-data", "; ", "boundary=", "XX">>)
    BY <2>1, SeqIsText
  <2>3. IsText(CookieValue(a.cookies))
    BY RequestsAssumption, CookieValueIsText
  <2>4. IsText(form)
    BY <2>2, HeaderIsText, WordsAreText
  <2>5. IsText(cookies)
    BY <2>3, HeaderIsText, WordsAreText
  <2>6. IsText(alive) /\ IsText(encoding) /\ IsText(length)
    BY HeaderIsText, WordsAreText
  <2> QED BY <2>4, <2>5, <2>6, PayloadIsText, WordsAreText DEF Crlf
<1> HIDE DEF line, alive, cookies, form, encoding, length
<1>3. Opens(line \o Crlf \o alive \o cookies \o form, a)
  BY <1>1, <1>2, ConcatOpens
<1>4. Opens((line \o Crlf \o alive \o cookies \o form)
            \o encoding \o length \o Crlf \o Encoded(a), a)
  BY <1>2, <1>3, ConcatOpens
<1> QED BY <1>4 DEF RequestText, line, alive, cookies, form, encoding, length

-----------------------------------------------------------------------------
(* The first line as the parser reads it. *)

(* The least element, when it is known. *)
LEMMA MinIs ==
  ASSUME NEW S \in SUBSET Nat, NEW m \in S, \A k \in S : m <= k
  PROVE  Min(S) = m
<1>1. \A k \in S : (\A j \in S : k <= j) => k = m
  BY Z3
<1> QED BY <1>1 DEF Min

(* substr() of a text: a text, its length and its lexemes. *)
LEMMA CutIsText ==
  ASSUME NEW s, IsText(s), NEW i \in 1..(Len(s) + 1), NEW j \in 0..Len(s)
  PROVE  /\ IsText(SubSeq(s, i, j))
         /\ i <= j + 1 => Len(SubSeq(s, i, j)) = j - i + 1
         /\ \A k \in 1..(j - i + 1) : SubSeq(s, i, j)[k] = s[i + k - 1]
<1>1. s \in Seq(ToSet(s)) /\ Len(s) \in Nat
  BY LenProperties DEF IsText
<1>2. /\ SubSeq(s, i, j) \in Seq(ToSet(s))
      /\ Len(SubSeq(s, i, j)) = IF i <= j THEN j - i + 1 ELSE 0
      /\ \A k \in 1..(j - i + 1) : SubSeq(s, i, j)[k] = s[i + k - 1]
  BY <1>1, SubSeqProperties
<1>3. i <= j + 1 => Len(SubSeq(s, i, j)) = j - i + 1
  BY <1>1, <1>2
<1> QED BY <1>2, <1>3, SeqIsText

(* find() of a single character is the first place it stands at. *)
LEMMA FindOne ==
  ASSUME NEW s, IsText(s), NEW d
  PROVE  LET hits == {i \in 1..Len(s) : s[i] = d}
         IN Find(s, <<d>>, 1) = IF hits = {} THEN 0 ELSE Min(hits)
<1>1. Len(s) \in Nat
  BY LenProperties DEF IsText
<1>2. \A i \in 1..Len(s) : Occurs(s, <<d>>, i) <=> s[i] = d
  BY <1>1 DEF Occurs
<1>3. {i \in 1..Len(s) : Occurs(s, <<d>>, i)} = {i \in 1..Len(s) : s[i] = d}
  BY <1>2
<1> QED BY <1>3 DEF Find

(* std::getline() up to a character whose first place is known. *)
LEMMA BeforeFirst ==
  ASSUME NEW s, IsText(s), NEW d, NEW k \in 1..Len(s), s[k] = d,
         \A i \in 1..(k - 1) : s[i] # d
  PROVE  Before(s, d) = SubSeq(s, 1, k - 1)
<1> DEFINE hits == {i \in 1..Len(s) : s[i] = d}
<1>1. Len(s) \in Nat
  BY LenProperties DEF IsText
<1>2. hits \in SUBSET Nat /\ k \in hits /\ \A i \in hits : k <= i
  BY <1>1
<1>3. Min(hits) = k
  <2> HIDE DEF hits
  <2> QED BY <1>2, MinIs
<1>4. Find(s, <<d>>, 1) = k
  BY <1>2, <1>3, FindOne
<1> QED BY <1>1, <1>4 DEF Before

(* std::getline() keeps a start that does not hold the character. *)
LEMMA BeforeKeeps ==
  ASSUME NEW s, IsText(s), NEW d, NEW k \in 0..Len(s), \A i \in 1..k : s[i] # d
  PROVE  /\ IsText(Before(s, d)) /\ Len(Before(s, d)) >= k
         /\ \A i \in 1..k : Before(s, d)[i] = s[i]
<1>1. Len(s) \in Nat
  BY LenProperties DEF IsText
<1> DEFINE hits == {i \in 1..Len(s) : s[i] = d}
<1>2. CASE hits = {}
  <2>1. Find(s, <<d>>, 1) = 0
    BY <1>2, FindOne
  <2> QED BY <1>1, <2>1 DEF Before
<1>3. CASE hits # {}
  <2>1. hits \in SUBSET Nat
    BY <1>1
  <2>2. PICK m \in hits : \A i \in hits : m <= i
    <3> HIDE DEF hits
    <3> QED BY <1>3, <2>1, SmallestNumber
  <2>3. m > k /\ m \in 1..Len(s)
    BY <1>1, <2>2
  <2>4. \A i \in 1..(m - 1) : s[i] # d
    BY <1>1, <2>2
  <2>5. Before(s, d) = SubSeq(s, 1, m - 1)
    BY <2>2, <2>3, <2>4, BeforeFirst
  <2>6. /\ IsText(SubSeq(s, 1, m - 1)) /\ Len(SubSeq(s, 1, m - 1)) = m - 1
        /\ \A i \in 1..(m - 1) : SubSeq(s, 1, m - 1)[i] = s[i]
    <3>1. 1 \in 1..(Len(s) + 1) /\ m - 1 \in 0..Len(s)
      BY <1>1, <2>3
    <3>2. /\ IsText(SubSeq(s, 1, m - 1))
          /\ 1 <= m - 1 + 1 => Len(SubSeq(s, 1, m - 1)) = m - 1 - 1 + 1
          /\ \A i \in 1..(m - 1 - 1 + 1) : SubSeq(s, 1, m - 1)[i] = s[1 + i - 1]
      BY <3>1, CutIsText
    <3> QED BY <2>3, <3>2
  <2> QED BY <1>1, <2>3, <2>5, <2>6
<1> QED BY <1>2, <1>3

(* What is left of a text whose first k characters are dropped. *)
LEMMA TrimLeftCuts ==
  ASSUME NEW s, IsText(s), NEW set, NEW b \in 1..Len(s), s[b] \notin set,
         \A i \in 1..(b - 1) : s[i] \in set
  PROVE  /\ IsText(TrimLeft(s, set)) /\ Len(TrimLeft(s, set)) = Len(s) - b + 1
         /\ \A i \in 1..(Len(s) - b + 1) : TrimLeft(s, set)[i] = s[b + i - 1]
<1> DEFINE kept == {i \in DOMAIN s : s[i] \notin set}
<1>1. Len(s) \in Nat /\ DOMAIN s = 1..Len(s)
  BY LenProperties DEF IsText
<1>2. kept \in SUBSET Nat /\ b \in kept /\ \A i \in kept : b <= i
  BY <1>1
<1>3. Min(kept) = b /\ kept # {}
  <2> HIDE DEF kept
  <2> QED BY <1>2, MinIs
<1>4. TrimLeft(s, set) = SubSeq(s, b, Len(s))
  BY <1>3 DEF TrimLeft, From
<1>5. b \in 1..(Len(s) + 1) /\ Len(s) \in 0..Len(s) /\ b <= Len(s) + 1
  BY <1>1
<1> QED BY <1>4, <1>5, CutIsText

(* operator>> of a word whose end is known. *)
LEMMA FirstWord ==
  ASSUME NEW s, NEW t, t = TrimLeft(s, White), IsText(t),
         NEW e \in 1..Len(t), t[e] \in White, \A i \in 1..(e - 1) : t[i] \notin White
  PROVE  NextWord(s) = SubSeq(t, 1, e - 1) /\ AfterWord(s) = SubSeq(t, e, Len(t))
<1> DEFINE ends == {i \in DOMAIN t : t[i] \in White}
<1>1. Len(t) \in Nat /\ DOMAIN t = 1..Len(t)
  BY LenProperties DEF IsText
<1>2. ends \in SUBSET Nat /\ e \in ends /\ \A i \in ends : e <= i
  BY <1>1
<1>3. Min(ends) = e /\ ends # {}
  <2> HIDE DEF ends
  <2> QED BY <1>2, MinIs
<1> QED BY <1>3 DEF NextWord, AfterWord, From

(* operator>> keeps a start without white space. *)
LEMMA FirstWordKeeps ==
  ASSUME NEW s, NEW t, t = TrimLeft(s, White), IsText(t),
         NEW k \in 0..Len(t), \A i \in 1..k : t[i] \notin White
  PROVE  /\ IsText(NextWord(s)) /\ Len(NextWord(s)) >= k
         /\ \A i \in 1..k : NextWord(s)[i] = t[i]
<1> DEFINE ends == {i \in DOMAIN t : t[i] \in White}
<1>1. Len(t) \in Nat /\ DOMAIN t = 1..Len(t)
  BY LenProperties DEF IsText
<1>2. CASE ends = {}
  <2>1. NextWord(s) = t
    BY <1>2 DEF NextWord
  <2> QED BY <1>1, <2>1
<1>3. CASE ends # {}
  <2>1. ends \in SUBSET Nat
    BY <1>1
  <2>2. PICK m \in ends : \A i \in ends : m <= i
    <3> HIDE DEF ends
    <3> QED BY <1>3, <2>1, SmallestNumber
  <2>3. m > k /\ m \in 1..Len(t) /\ t[m] \in White
    BY <1>1, <2>2
  <2>4. \A i \in 1..(m - 1) : t[i] \notin White
    BY <1>1, <2>2
  <2>5. NextWord(s) = SubSeq(t, 1, m - 1)
    BY <2>3, <2>4, FirstWord
  <2>6. 1 \in 1..(Len(t) + 1) /\ m - 1 \in 0..Len(t)
    BY <1>1, <2>3
  <2>7. /\ IsText(SubSeq(t, 1, m - 1))
        /\ 1 <= m - 1 + 1 => Len(SubSeq(t, 1, m - 1)) = m - 1 - 1 + 1
        /\ \A i \in 1..(m - 1 - 1 + 1) : SubSeq(t, 1, m - 1)[i] = t[1 + i - 1]
    BY <2>6, CutIsText
  <2> QED BY <1>1, <2>3, <2>5, <2>7
<1> QED BY <1>2, <1>3

(* The first lexeme alone. *)
LEMMA OneWord ==
  ASSUME NEW s, IsText(s), Len(s) >= 1
  PROVE  SubSeq(s, 1, 1) = <<s[1]>>
<1>1. s \in Seq(ToSet(s)) /\ Len(s) \in Nat
  BY LenProperties DEF IsText
<1>2. /\ SubSeq(s, 1, 1) \in Seq(ToSet(s)) /\ Len(SubSeq(s, 1, 1)) = 1
      /\ SubSeq(s, 1, 1)[1] = s[1]
  BY <1>1, SubSeqProperties
<1>4. s[1] \in ToSet(s)
  BY <1>1 DEF ToSet
<1> DEFINE v == <<s[1]>>
           w == SubSeq(s, 1, 1)
<1>5. v \in Seq(ToSet(s)) /\ Len(v) = 1 /\ v[1] = s[1]
  BY <1>4
<1>6. w \in Seq(ToSet(s)) /\ Len(w) = 1 /\ w[1] = s[1]
  BY <1>2
<1> HIDE DEF v, w
<1>7. v = w
  <2>1. \A i \in 1..Len(v) : v[i] = w[i]
    BY <1>5, <1>6
  <2> QED BY <1>5, <1>6, <2>1, SeqEqual
<1> QED BY <1>7 DEF v, w

(* The blank and the line feed end words; the line is ended by neither the *)
(* blank nor the question mark.                                            *)
LEMMA Whites ==
  Space \in White /\ LF \in White /\ Space # LF /\ "?" # LF
BY Zenon DEF Space, White, Blank, LF

(* parseHttpRequest reads the method and the path out of such a line.      *)
LEMMA LineWords ==
  ASSUME NEW a \in Requests, NEW line, Opens(line, a)
  PROVE  MethodOf(line) = <<a.method>> /\ Path(TargetOf(line)) = <<a.path>>
<1>1. /\ IsText(line) /\ Len(line) \in Nat /\ Len(line) >= 4
      /\ line[1] = a.method /\ line[2] = Space /\ line[3] = a.path
      /\ line[4] \in {"?", Space}
  BY LenProperties DEF Opens, IsText
<1>2. a.method \notin White /\ a.path \notin White /\ a.path # "?"
  BY RequestsAssumption
<1> DEFINE t == TrimLeft(line, White)
<1>3. IsText(t) /\ Len(t) = Len(line) /\ \A i \in 1..Len(line) : t[i] = line[i]
  <2>1. 1 \in 1..Len(line) /\ line[1] \notin White
    BY <1>1, <1>2
  <2> QED BY <1>1, <2>1, TrimLeftCuts
<1> HIDE DEF t
<1>4. NextWord(line) = SubSeq(t, 1, 1) /\ AfterWord(line) = SubSeq(t, 2, Len(t))
  <2>1. 2 \in 1..Len(t) /\ t[2] \in White /\ t[1] \notin White
    BY <1>1, <1>2, <1>3, Whites
  <2>2. \A i \in 1..(2 - 1) : t[i] \notin White
    BY <2>1
  <2>3. NextWord(line) = SubSeq(t, 1, 2 - 1) /\ AfterWord(line) = SubSeq(t, 2, Len(t))
    BY <1>3, <2>1, <2>2, FirstWord DEF t
  <2> QED BY <2>3
<1>5. MethodOf(line) = <<a.method>>
  BY <1>1, <1>3, <1>4, OneWord DEF MethodOf
<1> DEFINE u == AfterWord(line)
<1>6. IsText(u) /\ Len(u) = Len(line) - 1 /\ u[1] = Space /\ u[2] = a.path
      /\ u[3] \in {"?", Space}
  <2>1. 2 \in 1..(Len(t) + 1) /\ Len(t) \in 0..Len(t)
    BY <1>1, <1>3
  <2>2. /\ IsText(SubSeq(t, 2, Len(t)))
        /\ 2 <= Len(t) + 1 => Len(SubSeq(t, 2, Len(t))) = Len(t) - 2 + 1
        /\ \A i \in 1..(Len(t) - 2 + 1) : SubSeq(t, 2, Len(t))[i] = t[2 + i - 1]
    BY <1>3, <2>1, CutIsText
  <2> QED BY <1>1, <1>3, <1>4, <2>2
<1> HIDE DEF u
<1> DEFINE v == TrimLeft(u, White)
<1>7. IsText(v) /\ Len(v) = Len(line) - 2 /\ v[1] = a.path /\ v[2] \in {"?", Space}
  <2>1. 2 \in 1..Len(u) /\ u[2] \notin White /\ \A i \in 1..(2 - 1) : u[i] \in White
    BY <1>1, <1>2, <1>6, Whites
  <2>2. /\ IsText(v) /\ Len(v) = Len(u) - 2 + 1
        /\ \A i \in 1..(Len(u) - 2 + 1) : v[i] = u[2 + i - 1]
    BY <1>6, <2>1, TrimLeftCuts
  <2> HIDE DEF v
  <2> QED BY <1>1, <1>6, <2>2
<1> HIDE DEF v
<1> DEFINE word == NextWord(u)
<1>8. CASE v[2] \in White
  <2>1. word = SubSeq(v, 1, 1)
    <3>1. 2 \in 1..Len(v) /\ \A i \in 1..(2 - 1) : v[i] \notin White
      BY <1>1, <1>2, <1>7
    <3>2. word = SubSeq(v, 1, 2 - 1)
      BY <1>7, <1>8, <3>1, FirstWord DEF v
    <3> QED BY <3>2
  <2>2. word = <<a.path>>
    BY <1>1, <1>7, <2>1, OneWord
  <2>3. IsText(word)
    BY <2>2, WordsAreText
  <2>4. Find(word, <<"?">>, 1) = 0
    <3>1. {i \in 1..Len(word) : word[i] = "?"} = {}
      BY <1>2, <2>2
    <3> HIDE DEF word
    <3> QED BY <2>3, <3>1, FindOne
  <2> QED BY <1>5, <2>2, <2>4 DEF Path, Before, TargetOf, u
<1>9. CASE v[2] \notin White
  <2>1. v[2] = "?"
    BY <1>7, <1>9, Whites
  <2>2. IsText(word) /\ Len(word) >= 2 /\ \A i \in 1..2 : word[i] = v[i]
    <3>1. 2 \in 0..Len(v) /\ \A i \in 1..2 : v[i] \notin White
      BY <1>1, <1>2, <1>7, <1>9
    <3> QED BY <1>7, <3>1, FirstWordKeeps DEF v
  <2>3. Before(word, "?") = SubSeq(word, 1, 1)
    <3> HIDE DEF word
    <3>1. Len(word) \in Nat
      BY <2>2, LenProperties DEF IsText
    <3>2. 2 \in 1..Len(word) /\ word[2] = "?" /\ \A i \in 1..(2 - 1) : word[i] # "?"
      BY <1>2, <1>7, <2>1, <2>2, <3>1
    <3>3. Before(word, "?") = SubSeq(word, 1, 2 - 1)
      BY <2>2, <3>2, BeforeFirst
    <3> QED BY <3>3
  <2>4. Before(word, "?") = <<a.path>>
    <3>1. word[1] = a.path
      BY <1>7, <2>2
    <3> HIDE DEF word
    <3>2. Len(word) >= 1
      BY <2>2, LenProperties DEF IsText
    <3> QED BY <2>2, <2>3, <3>1, <3>2, OneWord
  <2> QED BY <1>5, <2>4 DEF Path, TargetOf, u
<1> QED BY <1>8, <1>9

(* The first line of a text that starts like a request does so too. *)
LEMMA FirstLineOpens ==
  ASSUME NEW a \in Requests, NEW s, Opens(s, a)
  PROVE  Opens(FirstLine(s), a)
<1>1. /\ IsText(s) /\ Len(s) \in Nat /\ Len(s) >= 4
      /\ s[1] = a.method /\ s[2] = Space /\ s[3] = a.path /\ s[4] \in {"?", Space}
  BY LenProperties DEF Opens, IsText
<1>2. a.method # LF /\ a.path # LF
  BY RequestsAssumption, Whites
<1>3. 4 \in 0..Len(s) /\ \A i \in 1..4 : s[i] # LF
  BY <1>1, <1>2, Whites
<1>4. /\ IsText(Before(s, LF)) /\ Len(Before(s, LF)) >= 4
      /\ \A i \in 1..4 : Before(s, LF)[i] = s[i]
  BY <1>1, <1>3, BeforeKeeps
<1> DEFINE l == Before(s, LF)
<1>5. l[1] = s[1] /\ l[2] = s[2] /\ l[3] = s[3] /\ l[4] = s[4]
  BY <1>4
<1> QED BY <1>1, <1>4, <1>5 DEF Opens, FirstLine

(* And so does a text cut off later. *)
LEMMA CutOpens ==
  ASSUME NEW a, NEW s, Opens(s, a), NEW n \in 1..Len(s), Len(SubSeq(s, 1, n)) >= 4
  PROVE  Opens(SubSeq(s, 1, n), a)
<1>1. IsText(s) /\ Len(s) \in Nat
  BY LenProperties DEF Opens, IsText
<1>2. /\ IsText(SubSeq(s, 1, n)) 
      /\ 1 <= n + 1 => Len(SubSeq(s, 1, n)) = n - 1 + 1
      /\ \A i \in 1..(n - 1 + 1) : SubSeq(s, 1, n)[i] = s[1 + i - 1]
  <2>1. 1 \in 1..(Len(s) + 1) /\ n \in 0..Len(s)
    BY <1>1
  <2> QED BY <1>1, <2>1, CutIsText
<1> DEFINE t == SubSeq(s, 1, n)
<1>3. n >= 4 /\ \A i \in 1..4 : t[i] = s[i]
  BY <1>1, <1>2
<1>4. t[1] = s[1] /\ t[2] = s[2] /\ t[3] = s[3] /\ t[4] = s[4]
  BY <1>3
<1> HIDE DEF t
<1> QED BY <1>2, <1>4 DEF Opens, t

(* HttpRequest::parseHttpRequest: wherever a request is cut off after its  *)
(* path, its method and its path are understood.                           *)
LEMMA RequestLineIsRead ==
  ASSUME NEW a \in Requests, NEW n \in 1..Len(RequestText(a)),
         Len(SubSeq(RequestText(a), 1, n)) >= 4
  PROVE  LET r == ParseHttpRequest(SubSeq(RequestText(a), 1, n))
         IN r.mMethod = <<a.method>> /\ r.mPath = <<a.path>>
<1>1. Opens(FirstLine(SubSeq(RequestText(a), 1, n)), a)
  BY RequestOpens, CutOpens, FirstLineOpens
<1> QED BY <1>1, LineWords DEF ParseHttpRequest

-----------------------------------------------------------------------------
(* The constructor of the client's connection: while it runs there are     *)
(* addresses to try only once there is a socket, and a socket that is      *)
(* connecting is connecting to somewhere.                                  *)
ConnectInv ==
  /\ built \in {"no", "yes", "threw"}
  /\ socket \in {"none", "open", "connecting", "connected", "closed"}
  /\ built = "no" => socket \in {"none", "open", "connecting"}
  /\ built = "no" /\ addresses # <<>> => socket # "none"
  /\ socket = "connecting" => peer # "none"
  /\ ConstructionIsAllOrNothing

(* main() has registered the first k handlers, and before it starts the    *)
(* service all three of them.                                              *)
RouteKey(i) == Key(Routes[i].method_, Routes[i].path_)
Registered(k) ==
  /\ DOMAIN handlers = {RouteKey(i) : i \in 1..k}
  /\ \A i \in 1..k : handlers[RouteKey(i)] = Routes[i]

RegisterInv ==
  /\ pc \in {"register", "connect", "send", "parse", "handle", "receive", "done"}
  /\ pc = "register" => \E k \in 0..2 : Registered(k)
  /\ pc # "register" => Registered(3)

(* The server has read a start of the request and parsed just that. In the  *)
(* end it has read nothing, or refused what it read, or understood it.       *)
TextInv ==
  /\ asked \in Requests
  /\ pc \in {"parse", "handle", "receive"} \/ request # NoRequest =>
       \E n \in 1..Len(RequestText(asked)) : text = SubSeq(RequestText(asked), 1, n)
  /\ pc \in {"handle", "receive"} \/ request # NoRequest => request = ParseHttpRequest(text)
  /\ request # NoRequest => pc \in {"handle", "receive", "done"}
  /\ pc \in {"register", "connect", "send"} => text = <<>>
  /\ pc = "done" => text = <<>> \/ ParseThrows(text) \/ request = ParseHttpRequest(text)

(* The answer is Not Found if and only if the map lacks the key. *)
StatusInv ==
  pc = "receive" =>
    (answer.mStatusCode = HttpResponseStatus.NOT_FOUND
       <=> Key(request.mMethod, request.mPath) \notin DOMAIN handlers)

RouteInv == RegisterInv /\ TextInv /\ StatusInv

(* Initially there is no socket. *)
LEMMA ConnectInvInit == Init => ConnectInv
BY DEF Init, ConnectionInit, ConnectInv, ConstructionIsAllOrNothing

(* An address always leads somewhere, if only to unset bytes. *)
LEMMA TargetIsSomewhere == ASSUME NEW address PROVE Target(address) # "none"
BY Zenon DEF Target, IPv4

(* Every step of the constructor keeps its invariant. *)
LEMMA ConnectInvStep ==
  ASSUME ConnectInv, [Next]_vars
  PROVE  ConnectInv'
<1>1. CASE Connect
  <2>1. CASE CreateSocket
    BY <2>1 DEF CreateSocket, Throw, ConnectInv, ConstructionIsAllOrNothing
  <2>2. CASE Resolve
    BY <2>2 DEF Resolve, Throw, ConnectInv, ConstructionIsAllOrNothing
  <2>3. CASE TryAddress
    <3>1. CASE ConnectDone
      BY <2>3, <3>1, TargetIsSomewhere
      DEF TryAddress, ConnectDone, ConnectInv, ConstructionIsAllOrNothing
    <3>2. CASE ConnectInProgress
      BY <2>3, <3>2, TargetIsSomewhere
      DEF TryAddress, ConnectInProgress, ConnectInv, ConstructionIsAllOrNothing
    <3>3. CASE Throw
      BY <2>3, <3>3 DEF TryAddress, Throw, ConnectInv, ConstructionIsAllOrNothing
    <3> QED BY <2>3, <3>1, <3>2, <3>3 DEF TryAddress
  <2> QED BY <1>1, <2>1, <2>2, <2>3 DEF Connect
<1>2. CASE ~Connect
  <2>1. UNCHANGED connectionVars
    BY <1>2 DEF Next, Register, Send, Parse, Handle, Receive, vars
  <2> QED BY <2>1 DEF connectionVars, ConnectInv, ConstructionIsAllOrNothing
<1> QED BY <1>1, <1>2

(* Connection::Connection(host, port): whatever the addresses do, the      *)
(* constructor returns with a connected socket or leaves no descriptor.    *)
THEOREM ConstructionSucceedsOrCleansUp == Spec => []ConstructionIsAllOrNothing
<1>1. ConnectInv => ConstructionIsAllOrNothing
  BY DEF ConnectInv
<1> QED BY <1>1, ConnectInvInit, ConnectInvStep, PTL DEF Spec

-----------------------------------------------------------------------------
(* Routing. *)

(* Three words joined. *)
LEMMA ThreeWords ==
  ASSUME NEW m, NEW c, NEW p
  PROVE  <<m>> \o <<c>> \o <<p>> = <<m, c, p>>
<1> DEFINE S == {m, c, p}
           two == <<m>> \o <<c>>
           joined == two \o <<p>>
           whole == <<m, c, p>>
<1>1. <<m>> \in Seq(S) /\ <<c>> \in Seq(S) /\ <<p>> \in Seq(S)
  OBVIOUS
<1>2. whole \in Seq(S) /\ Len(whole) = 3 /\ whole[1] = m /\ whole[2] = c /\ whole[3] = p
  OBVIOUS
<1>3. two \in Seq(S) /\ Len(two) = 2 /\ two[1] = m /\ two[2] = c
  BY <1>1, ConcatProperties
<1> HIDE DEF two, whole, S
<1>4. joined \in Seq(S) /\ Len(joined) = 3
      /\ \A i \in 1..3 : joined[i] = IF i <= 2 THEN two[i] ELSE <<p>>[i - 2]
  BY <1>1, <1>3, ConcatProperties
<1> HIDE DEF joined
<1>5. \A i \in 1..3 : joined[i] = whole[i]
  <2>1. joined[1] = m /\ joined[2] = c /\ joined[3] = p
    BY <1>3, <1>4
  <2> QED BY <1>2, <2>1
<1>6. joined = whole
  BY <1>2, <1>4, <1>5, SeqEqual
<1> QED BY <1>6 DEF joined, two, whole

(* The key of a method and a path that are one word each. *)
LEMMA KeyIs ==
  ASSUME NEW m, NEW p
  PROVE  Key(<<m>>, <<p>>) = <<m, ":", p>>
BY ThreeWords DEF Key

(* The keys main() registers. *)
LEMMA RouteKeys ==
  /\ RouteKey(1) = <<"POST", ":", "/api/simple">>
  /\ RouteKey(2) = <<"POST", ":", "/api/secret">>
  /\ RouteKey(3) = <<"GET", ":", "/api/long">>
BY KeyIs DEF RouteKey, Routes, RouteHandler, HttpMethod

KeyIsRoute(i, m, p) ==
  RouteKey(i) = <<m, ":", p>> <=> Routes[i].method_ = <<m>> /\ Routes[i].path_ = <<p>>

(* A key tells its method and its path. *)
LEMMA RouteKeyIs ==
  ASSUME NEW i \in 1..3, NEW m, NEW p
  PROVE  KeyIsRoute(i, m, p)
<1> USE DEF KeyIsRoute
<1>1. CASE i = 1
  BY <1>1, RouteKeys DEF Routes, RouteHandler, HttpMethod
<1>2. CASE i = 2
  BY <1>2, RouteKeys DEF Routes, RouteHandler, HttpMethod
<1>3. CASE i = 3
  BY <1>3, RouteKeys DEF Routes, RouteHandler, HttpMethod
<1> QED BY <1>1, <1>2, <1>3

(* No registration replaces another. *)
LEMMA KeysDiffer ==
  RouteKey(1) # RouteKey(2) /\ RouteKey(1) # RouteKey(3) /\ RouteKey(2) # RouteKey(3)
BY RouteKeys

(* The size of the map tells how many handlers are registered. *)
LEMMA RegisteredCount ==
  ASSUME NEW k \in 0..2, Registered(k)
  PROVE  Cardinality(DOMAIN handlers) = k
<1>1. CASE k = 0
  <2>1. DOMAIN handlers = {}
    BY <1>1 DEF Registered
  <2> QED BY <1>1, <2>1, FS_EmptySet
<1>2. CASE k = 1
  <2>1. DOMAIN handlers = {RouteKey(1)}
    BY <1>2 DEF Registered
  <2> QED BY <1>2, <2>1, FS_Singleton
<1>3. CASE k = 2
  <2>1. DOMAIN handlers = {RouteKey(1)} \cup {RouteKey(2)}
    <3>1. 1..2 = {1, 2}
      OBVIOUS
    <3> QED BY <1>3, <3>1 DEF Registered
  <2>2. IsFiniteSet({RouteKey(1)}) /\ Cardinality({RouteKey(1)}) = 1
    BY FS_Singleton
  <2>3. Cardinality({RouteKey(1)} \cup {RouteKey(2)}) = 2
    BY <2>2, KeysDiffer, FS_AddElement
  <2> QED BY <1>3, <2>1, <2>3
<1> QED BY <1>1, <1>2, <1>3

(* Initially none is registered. *)
LEMMA RegisterInvInit == Init => RegisterInv
<1>1. NoHandlers = [k \in {} |-> <<>>]
  BY DEF NoHandlers, NoMap
<1>2. Init => Registered(0)
  BY <1>1 DEF Init, Registered
<1> QED BY <1>2 DEF Init, RegisterInv

(* main() registers one handler after the other, and nobody afterwards.    *)
LEMMA RegisterInvStep ==
  ASSUME RegisterInv, [Next]_vars
  PROVE  RegisterInv'
<1>1. CASE Register
  <2>1. PICK k \in 0..2 : Registered(k)
    BY <1>1 DEF Register, RegisterInv
  <2> DEFINE h == Routes[k + 1]
  <2>2. handlers' = registerHandler(handlers, h)
        /\ pc' = IF k + 1 = Len(Routes) THEN "connect" ELSE "register"
    BY <1>1, <2>1, RegisteredCount DEF Register
  <2>3. Len(Routes) = 3
    BY DEF Routes
  <2>4. handlers' = [r \in {RouteKey(k + 1)} \cup DOMAIN handlers |->
                       IF r = RouteKey(k + 1) THEN h ELSE handlers[r]]
    BY <2>2 DEF registerHandler, RouteKey
  <2>5. \A i \in 1..k : RouteKey(i) # RouteKey(k + 1)
    BY KeysDiffer
  <2> HIDE DEF h
  <2>6. DOMAIN handlers' = {RouteKey(i) : i \in 1..(k + 1)}
    BY <2>1, <2>4 DEF Registered
  <2>7. \A i \in 1..(k + 1) : handlers'[RouteKey(i)] = Routes[i]
    BY <2>1, <2>4, <2>5 DEF Registered, h
  <2>8. Registered(k + 1)'
    BY <2>6, <2>7 DEF Registered, RouteKey
  <2>9. CASE k = 2
    BY <2>2, <2>3, <2>8, <2>9 DEF RegisterInv
  <2>10. CASE k \in 0..1
    <3>1. k + 1 \in 0..2 /\ pc' = "register"
      BY <2>2, <2>3, <2>10
    <3> QED BY <2>8, <3>1 DEF RegisterInv
  <2> QED BY <2>9, <2>10
<1>2. CASE ~Register
  <2>1. UNCHANGED handlers
    BY <1>2 DEF Next, Connect, Send, Parse, Handle, Receive, vars
  <2>2. \A k \in 0..3 : Registered(k) => Registered(k)'
    BY <2>1 DEF Registered, RouteKey
  <2>3. /\ pc' \in {"register", "connect", "send", "parse", "handle", "receive", "done"}
        /\ pc' = "register" => pc = "register"
        /\ pc' # "register" /\ pc = "register" => FALSE
    BY <1>2 DEF Next, Connect, Send, Parse, Handle, Receive, vars, RegisterInv
  <2> QED BY <2>2, <2>3 DEF RegisterInv
<1> QED BY <1>1, <1>2


(* Initially nothing was sent. *)
LEMMA TextInvInit == Init => TextInv
BY DEF Init, TextInv

(* What the server reads is a start of what the client asks, and the       *)
(* request is what the parser makes of it.                                 *)
LEMMA TextInvStep ==
  ASSUME TextInv, [Next]_vars
  PROVE  TextInv'
<1> USE DEF TextInv
<1>1. CASE Register \/ Connect
  BY <1>1 DEF Register, Connect, exchangeVars
<1>2. CASE Send
  BY <1>2 DEF Send
<1>3. CASE Parse
  BY <1>3 DEF Parse
<1>4. CASE Handle
  BY <1>4 DEF Handle
<1>5. CASE Receive
  BY <1>5 DEF Receive
<1>6. CASE UNCHANGED vars
  BY <1>6 DEF vars, exchangeVars
<1> QED BY <1>1, <1>2, <1>3, <1>4, <1>5, <1>6 DEF Next

HasStatus(r, status) == "mStatusCode" \in DOMAIN r /\ r.mStatusCode = status

(* The numbers of the statuses the handlers use. *)
LEMMA Statuses ==
  /\ HttpResponseStatus.OK = 200 /\ HttpResponseStatus.BAD_REQUEST = 400
  /\ HttpResponseStatus.NOT_FOUND = 404
BY DEF HttpResponseStatus

(* addHeader() leaves the status alone. *)
LEMMA HeaderKeepsStatus ==
  ASSUME NEW r, NEW name, NEW value, NEW status, HasStatus(r, status)
  PROVE  HasStatus(addHeader(r, name, value), status)
BY DEF addHeader, HasStatus

(* The constructor sets the status, *)
LEMMA StatusOfResponse ==
  ASSUME NEW status, NEW type, NEW body
  PROVE  HasStatus(Response(status, type, body), status)
BY DEF Response, HasStatus

(* and setStatusCode() replaces it for good. *)
LEMMA StatusOfJson ==
  ASSUME NEW status, NEW body
  PROVE  HasStatus(Json(status, body), status)
<1>1. HasStatus(setStatusCode(DefaultResponse, status), status)
  BY DEF setStatusCode, DefaultResponse, Response, HasStatus
<1>2. \A r : HasStatus(r, status) => HasStatus(setBody(r, body), status)
  BY DEF setBody, HasStatus
<1> QED BY <1>1, <1>2, HeaderKeepsStatus DEF Json

(* None of the three handlers answers Not Found. *)
LEMMA AnswersAreFound ==
  ASSUME NEW r, NEW file, NEW message
  PROVE  /\ HasStatus(SimpleAnswer, 200) /\ HasStatus(LongAnswer, 200)
         /\ \E status \in {200, 400} : HasStatus(SecretAnswer(r, file, message), status)
<1>1. \A body : /\ HasStatus(Json(HttpResponseStatus.OK, body), 200)
                 /\ HasStatus(Json(HttpResponseStatus.BAD_REQUEST, body), 400)
  BY StatusOfJson, Statuses
<1>2. \E body : SimpleAnswer = Json(HttpResponseStatus.OK, body)
  BY Zenon DEF SimpleAnswer
<1>3. \E body : LongAnswer = Json(HttpResponseStatus.OK, body)
  BY Zenon DEF LongAnswer
<1>4. \E body : \/ SecretAnswer(r, file, message) = Json(HttpResponseStatus.OK, body)
                \/ SecretAnswer(r, file, message) = Json(HttpResponseStatus.BAD_REQUEST, body)
  BY Zenon DEF SecretAnswer
<1> QED BY <1>1, <1>2, <1>3, <1>4

(* Initially there is no answer. *)
LEMMA StatusInvInit == Init => StatusInv
BY DEF Init, StatusInv

(* handleRequest(): the answer is a handler's if the map has the key, and  *)
(* Not Found otherwise.                                                    *)
LEMMA StatusInvStep ==
  ASSUME RegisterInv, StatusInv, [Next]_vars
  PROVE  StatusInv'
<1>1. CASE Handle
  <2> DEFINE key == Key(request.mMethod, request.mPath)
             handler == getHandler(handlers, request.mMethod, request.mPath)
             made == CASE handler = "simple" -> SimpleAnswer
                       [] handler = "secret" -> SecretAnswer(request, keyFile', secret')
                       [] handler = "long" -> LongAnswer
                       [] OTHER -> Response(HttpResponseStatus.NOT_FOUND, "text/plain",
                                            <<"Not Found">>)
  <2>1. Registered(3)
    BY <1>1 DEF Handle, RegisterInv
  <2>2. UNCHANGED <<handlers, request>>
    BY <1>1 DEF Handle
  <2>3. answer' = made \/ answer' = addHeader(made, "Connection", "keep-alive")
    BY <1>1 DEF Handle, AnswerOf
  <2>4. CASE key \in DOMAIN handlers
    <3>1. PICK i \in 1..3 : handler = Routes[i].answers
      BY <2>1, <2>4 DEF Registered, getHandler
    <3>2. handler \in {"simple", "secret", "long"}
      BY <3>1 DEF Routes, RouteHandler
    <3> HIDE DEF handler
    <3>3. \E status \in {200, 400} : HasStatus(made, status)
      <4>1. CASE handler = "simple"
        BY <4>1, AnswersAreFound
      <4>2. CASE handler = "secret"
        BY <4>2, AnswersAreFound
      <4>3. CASE handler = "long"
        BY <4>3, AnswersAreFound
      <4> QED BY <3>2, <4>1, <4>2, <4>3
    <3> HIDE DEF made
    <3>4. \E status \in {200, 400} : HasStatus(answer', status)
      BY <2>3, <3>3, HeaderKeepsStatus
    <3>5. answer'.mStatusCode # HttpResponseStatus.NOT_FOUND
      BY <3>4, Statuses DEF HasStatus
    <3> QED BY <2>2, <2>4, <3>5 DEF StatusInv
  <2>5. CASE key \notin DOMAIN handlers
    <3>1. handler = "nullptr"
      BY <2>5 DEF getHandler
    <3> HIDE DEF handler
    <3>2. HasStatus(made, 404)
      <4>1. made = Response(HttpResponseStatus.NOT_FOUND, "text/plain", <<"Not Found">>)
        BY <3>1
      <4>2. \A type, body :
              HasStatus(Response(HttpResponseStatus.NOT_FOUND, type, body), 404)
        BY StatusOfResponse, Statuses
      <4> HIDE DEF made
      <4> QED BY <4>1, <4>2, Zenon
    <3> HIDE DEF made
    <3>3. HasStatus(answer', 404)
      BY <2>3, <3>2, HeaderKeepsStatus
    <3> QED BY <2>2, <2>5, <3>3, Statuses DEF StatusInv, HasStatus
  <2> QED BY <2>4, <2>5
<1>2. CASE Register \/ Connect \/ Send \/ Parse \/ Receive
  BY <1>2 DEF Register, Connect, Send, Parse, Receive, StatusInv, RegisterInv
<1>3. CASE UNCHANGED vars
  BY <1>3 DEF vars, exchangeVars, StatusInv
<1> QED BY <1>1, <1>2, <1>3 DEF Next

(* The three parts together are an inductive invariant. *)
LEMMA RouteInvIsInvariant == Spec => []RouteInv
<1>1. Init => RouteInv
  BY RegisterInvInit, TextInvInit, StatusInvInit DEF RouteInv
<1>2. RouteInv /\ [Next]_vars => RouteInv'
  BY RegisterInvStep, TextInvStep, StatusInvStep DEF RouteInv
<1> QED BY <1>1, <1>2, PTL DEF Spec

(* RouteHandlerFactory, HttpProtocolHandler::handleRequest: of requests    *)
(* whose first line arrived, exactly those no handler was registered for   *)
(* are answered Not Found, wherever the rest was cut off.                  *)
THEOREM RequestsAreRoutedExactly == Spec => []RoutingIsExact
<1>1. RouteInv => RoutingIsExact
  <2> SUFFICES ASSUME RouteInv, pc = "receive",
                      Len(text) >= Len(<<asked.method, " ", asked.path>>
                                       \o asked.query) + 1
               PROVE  answer.mStatusCode = HttpResponseStatus.NOT_FOUND
                        <=> ~\E i \in DOMAIN Routes :
                               /\ Routes[i].method_ = <<asked.method>>
                               /\ Routes[i].path_ = <<asked.path>>
    BY DEF RoutingIsExact
  <2> DEFINE a == asked
  <2>1. PICK n \in 1..Len(RequestText(a)) : text = SubSeq(RequestText(a), 1, n)
    BY DEF RouteInv, TextInv
  <2>2. a \in Requests /\ request = ParseHttpRequest(text)
    BY DEF RouteInv, TextInv
  <2>3. Len(text) >= 4
    <3>1. Len(<<a.method, Space, a.path>> \o a.query) >= 3
      BY <2>2, RequestsAssumption, StartLength
    <3>2. Len(text) >= Len(<<a.method, Space, a.path>> \o a.query) + 1
      BY DEF Space
    <3>3. Len(text) \in Nat /\ Len(<<a.method, Space, a.path>> \o a.query) \in Nat
      OBVIOUS
    <3> QED BY <3>1, <3>2, <3>3
  <2>4. request.mMethod = <<a.method>> /\ request.mPath = <<a.path>>
    BY <2>1, <2>2, <2>3, RequestLineIsRead
  <2>5. Key(request.mMethod, request.mPath) \in DOMAIN handlers
          <=> \E i \in 1..3 : RouteKey(i) = <<a.method, ":", a.path>>
    BY <2>4, KeyIs DEF RouteInv, RegisterInv, Registered
  <2>6. DOMAIN Routes = 1..3
    BY DEF Routes
  <2>7. answer.mStatusCode = HttpResponseStatus.NOT_FOUND
          <=> Key(request.mMethod, request.mPath) \notin DOMAIN handlers
    BY DEF RouteInv, StatusInv
  <2>8. \A i \in 1..3 : RouteKey(i) = <<a.method, ":", a.path>>
          <=> Routes[i].method_ = <<a.method>> /\ Routes[i].path_ = <<a.path>>
    <3>1. \A i \in 1..3 : KeyIsRoute(i, a.method, a.path)
      BY RouteKeyIs, Zenon
    <3> QED BY <3>1, Zenon DEF KeyIsRoute
  <2> QED BY <2>5, <2>6, <2>7, <2>8, Zenon
<1> QED BY <1>1, RouteInvIsInvariant, PTL
-----------------------------------------------------------------------------
(* Bytes: base 64 and the cipher give back what went in. *)

(* What a byte can be. *)
Bytes == 0..255

(* The 64 characters are different, and none is the fill or the filler. *)
LEMMA CharsDiffer ==
  /\ Len(Base64Chars) = 64
  /\ \A i, j \in 1..64 : Base64Chars[i] = Base64Chars[j] => i = j
  /\ \A i \in 1..64 : Base64Chars[i] # "=" /\ Base64Chars[i] # "\\0"
BY SMTT(30) DEF Base64Chars

(* A character has the value it was chosen for. *)
LEMMA ValueOfChar ==
  ASSUME NEW v \in 0..63
  PROVE  Value(Base64Chars[v + 1]) = v
<1> DEFINE P(i) == i \in DOMAIN Base64Chars /\ Base64Chars[i] = Base64Chars[v + 1]
<1>1. DOMAIN Base64Chars = 1..64
  BY DEF Base64Chars
<1>2. P(v + 1) /\ \A i : P(i) => i = v + 1
  <2>1. v + 1 \in 1..64
    OBVIOUS
  <2>2. \A i \in 1..64 : Base64Chars[i] = Base64Chars[v + 1] => i = v + 1
    BY <2>1, CharsDiffer, ZenonT(60)
  <2> HIDE DEF P
  <2>3. P(v + 1)
    BY <1>1, <2>1, Zenon DEF P
  <2>4. \A i : P(i) => i = v + 1
    BY <1>1, <2>2, Zenon DEF P
  <2> QED BY <2>3, <2>4
<1> DEFINE n == CHOOSE i \in DOMAIN Base64Chars : Base64Chars[i] = Base64Chars[v + 1]
<1>3. n = v + 1
  <2>1. (CHOOSE i : P(i)) = v + 1
    BY <1>2
  <2> QED BY <2>1
<1>4. Base64Chars[v + 1] # "\\0"
  BY CharsDiffer
<1>5. Value(Base64Chars[v + 1]) = n - 1
  BY <1>4, Zenon DEF Value
<1> HIDE DEF n
<1> QED BY <1>3, <1>5

(* Three bytes give four values of six bits, and two of these in a row give
   back the byte they share. *)
LEMMA QuadrupleIs ==
  ASSUME NEW b \in [1..3 -> Bytes]
  PROVE  /\ \A k \in 1..4 : Quadruple(b)[k] \in 0..63
         /\ \A v : (v[1] = Quadruple(b)[1] /\ v[2] = Quadruple(b)[2]) => Triple(v)[1] = b[1]
         /\ \A v : (v[2] = Quadruple(b)[2] /\ v[3] = Quadruple(b)[3]) => Triple(v)[2] = b[2]
         /\ \A v : (v[3] = Quadruple(b)[3] /\ v[4] = Quadruple(b)[4]) => Triple(v)[3] = b[3]
<1>1. b[1] \in Bytes /\ b[2] \in Bytes /\ b[3] \in Bytes
  OBVIOUS
<1>2. \A k \in 1..4 : Quadruple(b)[k] \in 0..63
  BY <1>1 DEF Quadruple, Bytes
<1>3. ASSUME NEW v, v[1] = Quadruple(b)[1], v[2] = Quadruple(b)[2]
      PROVE  Triple(v)[1] = b[1]
  <2>1. Triple(v)[1] = (4 * v[1] + ((v[2] \div 16) % 4)) % 256
    BY DEF Triple
  <2>2. v[1] = b[1] \div 4 /\ v[2] = 16 * (b[1] % 4) + (b[2] \div 16)
    BY <1>3 DEF Quadruple
  <2>3. v[2] \div 16 = b[1] % 4
    BY <1>1, <2>2 DEF Bytes
  <2> QED BY <1>1, <2>1, <2>2, <2>3 DEF Bytes
<1>4. ASSUME NEW v, v[2] = Quadruple(b)[2], v[3] = Quadruple(b)[3]
      PROVE  Triple(v)[2] = b[2]
  <2>1. Triple(v)[2] = (16 * (v[2] % 16) + ((v[3] \div 4) % 16)) % 256
    BY DEF Triple
  <2>2. v[2] = 16 * (b[1] % 4) + (b[2] \div 16) /\ v[3] = 4 * (b[2] % 16) + (b[3] \div 64)
    BY <1>4 DEF Quadruple
  <2>3. v[2] % 16 = b[2] \div 16 /\ v[3] \div 4 = b[2] % 16
    BY <1>1, <2>2 DEF Bytes
  <2> QED BY <1>1, <2>1, <2>3 DEF Bytes
<1>5. ASSUME NEW v, v[3] = Quadruple(b)[3], v[4] = Quadruple(b)[4]
      PROVE  Triple(v)[3] = b[3]
  <2>1. Triple(v)[3] = (64 * (v[3] % 4) + v[4]) % 256
    BY DEF Triple
  <2>2. v[3] = 4 * (b[2] % 16) + (b[3] \div 64) /\ v[4] = b[3] % 64
    BY <1>5 DEF Quadruple
  <2>3. v[3] % 4 = b[3] \div 64
    BY <1>1, <2>2 DEF Bytes
  <2> QED BY <1>1, <2>1, <2>2, <2>3 DEF Bytes
<1> QED BY <1>2, <1>3, <1>4, <1>5

(* The g-th group of three bytes, and the i-th value of six bits. *)
Group(data, g) == [k \in 1..3 |-> IF 3 * g + k <= Len(data) THEN data[3 * g + k] ELSE 0]
Six(data, i) == Quadruple(Group(data, (i - 1) \div 4))[((i - 1) % 4) + 1]
(* How many characters n bytes give, and how many "=" follow. *)
CharCount(n) == (8 * n + 5) \div 6
FillCount(n) == (3 - (n % 3)) % 3

(* A group has three bytes: zeros stand for those after the end. *)
LEMMA GroupIs ==
  ASSUME NEW data \in Seq(Bytes), NEW g \in Nat
  PROVE  Group(data, g) \in [1..3 -> Bytes]
<1>1. Len(data) \in Nat /\ \A i \in 1..Len(data) : data[i] \in Bytes
  BY LenProperties
<1>2. \A k \in 1..3 : 3 * g + k \in Nat \ {0}
  OBVIOUS
<1> QED BY <1>1, <1>2 DEF Group, Bytes

(* A value of six bits is below 64. *)
LEMMA SixIs ==
  ASSUME NEW data \in Seq(Bytes), NEW i \in Nat \ {0}
  PROVE  Six(data, i) \in 0..63
<1>1. (i - 1) \div 4 \in Nat /\ ((i - 1) % 4) + 1 \in 1..4
  OBVIOUS
<1> QED BY <1>1, GroupIs, QuadrupleIs DEF Six

(* A text that encodes the data. *)
Encodes(e, data) ==
  LET m == CharCount(Len(data))  p == FillCount(Len(data))
      E == {Base64Chars[j] : j \in 1..64} \cup {"="}
  IN /\ e \in Seq(E) /\ Len(e) = m + p
     /\ \A i \in 1..m : e[i] = Base64Chars[Six(data, i) + 1]
     /\ \A i \in (m + 1)..(m + p) : e[i] = "="

(* base64Encode() returns a character for every six bits begun, and fills up
   the last group of four. *)
LEMMA EncodedIs ==
  ASSUME NEW data \in Seq(Bytes)
  PROVE  Encodes(base64Encode(data), data)
<1> DEFINE n == Len(data)
           m == CharCount(n)
           p == FillCount(n)
           E == {Base64Chars[j] : j \in 1..64} \cup {"="}
           chars == [i \in 1..m |-> Base64Chars[Six(data, i) + 1]]
           fill == [i \in 1..p |-> "="]
<1>1. n \in Nat /\ m \in Nat /\ p \in Nat
  BY LenProperties DEF CharCount, FillCount
<1>2. base64Encode(data) = chars \o fill
  BY Zenon DEF base64Encode, Group, Six, CharCount, FillCount
<1> HIDE DEF n, m, p
<1>3. chars \in [1..m -> E]
  <2>1. ASSUME NEW i \in 1..m PROVE Base64Chars[Six(data, i) + 1] \in E
    <3> DEFINE v == Six(data, i)
    <3>1. i \in Nat \ {0}
      BY <1>1
    <3>2. v \in 0..63
      BY <3>1, SixIs
    <3> HIDE DEF v
    <3>3. v + 1 \in 1..64
      BY <3>2
    <3> QED BY <3>3 DEF v
  <2> QED BY <2>1
<1>4. fill \in [1..p -> E]
  OBVIOUS
<1>5. \A i \in 1..m : chars[i] = Base64Chars[Six(data, i) + 1]
  OBVIOUS
<1>6. \A i \in 1..p : fill[i] = "="
  OBVIOUS
<1> HIDE DEF chars, fill, E
<1>7. chars \in Seq(E) /\ Len(chars) = m /\ fill \in Seq(E) /\ Len(fill) = p
  BY <1>1, <1>3, <1>4, SeqDef, LenProperties
<1>8. /\ chars \o fill \in Seq(E) /\ Len(chars \o fill) = m + p
      /\ \A i \in 1..(m + p) : (chars \o fill)[i] = IF i <= m THEN chars[i] ELSE fill[i - m]
  BY <1>7, ConcatProperties
<1>9. /\ \A i \in 1..m : (chars \o fill)[i] = Base64Chars[Six(data, i) + 1]
      /\ \A i \in (m + 1)..(m + p) : (chars \o fill)[i] = "="
  BY <1>1, <1>5, <1>6, <1>8, SMTT(30)
<1> QED BY <1>2, <1>8, <1>9 DEF Encodes, m, p, n, E

(* Decoding accepts all of these characters and none of the fill. *)
LEMMA AcceptedIs ==
  ASSUME NEW data \in Seq(Bytes), NEW e, Encodes(e, data)
  PROVE  /\ Len(Accepted(e)) = CharCount(Len(data))
         /\ \A i \in 1..CharCount(Len(data)) :
              Accepted(e)[i] = Base64Chars[Six(data, i) + 1]
<1> DEFINE m == CharCount(Len(data))
           p == FillCount(Len(data))
           E == {Base64Chars[j] : j \in 1..64} \cup {"="}
           stop == {i \in DOMAIN e : ~Contains(Base64Chars, e[i])}
<1>1. m \in Nat /\ p \in Nat
  BY LenProperties DEF CharCount, FillCount
<1>2. /\ e \in Seq(E) /\ Len(e) = m + p /\ DOMAIN e = 1..(m + p)
      /\ \A i \in 1..m : e[i] = Base64Chars[Six(data, i) + 1]
      /\ \A i \in (m + 1)..(m + p) : e[i] = "="
  BY LenProperties DEF Encodes
<1> HIDE DEF m, p, E
<1>3. \A i \in 1..m : Contains(Base64Chars, e[i])
  <2> TAKE i \in 1..m
  <2> DEFINE v == Six(data, i)
  <2>1. i \in Nat \ {0}
    BY <1>1
  <2>2. v \in 0..63 /\ e[i] = Base64Chars[v + 1]
    BY <1>2, <2>1, SixIs
  <2> HIDE DEF v
  <2>3. v + 1 \in 1..64
    BY <2>2
  <2> QED BY <2>2, <2>3, CharsDiffer DEF Contains
<1>4. \A i \in (m + 1)..(m + p) : ~Contains(Base64Chars, e[i])
  BY <1>2, CharsDiffer DEF Contains
<1>5. stop = (m + 1)..(m + p)
  BY <1>1, <1>2, <1>3, <1>4
<1>6. Accepted(e) = IF stop = {} THEN e ELSE SubSeq(e, 1, Min(stop) - 1)
  BY DEF Accepted
<1> HIDE DEF stop
<1>7. CASE p = 0
  <2>1. stop = {}
    BY <1>1, <1>5, <1>7
  <2> QED BY <1>1, <1>2, <1>6, <1>7, <2>1 DEF m
<1>8. CASE p # 0
  <2>1. m + 1 \in stop /\ stop \subseteq Nat /\ \A k \in stop : m + 1 <= k
    BY <1>1, <1>5, <1>8
  <2>2. Min(stop) = m + 1
    BY <2>1, MinIs
  <2>3. Accepted(e) = SubSeq(e, 1, m)
    BY <1>1, <1>6, <2>1, <2>2
  <2>4. \A i \in 1..m : e[i] \in E
    BY <1>1, <1>2
  <2>5. /\ Len(SubSeq(e, 1, m)) = IF 1 <= m THEN m - 1 + 1 ELSE 0
        /\ \A i \in 1..(m - 1 + 1) : SubSeq(e, 1, m)[i] = e[1 + i - 1]
    <3>1. 1 \in Int /\ m \in Int
      BY <1>1
    <3> QED BY <2>4, <3>1, SubSeqProperties
  <2>6. /\ Len(SubSeq(e, 1, m)) = m
        /\ \A i \in 1..m : SubSeq(e, 1, m)[i] = e[i]
    BY <1>1, <2>5
  <2> QED BY <1>2, <2>3, <2>6 DEF m
<1> QED BY <1>7, <1>8

(* As many characters as n bytes give are decoded to n bytes. *)
LEMMA DecodedSize ==
  ASSUME NEW n \in Nat
  PROVE  ByteCount(CharCount(n)) = n
<1> DEFINE q == n \div 3
           r == n % 3
<1>1. q \in Nat /\ r \in 0..2 /\ n = 3 * q + r
  OBVIOUS
<1>2. CharCount(n) = 4 * q + ((8 * r + 5) \div 6)
  BY <1>1 DEF CharCount
<1> HIDE DEF q, r
<1>3. CASE r = 0
  BY <1>1, <1>2, <1>3 DEF ByteCount
<1>4. CASE r = 1
  BY <1>1, <1>2, <1>4 DEF ByteCount
<1>5. CASE r = 2
  BY <1>1, <1>2, <1>5 DEF ByteCount
<1> QED BY <1>1, <1>3, <1>4, <1>5

(* The four values that decoding finds in the g-th group of characters. *)
Values(chars, g) ==
  [k \in 1..4 |-> Value(IF 4 * g + k <= Len(chars) THEN chars[4 * g + k] ELSE "\\0")]

(* What decoding makes of them, byte by byte. *)
LEMMA DecodeIs ==
  ASSUME NEW data \in Seq(Bytes), NEW e, Encodes(e, data)
  PROVE  base64Decode(e) = [i \in 1..Len(data) |->
           Triple(Values(Accepted(e), (i - 1) \div 3))[((i - 1) % 3) + 1]]
<1> DEFINE chars == Accepted(e)
           size == ByteCount(Len(chars))
<1>1. base64Decode(e)
      = [i \in 1..size |-> Triple(Values(chars, (i - 1) \div 3))[((i - 1) % 3) + 1]]
  BY Zenon DEF base64Decode, Values
<1>2. size = Len(data)
  BY AcceptedIs, DecodedSize, LenProperties
<1> HIDE DEF size
<1> QED BY <1>1, <1>2

(* As far as there are characters, the values are those of the bytes. *)
LEMMA ValuesAre ==
  ASSUME NEW data \in Seq(Bytes), NEW e, Encodes(e, data), NEW g \in Nat, NEW j \in 1..4,
         4 * g + j <= CharCount(Len(data))
  PROVE  Values(Accepted(e), g)[j] = Quadruple(Group(data, g))[j]
<1> DEFINE i == 4 * g + j
           v == Six(data, i)
<1>1. CharCount(Len(data)) \in Nat
  BY LenProperties DEF CharCount
<1>2. i \in 1..CharCount(Len(data)) /\ i \in Nat \ {0} /\ (i - 1) \div 4 = g
      /\ ((i - 1) % 4) + 1 = j
  BY <1>1
<1>3. v = Quadruple(Group(data, g))[j]
  BY <1>2, Zenon DEF Six
<1>4. Values(Accepted(e), g)[j] = Value(Accepted(e)[i])
  BY AcceptedIs DEF Values
<1>5. Accepted(e)[i] = Base64Chars[v + 1]
  BY <1>2, AcceptedIs
<1>6. v \in 0..63
  BY <1>2, SixIs
<1> HIDE DEF i, v
<1> QED BY <1>3, <1>4, <1>5, <1>6, ValueOfChar

(* Both values that share a byte have characters. *)
LEMMA GroupIsEncoded ==
  ASSUME NEW n \in Nat, NEW g \in Nat, NEW k \in 1..3, 3 * g + k <= n
  PROVE  4 * g + k + 1 <= CharCount(n)
<1> DEFINE c == CharCount(n)
<1>1. c \in Nat /\ 8 * n + 5 < 6 * c + 6
  BY DEF CharCount
<1> HIDE DEF c
<1>2. c >= 4 * g + k + 1
  <2>1. CASE k = 1
    BY <1>1, <2>1
  <2>2. CASE k = 2
    BY <1>1, <2>2
  <2>3. CASE k = 3
    BY <1>1, <2>3
  <2> QED BY <2>1, <2>2, <2>3
<1> QED BY <1>2 DEF c

(* base64Decode() inverts base64Encode(), for any number of any bytes. *)
THEOREM Base64RoundTrip ==
  ASSUME NEW data \in Seq(Bytes)
  PROVE  base64Decode(base64Encode(data)) = data
<1> DEFINE e == base64Encode(data)
           n == Len(data)
           byte(i) == Triple(Values(Accepted(e), (i - 1) \div 3))[((i - 1) % 3) + 1]
<1>1. n \in Nat /\ data = [i \in 1..n |-> data[i]]
  BY LenProperties
<1>2. Encodes(e, data)
  BY EncodedIs
<1>3. base64Decode(e) = [i \in 1..n |-> byte(i)]
  BY <1>2, DecodeIs
<1>4. ASSUME NEW i \in 1..n
      PROVE  byte(i) = data[i]
  <2> DEFINE g == (i - 1) \div 3
             k == ((i - 1) % 3) + 1
             b == Group(data, g)
             v == Values(Accepted(e), g)
             q == Quadruple(b)
  <2>1. g \in Nat /\ k \in 1..3 /\ i = 3 * g + k /\ 4 * g + k + 1 <= CharCount(n)
    <3> HIDE DEF n
    <3>1. g \in Nat /\ k \in 1..3 /\ i = 3 * g + k
      BY <1>1
    <3> HIDE DEF g, k
    <3>2. 3 * g + k <= n
      BY <1>1, <3>1
    <3> QED BY <1>1, <3>1, <3>2, GroupIsEncoded
  <2> HIDE DEF g, k, n
  <2>2. b \in [1..3 -> Bytes] /\ b[k] = data[i]
    <3>1. b[k] = data[3 * g + k]
      BY <1>1, <2>1 DEF Group, n
    <3> QED BY <2>1, <3>1, GroupIs
  <2>3. v[k] = q[k] /\ v[k + 1] = q[k + 1]
    <3>1. /\ k \in 1..4 /\ 4 * g + k <= CharCount(n)
          /\ k + 1 \in 1..4 /\ 4 * g + (k + 1) <= CharCount(n)
      <4>1. CharCount(n) \in Nat
        BY <1>1 DEF CharCount
      <4> QED BY <2>1, <4>1
    <3> HIDE DEF e
    <3> QED BY <1>2, <2>1, <3>1, ValuesAre DEF n
  <2> HIDE DEF b, v, e
  <2>4. ASSUME k = 1 PROVE Triple(v)[k] = data[i]
    <3>1. v[1] = Quadruple(b)[1] /\ v[2] = Quadruple(b)[2]
      BY <2>3, <2>4
    <3> QED BY <2>2, <2>4, <3>1, QuadrupleIs
  <2>5. ASSUME k = 2 PROVE Triple(v)[k] = data[i]
    <3>1. v[2] = Quadruple(b)[2] /\ v[3] = Quadruple(b)[3]
      BY <2>3, <2>5
    <3> QED BY <2>2, <2>5, <3>1, QuadrupleIs
  <2>6. ASSUME k = 3 PROVE Triple(v)[k] = data[i]
    <3>1. v[3] = Quadruple(b)[3] /\ v[4] = Quadruple(b)[4]
      BY <2>3, <2>6
    <3> QED BY <2>2, <2>6, <3>1, QuadrupleIs
  <2>7. Triple(v)[k] = data[i]
    <3> HIDE DEF q
    <3> QED BY <2>1, <2>4, <2>5, <2>6
  <2> QED BY <2>7 DEF v, g, k, e
<1>5. [i \in 1..n |-> byte(i)] = [i \in 1..n |-> data[i]]
  <2> HIDE DEF byte, n
  <2> QED BY <1>4
<1> HIDE DEF byte, e
<1>6. base64Decode(e) = data
  BY <1>1, <1>3, <1>5
<1> QED BY <1>6 DEF e

(* A byte shifted by the key and back is the byte, *)
LEMMA ShiftBack ==
  ASSUME NEW k \in Nat, NEW x \in Bytes
  PROVE  /\ (x + k) % 256 \in Bytes
         /\ (((x + k) % 256) + (256 - (k % 256))) % 256 = x
BY DEF Bytes

(* How many bytes of padding. *)
FillOf(data) == Block - (Len(data) % Block)

(* The padding: one to four bytes, each their number, up to a whole block. *)
LEMMA PaddedIs ==
  ASSUME NEW data \in Seq(Bytes)
  PROVE  /\ FillOf(data) \in 1..4 /\ Padded(data) \in Seq(Bytes)
         /\ Len(Padded(data)) = Len(data) + FillOf(data)
         /\ Len(Padded(data)) % Block = 0
         /\ \A i \in 1..Len(data) : Padded(data)[i] = data[i]
         /\ \A i \in (Len(data) + 1)..(Len(data) + FillOf(data)) :
              Padded(data)[i] = FillOf(data)
<1> DEFINE n == FillOf(data)
           fill == [i \in 1..n |-> n]
<1>1. Len(data) \in Nat
  BY LenProperties
<1>2. n \in 1..4 /\ (Len(data) + n) % 4 = 0 /\ n \in Bytes
  BY <1>1 DEF Block, Bytes, FillOf
<1> HIDE DEF n
<1>3. fill \in Seq(Bytes) /\ Len(fill) = n /\ \A i \in 1..n : fill[i] = n
  <2>1. fill \in [1..n -> Bytes]
    BY <1>2
  <2>2. n \in Nat
    BY <1>2
  <2> QED BY <2>1, <2>2, SeqDef, LenProperties
<1>4. Padded(data) = data \o fill
  BY DEF Padded, n, fill, FillOf
<1> HIDE DEF fill
<1>5. /\ data \o fill \in Seq(Bytes) /\ Len(data \o fill) = Len(data) + n
      /\ \A i \in 1..(Len(data) + n) :
           (data \o fill)[i] = IF i <= Len(data) THEN data[i] ELSE fill[i - Len(data)]
  BY <1>3, ConcatProperties
<1>6. \A i \in 1..Len(data) : Padded(data)[i] = data[i]
  BY <1>1, <1>2, <1>4, <1>5
<1>7. ASSUME NEW i \in (Len(data) + 1)..(Len(data) + n)
      PROVE  Padded(data)[i] = n
  <2>1. i - Len(data) \in 1..n /\ i \in 1..(Len(data) + n) /\ ~(i <= Len(data))
    BY <1>1, <1>2
  <2> QED BY <1>3, <1>4, <1>5, <2>1
<1>8. Len(data \o fill) % Block = 0
  BY <1>2, <1>5 DEF Block
<1> QED BY <1>2, <1>4, <1>5, <1>6, <1>7, <1>8 DEF n

(* and so are all bytes of a sequence. *)
LEMMA ShiftedBack ==
  ASSUME NEW data \in Seq(Bytes), NEW key \in Nat
  PROVE  /\ Shifted(data, key) \in Seq(Bytes)
         /\ Shifted(Shifted(data, key), 256 - (key % 256)) = data
<1> DEFINE n == Len(data)
           k == 256 - (key % 256)
           s == Shifted(data, key)
<1>1. n \in Nat /\ DOMAIN data = 1..n /\ data = [i \in 1..n |-> data[i]]
      /\ \A i \in 1..n : data[i] \in Bytes
  BY LenProperties
<1> HIDE DEF n
<1>2. DOMAIN s = 1..n /\ \A i \in 1..n : s[i] = (data[i] + key) % 256
  BY <1>1 DEF Shifted
<1>3. s \in [1..n -> Bytes]
  <2>1. s = [i \in 1..n |-> (data[i] + key) % 256]
    BY <1>1 DEF Shifted
  <2> HIDE DEF s
  <2> QED BY <1>1, <2>1, ShiftBack
<1> HIDE DEF s
<1>4. s \in Seq(Bytes)
  BY <1>1, <1>3, SeqDef
<1>5. Shifted(s, k) = [i \in 1..n |-> (s[i] + k) % 256]
  BY <1>2, Zenon DEF Shifted
<1>6. \A i \in 1..n : (s[i] + k) % 256 = data[i]
  BY <1>1, <1>2, ShiftBack
<1> HIDE DEF k
<1>7. Shifted(s, k) = data
  BY <1>1, <1>5, <1>6
<1> QED BY <1>4, <1>7 DEF s, k

(* decrypt() gives back what encrypt() was given, and does not throw. *)
LEMMA DecryptInvertsEncrypt ==
  ASSUME NEW data \in Seq(Bytes), NEW key \in Nat
  PROVE  /\ encrypt(key, data) \in Seq(Bytes)
         /\ ~DecryptThrows(key, encrypt(key, data))
         /\ decrypt(key, encrypt(key, data)) = data
<1> DEFINE p == Padded(data)
           n == Len(data)
           f == FillOf(data)
<1>1. /\ n \in Nat /\ f \in 1..4 /\ p \in Seq(Bytes) /\ Len(p) = n + f
      /\ Len(p) % Block = 0 /\ \A i \in 1..n : p[i] = data[i]
      /\ \A i \in (n + 1)..(n + f) : p[i] = f
  BY PaddedIs, LenProperties
<1>2. /\ encrypt(key, data) \in Seq(Bytes)
      /\ Shifted(encrypt(key, data), 256 - (key % 256)) = p
  <2>1. encrypt(key, data) = Shifted(p, key)
    BY Zenon DEF encrypt
  <2>2. p \in Seq(Bytes)
    BY <1>1
  <2> HIDE DEF p
  <2> QED BY <2>1, <2>2, ShiftedBack
<1> HIDE DEF p, f
<1>3. Last(p) = f
  BY <1>1 DEF Last
<1>4. WellPadded(p)
  <2>1. p # <<>>
    BY <1>1
  <2> HIDE DEF n
  <2>2. f \in 1..Block /\ Len(p) - f + 1 = n + 1
    BY <1>1 DEF Block
  <2> QED BY <1>1, <1>3, <2>1, <2>2 DEF WellPadded
<1>5. SubSeq(p, 1, Len(p) - Last(p)) = data
  <2> HIDE DEF n
  <2>1. Len(p) - Last(p) = n
    BY <1>1, <1>3
  <2>2. \A i \in 1..n : p[i] \in Bytes
    BY <1>1, LenProperties
  <2>3. n \in Int /\ 1 \in Int
    BY <1>1
  <2>4. /\ SubSeq(p, 1, n) \in Seq(Bytes)
        /\ Len(SubSeq(p, 1, n)) = IF 1 <= n THEN n - 1 + 1 ELSE 0
        /\ \A i \in 1..(n - 1 + 1) : SubSeq(p, 1, n)[i] = p[1 + i - 1]
    BY <2>2, <2>3, SubSeqProperties
  <2>5. Len(SubSeq(p, 1, n)) = n /\ \A i \in 1..n : SubSeq(p, 1, n)[i] = data[i]
    BY <1>1, <2>4
  <2>6. SubSeq(p, 1, n) = data
    BY <2>4, <2>5, SeqEqual DEF n
  <2> QED BY <2>1, <2>6
<1>6. ~DecryptThrows(key, encrypt(key, data))
  BY <1>2, <1>4 DEF DecryptThrows
<1>7. decrypt(key, encrypt(key, data)) = data
  BY <1>2, <1>5 DEF decrypt
<1> QED BY <1>2, <1>6, <1>7


-----------------------------------------------------------------------------
(* The secret handler's answer can be read by whoever has its key. *)

(* The digest of a key file is a number, because its text is finite. *)
LEMMA TextIsFinite ==
  ASSUME NEW s, IsText(s)
  PROVE  IsFiniteSet(ToSet(s))
<1>1. Len(s) \in Nat /\ DOMAIN s = 1..Len(s) /\ s \in [1..Len(s) -> ToSet(s)]
  BY LenProperties DEF IsText
<1>2. s \in Surjection(1..Len(s), ToSet(s))
  BY <1>1 DEF Surjection, ToSet
<1>3. IsFiniteSet(1..Len(s))
  BY <1>1, FS_Interval
<1> QED BY <1>2, <1>3, FS_Surjection

(* The key of a cipher is a number. *)
LEMMA CipherIsNumber ==
  ASSUME NEW file \in ServerFiles \cup {ClientFile}
  PROVE  Cipher(file) \in Nat
<1> DEFINE pem == readPrivateKey(file)
           material == KeyMaterial(pem)
<1>1. IsText(pem)
  BY FilesAssumption, WordsAreText DEF readPrivateKey
<1> HIDE DEF pem
<1>2. IsFiniteSet(material)
  BY <1>1, TextIsFinite, FS_Subset DEF KeyMaterial
<1> HIDE DEF material
<1>3. Cardinality(material) \in Nat
  BY <1>2, FS_CardinalityType
<1>4. Digest(material) \in Nat
  BY <1>3 DEF Digest
<1> QED BY <1>4 DEF Cipher, generateKeyIV, pem, material

(* Until a handler is called no key file has been read; afterwards the     *)
(* answer of the secret handler is the server's message, encrypted with    *)
(* the key it read, and what the client sent was decrypted with that key   *)
(* and logged, or else it is a refusal, because that could not be          *)
(* decrypted, and then nothing was logged.                                 *)
HasBody(r, body) == r.mBody = body
SecretInv ==
  /\ secret \in [message : Bytes, createdAt : Bytes, id : Bytes]
  /\ pc \in {"register", "connect", "send", "parse", "handle"} => ~keyFile.opens
  /\ pc = "receive" /\ keyFile.opens =>
       /\ keyFile \in ServerFiles
       /\ \/ /\ answer.mStatusCode = HttpResponseStatus.OK
             /\ HasBody(answer, base64Encode(encrypt(Cipher(keyFile), to_json(secret))))
             /\ logged = decrypt(Cipher(keyFile), SentBytes(request))
          \/ /\ answer.mStatusCode # HttpResponseStatus.OK /\ logged = <<>>
             /\ DecryptThrows(Cipher(keyFile), SentBytes(request))

(* addHeader() leaves the body alone, and Json() sets it. *)
LEMMA HeaderKeepsBody ==
  ASSUME NEW r, NEW name, NEW value, NEW body, HasBody(r, body)
  PROVE  HasBody(addHeader(r, name, value), body)
BY DEF addHeader, HasBody

(* The body of an answer Json() made is what Json() was given. *)
LEMMA BodyOfJson ==
  ASSUME NEW status, NEW body
  PROVE  HasBody(Json(status, body), body)
<1>1. \A r : HasBody(setBody(r, body), body)
  BY DEF setBody, HasBody
<1> QED BY <1>1 DEF Json

(* A message is read back from the bytes that were written of it. *)
LEMMA MessageIsReadBack ==
  ASSUME NEW s \in [message : Bytes, createdAt : Bytes, id : Bytes]
  PROVE  to_json(s) \in Seq(Bytes) /\ from_json(to_json(s)) = s
<1> DEFINE a == <<s.message, s.createdAt>>
           b == <<s.id \div 16, s.id % 16>>
           t == to_json(s)
<1>1. a \in Seq(Bytes) /\ b \in Seq(Bytes) /\ Len(a) = 2 /\ Len(b) = 2
  <2>1. s.id \div 16 \in Bytes /\ s.id % 16 \in Bytes
    BY DEF Bytes
  <2> QED BY <2>1
<1>2. t = a \o b
  BY DEF to_json, uuidToString
<1>3. a[1] = s.message /\ a[2] = s.createdAt /\ b[1] = s.id \div 16 /\ b[2] = s.id % 16
  OBVIOUS
<1> HIDE DEF a, b, t
<1>4. /\ t \in Seq(Bytes) /\ t[1] = s.message /\ t[2] = s.createdAt
      /\ t[3] = s.id \div 16 /\ t[4] = s.id % 16
  BY <1>1, <1>2, <1>3, ConcatProperties, SMTT(30)
<1>5. 16 * (s.id \div 16) + (s.id % 16) = s.id
  BY DEF Bytes
<1>6. from_json(t) = [message |-> s.message, createdAt |-> s.createdAt, id |-> s.id]
  BY <1>4, <1>5 DEF from_json
<1>7. s = [message |-> s.message, createdAt |-> s.createdAt, id |-> s.id]
  OBVIOUS
<1> QED BY <1>4, <1>6, <1>7 DEF t

(* Initially there is no key file. *)
LEMMA SecretInvInit == Init => SecretInv
<1> SUFFICES ASSUME Init PROVE SecretInv
  OBVIOUS
<1>1. secret = [message |-> 0, createdAt |-> 0 \div 10, id |-> 0]
  BY DEF Init, NoSecret, SecretMessage, getFormattedTime
<1>2. 0 \div 10 = 0
  OBVIOUS
<1>3. secret \in [message : Bytes, createdAt : Bytes, id : Bytes]
  BY <1>1, <1>2 DEF Bytes
<1> QED BY <1>3 DEF Init, SecretInv, NoFile

(* handleRequest() is the one step that calls the handler. *)
LEMMA SecretInvStep ==
  ASSUME SecretInv, [Next]_vars
  PROVE  SecretInv'
<1>1. CASE Handle
  <2> DEFINE handler == getHandler(handlers, request.mMethod, request.mPath)
             sealed == base64Encode(encrypt(Cipher(keyFile'), to_json(secret')))
             made == SecretAnswer(request, keyFile', secret')
  <2>1. pc = "handle" /\ pc' = "receive"
    BY <1>1 DEF Handle
  <2>2. CASE handler # "secret"
    <3>1. keyFile' = keyFile /\ secret' = secret
      BY <1>1, <2>2 DEF Handle
    <3> QED BY <2>1, <3>1 DEF SecretInv
  <2>3. CASE handler = "secret"
    <3>1. keyFile' \in ServerFiles /\ secret' \in Secrets
      BY <1>1, <2>3 DEF Handle
    <3>2. answer' = made \/ answer' = addHeader(made, "Connection", "keep-alive")
      BY <1>1, <2>3 DEF Handle, AnswerOf
    <3>3. logged' = SecretLogged(request, keyFile')
      BY <1>1, <2>3 DEF Handle
    <3>4. secret' \in [message : Bytes, createdAt : Bytes, id : Bytes]
      BY <3>1, SecretsAssumption DEF Bytes
    <3>5. request' = request
      BY <1>1 DEF Handle
    <3> DEFINE opened == decrypt(Cipher(keyFile'), SentBytes(request'))
               throws == DecryptThrows(Cipher(keyFile'), SentBytes(request'))
    <3>6. CASE throws
      <4>1. logged' = <<>>
        BY <3>3, <3>5, <3>6 DEF SecretLogged
      <4>2. HasStatus(made, 400)
        <5>1. \A body : HasStatus(Json(HttpResponseStatus.BAD_REQUEST, body), 400)
          BY StatusOfJson, Statuses
        <5>2. \E body : made = Json(HttpResponseStatus.BAD_REQUEST, body)
          BY <3>5, <3>6, Zenon DEF SecretAnswer
        <5> HIDE DEF made
        <5> QED BY <5>1, <5>2
      <4> HIDE DEF made, sealed
      <4>3. HasStatus(answer', 400)
        BY <3>2, <4>2, HeaderKeepsStatus
      <4> QED BY <2>1, <3>1, <3>4, <3>6, <4>1, <4>3, Statuses DEF SecretInv, HasStatus
    <3>7. CASE ~throws
      <4>1. made = Json(HttpResponseStatus.OK, sealed) /\ logged' = opened
        BY <3>3, <3>5, <3>7 DEF SecretAnswer, SecretLogged
      <4> HIDE DEF sealed
      <4>2. HasStatus(made, 200) /\ HasBody(made, sealed)
        BY <4>1, StatusOfJson, BodyOfJson, Statuses
      <4> HIDE DEF made
      <4>3. HasStatus(answer', 200) /\ HasBody(answer', sealed)
        BY <3>2, <4>2, HeaderKeepsStatus, HeaderKeepsBody
      <4> QED BY <2>1, <3>1, <3>4, <4>1, <4>3, Statuses DEF SecretInv, HasStatus, sealed
    <3> QED BY <3>6, <3>7
  <2> QED BY <2>2, <2>3
<1>2. CASE Register \/ Connect \/ Send \/ Parse \/ Receive
  BY <1>2 DEF Register, Connect, Send, Parse, Receive, exchangeVars, SecretInv
<1>3. CASE UNCHANGED vars
  BY <1>3 DEF vars, exchangeVars, SecretInv
<1> QED BY <1>1, <1>2, <1>3 DEF Next

(* GetSecretRouteHandler, AESCipher, SecretMessage: for any key files and  *)
(* messages, an answered secret is base 64 of a cipher text from which a   *)
(* client with the server's cipher gets the server's message, bit by bit,  *)
(* and a refused one is not logged.                                        *)
THEOREM AnsweredSecretsAreReadable ==
  Spec => [](pc = "receive" /\ keyFile.opens => AnswerIsReadable)
<1>1. SecretInv => (pc = "receive" /\ keyFile.opens => AnswerIsReadable)
  <2> SUFFICES ASSUME SecretInv, pc = "receive", keyFile.opens
               PROVE  /\ answer.mStatusCode = HttpResponseStatus.OK
                           /\ Cipher(keyFile) = Cipher(ClientFile) =>
                         LET bytes == decrypt(Cipher(ClientFile), base64Decode(answer.mBody))
                         IN bytes = to_json(secret) /\ from_json(bytes) = secret
                      /\ answer.mStatusCode # HttpResponseStatus.OK => logged = <<>>
    BY DEF AnswerIsReadable
  <2>1. ASSUME answer.mStatusCode = HttpResponseStatus.OK,
               Cipher(keyFile) = Cipher(ClientFile)
        PROVE  decrypt(Cipher(ClientFile), base64Decode(answer.mBody)) = to_json(secret)
    <3> DEFINE key == Cipher(ClientFile)
               data == to_json(secret)
    <3>1. answer.mBody = base64Encode(encrypt(key, data))
      BY <2>1 DEF SecretInv, HasBody
    <3>2. key \in Nat
      BY CipherIsNumber
    <3>3. data \in Seq(Bytes)
      BY MessageIsReadBack DEF SecretInv
    <3> HIDE DEF key, data
    <3>4. encrypt(key, data) \in Seq(Bytes) /\ decrypt(key, encrypt(key, data)) = data
      BY <3>2, <3>3, DecryptInvertsEncrypt
    <3>5. base64Decode(answer.mBody) = encrypt(key, data)
      BY <3>1, <3>4, Base64RoundTrip
    <3>6. decrypt(key, base64Decode(answer.mBody)) = data
      BY <3>4, <3>5
    <3> QED BY <3>6 DEF key, data
  <2>2. from_json(to_json(secret)) = secret
    BY MessageIsReadBack DEF SecretInv
  <2>3. answer.mStatusCode # HttpResponseStatus.OK => logged = <<>>
    BY DEF SecretInv
  <2> QED BY <2>1, <2>2, <2>3
<1> QED BY <1>1, SecretInvInit, SecretInvStep, PTL DEF Spec

-----------------------------------------------------------------------------
(* Texts by their positions: joined, cut, found and compared. *)

(* The length of a text. *)
LEMMA TextLength ==
  ASSUME NEW s, IsText(s)
  PROVE  Len(s) \in Nat /\ DOMAIN s = 1..Len(s)
BY LenProperties DEF IsText

(* What stands where in two texts joined. *)
LEMMA JoinIs ==
  ASSUME NEW s, NEW t, IsText(s), IsText(t)
  PROVE  /\ IsText(s \o t) /\ Len(s \o t) = Len(s) + Len(t)
         /\ \A i \in 1..Len(s) : (s \o t)[i] = s[i]
         /\ \A i \in 1..Len(t) : (s \o t)[Len(s) + i] = t[i]
<1> DEFINE S == ToSet(s) \cup ToSet(t)
<1>1. s \in Seq(S) /\ t \in Seq(S)
  <2>1. s \in Seq(ToSet(s)) /\ t \in Seq(ToSet(t))
    BY DEF IsText
  <2>2. \A A, B : A \subseteq B => Seq(A) \subseteq Seq(B)
    BY SeqDef
  <2> QED BY <2>1, <2>2
<1> HIDE DEF S
<1>2. Len(s) \in Nat /\ Len(t) \in Nat
  BY <1>1, LenProperties
<1> DEFINE u == s \o t
<1>3. /\ Len(u) = Len(s) + Len(t)
      /\ \A i \in 1..(Len(s) + Len(t)) : u[i] = IF i <= Len(s) THEN s[i] ELSE t[i - Len(s)]
  BY <1>1, ConcatProperties
<1> HIDE DEF u
<1>4. \A i \in 1..Len(s) : u[i] = s[i]
  BY <1>2, <1>3
<1>5. \A i \in 1..Len(t) : u[Len(s) + i] = t[i]
  <2> TAKE i \in 1..Len(t)
  <2>1. Len(s) + i \in 1..(Len(s) + Len(t)) /\ ~(Len(s) + i <= Len(s))
        /\ (Len(s) + i) - Len(s) = i
    BY <1>2
  <2> QED BY <1>3, <2>1
<1> QED BY <1>3, <1>4, <1>5, ConcatIsText DEF u

(* Two texts are the same when they agree everywhere. *)
LEMMA SameText ==
  ASSUME NEW s, NEW t, IsText(s), IsText(t), Len(s) = Len(t),
         \A i \in 1..Len(s) : s[i] = t[i]
  PROVE  s = t
<1> DEFINE S == ToSet(s) \cup ToSet(t)
<1>1. s \in Seq(S) /\ t \in Seq(S)
  <2>1. s \in Seq(ToSet(s)) /\ t \in Seq(ToSet(t))
    BY DEF IsText
  <2>2. \A A, B : A \subseteq B => Seq(A) \subseteq Seq(B)
    BY SeqDef
  <2> QED BY <2>1, <2>2
<1> HIDE DEF S
<1> QED BY <1>1, SeqEqual

(* Joining does not depend on what is joined first. *)
LEMMA JoinAssociates ==
  ASSUME NEW s, NEW t, NEW u, IsText(s), IsText(t), IsText(u)
  PROVE  (s \o t) \o u = s \o (t \o u)
<1> DEFINE S == ToSet(s) \cup ToSet(t) \cup ToSet(u)
<1>1. s \in Seq(S) /\ t \in Seq(S) /\ u \in Seq(S)
  <2>1. s \in Seq(ToSet(s)) /\ t \in Seq(ToSet(t)) /\ u \in Seq(ToSet(u))
    BY DEF IsText
  <2>2. \A A, B : A \subseteq B => Seq(A) \subseteq Seq(B)
    BY SeqDef
  <2> QED BY <2>1, <2>2
<1> HIDE DEF S
<1> QED BY <1>1, ConcatAssociative

(* The empty text adds nothing. *)
LEMMA JoinEmpty ==
  ASSUME NEW s, IsText(s)
  PROVE  s \o <<>> = s /\ <<>> \o s = s
BY ConcatEmptySeq DEF IsText

(* A part of a text of n lexemes, from the i-th on. *)
LEMMA CutIs ==
  ASSUME NEW s, IsText(s), NEW i \in Nat \ {0}, NEW n \in Nat, NEW j, j = i + n - 1,
         j <= Len(s)
  PROVE  /\ IsText(SubSeq(s, i, j)) /\ Len(SubSeq(s, i, j)) = n
         /\ \A k \in 1..n : SubSeq(s, i, j)[k] = s[i + k - 1]
<1>1. Len(s) \in Nat
  BY TextLength
<1>2. CASE i <= Len(s) + 1
  <2>1. i \in 1..(Len(s) + 1) /\ j \in 0..Len(s) /\ i <= j + 1 /\ j - i + 1 = n
    BY <1>1, <1>2
  <2> QED BY <2>1, CutIsText
<1>3. CASE i > Len(s) + 1
  <2>1. FALSE
    BY <1>1, <1>3
  <2> QED BY <2>1
<1> QED BY <1>1, <1>2, <1>3

(* A text cut at its end, or after it, is the text. *)
LEMMA CutWhole ==
  ASSUME NEW s, IsText(s)
  PROVE  SubSeq(s, 1, Len(s)) = s
BY SubSeqFull DEF IsText

(* A cut of less than nothing is empty. *)
LEMMA CutNothing ==
  ASSUME NEW s, NEW i \in Nat, NEW j \in Nat, j < i
  PROVE  SubSeq(s, i, j) = <<>>
BY SubSeqEmpty

(* find() when the first hit is known, and when there is none. *)
LEMMA FindIs ==
  ASSUME NEW s, IsText(s), NEW p, NEW from \in Nat \ {0}, NEW m \in from..Len(s),
         Occurs(s, p, m), \A i \in from..(m - 1) : ~Occurs(s, p, i)
  PROVE  Find(s, p, from) = m
<1> DEFINE hits == {i \in from..Len(s) : Occurs(s, p, i)}
<1>1. Len(s) \in Nat
  BY TextLength
<1>2. hits \in SUBSET Nat /\ m \in hits /\ \A i \in hits : m <= i
  BY <1>1
<1>3. Min(hits) = m
  <2> HIDE DEF hits
  <2> QED BY <1>2, MinIs
<1>4. hits # {}
  BY <1>2
<1> QED BY <1>3, <1>4 DEF Find

(* find() when the pattern occurs nowhere. *)
LEMMA FindNone ==
  ASSUME NEW s, NEW p, NEW from, \A i \in from..Len(s) : ~Occurs(s, p, i)
  PROVE  Find(s, p, from) = 0
<1>1. {i \in from..Len(s) : Occurs(s, p, i)} = {}
  OBVIOUS
<1> QED BY <1>1 DEF Find

(* A single character occurs where it stands, *)
LEMMA OccursOne ==
  ASSUME NEW s, IsText(s), NEW d, NEW i \in 1..Len(s)
  PROVE  Occurs(s, <<d>>, i) <=> s[i] = d
<1>1. Len(s) \in Nat
  BY TextLength
<1> QED BY <1>1 DEF Occurs

(* and the blank line is its four characters. *)
LEMMA OccursBlank ==
  ASSUME NEW s, IsText(s), NEW i \in 1..Len(s)
  PROVE  Occurs(s, Crlf \o Crlf, i) <=>
           i + 3 <= Len(s) /\ s[i] = CR /\ s[i + 1] = LF /\ s[i + 2] = CR /\ s[i + 3] = LF
<1>1. Len(s) \in Nat
  BY TextLength
<1> DEFINE p == Crlf \o Crlf
<1>2. Len(p) = 4 /\ p[1] = CR /\ p[2] = LF /\ p[3] = CR /\ p[4] = LF
  BY DEF Crlf
<1> HIDE DEF p
<1>3. Occurs(s, p, i) <=> i + 4 - 1 <= Len(s) /\ \A k \in 1..4 : s[i + k - 1] = p[k]
  BY <1>2 DEF Occurs
<1>4. (\A k \in 1..4 : s[i + k - 1] = p[k]) <=>
        s[i + 1 - 1] = p[1] /\ s[i + 2 - 1] = p[2] /\ s[i + 3 - 1] = p[3] /\ s[i + 4 - 1] = p[4]
  <2>1. 1..4 = {1, 2, 3, 4}
    OBVIOUS
  <2> QED BY <2>1
<1>5. i + 1 - 1 = i /\ i + 2 - 1 = i + 1 /\ i + 3 - 1 = i + 2 /\ i + 4 - 1 = i + 3
  OBVIOUS
<1>6. Occurs(s, p, i) <=>
           i + 3 <= Len(s) /\ s[i] = CR /\ s[i + 1] = LF /\ s[i + 2] = CR /\ s[i + 3] = LF
  BY <1>2, <1>3, <1>4, <1>5
<1> QED BY <1>6 DEF p

(* getline() and the rest, when the character is missing, *)
LEMMA SplitNone ==
  ASSUME NEW s, IsText(s), NEW d, \A i \in 1..Len(s) : s[i] # d
  PROVE  Before(s, d) = s /\ After(s, d) = <<>>
<1>1. \A i \in 1..Len(s) : ~Occurs(s, <<d>>, i)
  BY OccursOne
<1>2. Find(s, <<d>>, 1) = 0
  BY <1>1, FindNone
<1> QED BY <1>2 DEF Before, After

(* and when it stands at the k-th place first. *)
LEMMA SplitAt ==
  ASSUME NEW s, IsText(s), NEW d, NEW k \in 1..Len(s), s[k] = d,
         \A i \in 1..(k - 1) : s[i] # d
  PROVE  Before(s, d) = SubSeq(s, 1, k - 1) /\ After(s, d) = SubSeq(s, k + 1, Len(s))
<1>1. Len(s) \in Nat
  BY TextLength
<1>2. Occurs(s, <<d>>, k) /\ \A i \in 1..(k - 1) : ~Occurs(s, <<d>>, i)
  <2>1. \A i \in 1..(k - 1) : i \in 1..Len(s)
    BY <1>1
  <2> QED BY <2>1, OccursOne
<1>3. Find(s, <<d>>, 1) = k
  <2>1. 1 \in Nat \ {0} /\ k \in 1..Len(s)
    OBVIOUS
  <2> QED BY <1>2, <2>1, FindIs
<1>4. k # 0
  BY <1>1
<1> QED BY <1>3, <1>4 DEF Before, After, From

(* What substr(i) leaves. *)
LEMMA FromIs ==
  ASSUME NEW s, IsText(s), NEW i \in 1..(Len(s) + 1)
  PROVE  /\ IsText(From(s, i)) /\ Len(From(s, i)) = Len(s) - i + 1
         /\ \A k \in 1..(Len(s) - i + 1) : From(s, i)[k] = s[i + k - 1]
<1>1. Len(s) \in Nat
  BY TextLength
<1>2. Len(s) \in 0..Len(s) /\ i <= Len(s) + 1
  BY <1>1
<1> QED BY <1>2, CutIsText DEF From

-----------------------------------------------------------------------------
(* The head of a message: a first line and header lines, each up to CR LF. *)

(* A text without certain lexemes. *)
Free(s, set) == \A i \in 1..Len(s) : s[i] \notin set
Breaks == {CR, LF}

(* The marks of a head differ. *)
LEMMA MarksDiffer ==
  CR # LF /\ CR # ":" /\ LF # ":" /\ Space # ":" /\ Space \notin Breaks /\ ":" \notin Breaks
BY Zenon DEF CR, LF, Space, Breaks

(* Every line of a head has something in it and ends with CR LF. *)
Lined(h) ==
  /\ IsText(h) /\ Len(h) >= 3 /\ h[1] \notin Breaks /\ h[Len(h)] = LF
  /\ \A i \in 1..Len(h) : h[i] = LF => i > 1 /\ h[i - 1] = CR
  /\ \A i \in 1..Len(h) :
       h[i] = CR => i > 1 /\ i < Len(h) /\ h[i - 1] \notin Breaks /\ h[i + 1] = LF

(* A header line that starts at b. *)
LineAt(h, b, name, value) ==
  /\ b + Len(value) + 4 <= Len(h)
  /\ h[b] = name /\ h[b + 1] = ":" /\ h[b + 2] = Space
  /\ \A k \in 1..Len(value) : h[b + 2 + k] = value[k]
  /\ h[b + Len(value) + 3] = CR /\ h[b + Len(value) + 4] = LF

(* After the first line there are header lines for exactly the names of a  *)
(* map, with its values.                                                   *)
FieldsOf(F) == \A x \in DOMAIN F : x \notin Breaks \cup {":"} /\ IsText(F[x]) /\ Free(F[x], Breaks)
HeadOf(h, F) ==
  /\ Lined(h) /\ FieldsOf(F)
  /\ \A b \in 2..Len(h) : h[b - 1] = LF => \E x \in DOMAIN F : LineAt(h, b, x, F[x])
  /\ \A x \in DOMAIN F : \E b \in 2..Len(h) : h[b - 1] = LF /\ LineAt(h, b, x, F[x])

(* A line and its end. *)
LEMMA EndedLine ==
  ASSUME NEW s, IsText(s), Len(s) >= 1, Free(s, Breaks)
  PROVE  /\ IsText(s \o Crlf) /\ Len(s \o Crlf) = Len(s) + 2
         /\ \A i \in 1..Len(s) : (s \o Crlf)[i] = s[i]
         /\ (s \o Crlf)[Len(s) + 1] = CR /\ (s \o Crlf)[Len(s) + 2] = LF
         /\ Lined(s \o Crlf)
<1>1. IsText(Crlf) /\ Len(Crlf) = 2 /\ Crlf[1] = CR /\ Crlf[2] = LF
  BY WordsAreText DEF Crlf
<1>2. Len(s) \in Nat
  BY TextLength
<1> DEFINE l == s \o Crlf
<1>3. /\ IsText(l) /\ Len(l) = Len(s) + 2
      /\ \A i \in 1..Len(s) : l[i] = s[i]
      /\ l[Len(s) + 1] = CR /\ l[Len(s) + 2] = LF
  <2>1. /\ IsText(l) /\ Len(l) = Len(s) + Len(Crlf)
        /\ \A i \in 1..Len(s) : l[i] = s[i]
        /\ \A i \in 1..Len(Crlf) : l[Len(s) + i] = Crlf[i]
    <3>1. IsText(Crlf)
      BY <1>1
    <3> QED BY <3>1, JoinIs
  <2> HIDE DEF l
  <2> QED BY <1>1, <2>1
<1> HIDE DEF l
<1>4. Lined(l)
  <2>1. \A i \in 1..Len(s) : l[i] # CR /\ l[i] # LF
    BY <1>3 DEF Free, Breaks
  <2>2. ASSUME NEW i \in 1..Len(l), l[i] = LF PROVE i > 1 /\ l[i - 1] = CR
    <3>1. i = Len(s) + 2
      BY <1>2, <1>3, <2>1, <2>2, MarksDiffer
    <3>2. i - 1 = Len(s) + 1
      BY <1>2, <3>1
    <3> QED BY <1>2, <1>3, <3>1, <3>2
  <2>3. ASSUME NEW i \in 1..Len(l), l[i] = CR
        PROVE  i > 1 /\ i < Len(l) /\ l[i - 1] \notin Breaks /\ l[i + 1] = LF
    <3>1. i = Len(s) + 1
      BY <1>2, <1>3, <2>1, <2>3, MarksDiffer
    <3>2. i - 1 = Len(s) /\ i + 1 = Len(s) + 2 /\ Len(s) \in 1..Len(s)
      BY <1>2, <3>1
    <3>3. l[Len(s)] \notin Breaks
      BY <2>1, <3>2 DEF Breaks
    <3> QED BY <1>2, <1>3, <3>1, <3>2, <3>3
  <2>4. 1 \in 1..Len(s)
    BY <1>2
  <2> QED BY <1>2, <1>3, <2>1, <2>2, <2>3, <2>4 DEF Lined, Breaks
<1> QED BY <1>3, <1>4 DEF l

(* The first line alone is a head without header lines. *)
LEMMA HeadStarts ==
  ASSUME NEW s, IsText(s), Len(s) >= 1, Free(s, Breaks)
  PROVE  HeadOf(s \o Crlf, NoMap)
<1> DEFINE l == s \o Crlf
<1>1. /\ Len(l) = Len(s) + 2 /\ Lined(l)
      /\ \A i \in 1..Len(s) : l[i] = s[i]
      /\ l[Len(s) + 1] = CR
  BY EndedLine
<1>2. DOMAIN NoMap = {}
  BY DEF NoMap
<1> HIDE DEF l
<1>3. Len(s) \in Nat
  BY TextLength
<1>4. ASSUME NEW b \in 2..Len(l), l[b - 1] = LF PROVE FALSE
  <2>1. b - 1 \in 1..Len(s) \/ b - 1 = Len(s) + 1
    BY <1>1, <1>3
  <2>2. CASE b - 1 \in 1..Len(s)
    BY <1>1, <1>4, <2>2 DEF Free, Breaks
  <2>3. CASE b - 1 = Len(s) + 1
    BY <1>1, <1>4, <2>3, MarksDiffer
  <2> QED BY <2>1, <2>2, <2>3
<1>5. HeadOf(l, NoMap)
  BY <1>1, <1>2, <1>4 DEF HeadOf, FieldsOf
<1> QED BY <1>5 DEF l

(* A map with one more name. *)
With(F, name, value) ==
  [x \in {name} \cup DOMAIN F |-> IF x = name THEN value ELSE F[x]]

(* One header line, and where its lexemes stand. *)
LEMMA HeaderIs ==
  ASSUME NEW name, NEW value, IsText(value)
  PROVE  LET l == Header(name, value)
         IN /\ IsText(l) /\ Len(l) = Len(value) + 5
            /\ l[1] = name /\ l[2] = ":" /\ l[3] = Space
            /\ \A k \in 1..Len(value) : l[3 + k] = value[k]
            /\ l[Len(value) + 4] = CR /\ l[Len(value) + 5] = LF
<1> DEFINE n == <<name, ":", Space>>
<1>1. IsText(n) /\ Len(n) = 3 /\ n[1] = name /\ n[2] = ":" /\ n[3] = Space
  BY WordsAreText
<1>2. Header(name, value) = n \o value \o Crlf
  BY Zenon DEF Header, Space
<1> HIDE DEF n
<1>3. IsText(Crlf) /\ Len(Crlf) = 2 /\ Crlf[1] = CR /\ Crlf[2] = LF
  BY WordsAreText DEF Crlf
<1>4. Len(value) \in Nat
  BY TextLength
<1> DEFINE m == n \o value
<1>5. /\ IsText(m) /\ Len(m) = 3 + Len(value)
      /\ \A i \in 1..3 : m[i] = n[i]
      /\ \A k \in 1..Len(value) : m[3 + k] = value[k]
  <2>1. IsText(n)
    BY <1>1
  <2>2. /\ IsText(m) /\ Len(m) = Len(n) + Len(value)
        /\ \A i \in 1..Len(n) : m[i] = n[i]
        /\ \A k \in 1..Len(value) : m[Len(n) + k] = value[k]
    BY <2>1, JoinIs
  <2> HIDE DEF m
  <2> QED BY <1>1, <2>2
<1> DEFINE l == m \o Crlf
<1>6. /\ IsText(l) /\ Len(l) = Len(m) + Len(Crlf)
      /\ \A i \in 1..Len(m) : l[i] = m[i]
      /\ \A i \in 1..Len(Crlf) : l[Len(m) + i] = Crlf[i]
  <2> HIDE DEF m
  <2>1. IsText(m) /\ IsText(Crlf)
    BY <1>3, <1>5
  <2> QED BY <2>1, JoinIs
<1>7. Header(name, value) = l
  BY <1>2
<1> HIDE DEF m, l
<1>8. l[1] = name /\ l[2] = ":" /\ l[3] = Space
  BY <1>1, <1>4, <1>5, <1>6
<1>9. \A k \in 1..Len(value) : l[3 + k] = value[k]
  BY <1>4, <1>5, <1>6
<1>10. l[Len(value) + 4] = CR /\ l[Len(value) + 5] = LF
  <2>1. Len(m) + 1 = Len(value) + 4 /\ Len(m) + 2 = Len(value) + 5
    BY <1>4, <1>5
  <2> QED BY <1>3, <1>6, <2>1
<1>11. IsText(l) /\ Len(l) = Len(value) + 5
  BY <1>3, <1>4, <1>5, <1>6
<1> QED BY <1>7, <1>8, <1>9, <1>10, <1>11

(* Its only line break is its end. *)
LEMMA HeaderBreaks ==
  ASSUME NEW name, NEW value, IsText(value), name \notin Breaks, Free(value, Breaks)
  PROVE  \A i \in 1..(Len(value) + 5) :
           /\ Header(name, value)[i] = CR <=> i = Len(value) + 4
           /\ Header(name, value)[i] = LF <=> i = Len(value) + 5
<1> DEFINE l == Header(name, value)
<1>1. /\ l[1] = name /\ l[2] = ":" /\ l[3] = Space
      /\ \A k \in 1..Len(value) : l[3 + k] = value[k]
      /\ l[Len(value) + 4] = CR /\ l[Len(value) + 5] = LF
  BY HeaderIs
<1> HIDE DEF l
<1>2. Len(value) \in Nat
  BY TextLength
<1>3. \A i \in 1..(Len(value) + 3) : l[i] \notin Breaks
  <2> TAKE i \in 1..(Len(value) + 3)
  <2>1. CASE i \in {1, 2, 3}
    BY <1>1, <2>1, MarksDiffer
  <2>2. CASE i > 3
    <3>1. i - 3 \in 1..Len(value) /\ 3 + (i - 3) = i
      BY <1>2, <2>2
    <3>2. l[i] = value[i - 3]
      BY <1>1, <3>1
    <3> QED BY <3>1, <3>2 DEF Free
  <2> QED BY <1>2, <2>1, <2>2
<1>4. \A i \in 1..(Len(value) + 5) : \/ i \in 1..(Len(value) + 3)
                                     \/ i = Len(value) + 4 \/ i = Len(value) + 5
  BY <1>2
<1>5. Len(value) + 4 # Len(value) + 5
  BY <1>2
<1>6. \A i \in 1..(Len(value) + 3) : i # Len(value) + 4 /\ i # Len(value) + 5
  BY <1>2
<1>7. \A i \in 1..(Len(value) + 5) :
           /\ l[i] = CR <=> i = Len(value) + 4
           /\ l[i] = LF <=> i = Len(value) + 5
  BY <1>1, <1>3, <1>4, <1>5, <1>6, MarksDiffer DEF Breaks
<1> QED BY <1>7 DEF l

(* A head with another header line is a head. *)
LEMMA HeadGrows ==
  ASSUME NEW h, NEW F, HeadOf(h, F), NEW name, NEW value, IsText(value), Free(value, Breaks),
         name \notin Breaks \cup {":"}, name \notin DOMAIN F
  PROVE  HeadOf(h \o Header(name, value), With(F, name, value))
<1> DEFINE l == Header(name, value)
           g == h \o l
           G == With(F, name, value)
           n == Len(value)
           m == Len(h)
<1>1. /\ IsText(l) /\ Len(l) = n + 5
      /\ l[1] = name /\ l[2] = ":" /\ l[3] = Space
      /\ \A k \in 1..n : l[3 + k] = value[k]
      /\ l[n + 4] = CR /\ l[n + 5] = LF
  BY HeaderIs
<1>2. \A i \in 1..(n + 5) : (l[i] = CR <=> i = n + 4) /\ (l[i] = LF <=> i = n + 5)
  BY HeaderBreaks
<1> HIDE DEF l
<1>3. Lined(h) /\ IsText(h) /\ m \in Nat /\ m >= 3 /\ n \in Nat
  BY TextLength DEF HeadOf, Lined
<1>4. /\ IsText(g) /\ Len(g) = m + n + 5
      /\ \A i \in 1..m : g[i] = h[i]
      /\ \A i \in 1..(n + 5) : g[m + i] = l[i]
  <2>1. IsText(l)
    BY <1>1
  <2>2. IsText(g) /\ Len(g) = Len(h) + Len(l)
      /\ (\A i \in 1..Len(h) : g[i] = h[i])
      /\ (\A i \in 1..Len(l) : g[Len(h) + i] = l[i])
    BY <1>3, <2>1, JoinIs
  <2> HIDE DEF g
  <2> QED BY <1>1, <1>3, <2>2
<1> HIDE DEF g, n
<1>5. DOMAIN G = DOMAIN F \cup {name} /\ G[name] = value /\ \A x \in DOMAIN F : G[x] = F[x]
  BY DEF With
<1> HIDE DEF G
<1>6. FieldsOf(G)
  BY <1>5 DEF FieldsOf, HeadOf
<1>7. \A i \in 1..(m + n + 5) : i \in 1..m \/ \E k \in 1..(n + 5) : i = m + k
  <2> TAKE i \in 1..(m + n + 5)
  <2>1. i \in 1..m \/ (i - m \in 1..(n + 5) /\ i = m + (i - m))
    BY <1>3
  <2> QED BY <2>1
<1>8. \A i \in 1..m : /\ h[i] = LF => i > 1 /\ h[i - 1] = CR
                      /\ h[i] = CR => i > 1 /\ i < m /\ h[i - 1] \notin Breaks /\ h[i + 1] = LF
  BY <1>3 DEF Lined
<1> HIDE DEF m
<1>9. Lined(g)
  <2>1. ASSUME NEW i \in 1..(m + n + 5), g[i] = LF PROVE i > 1 /\ g[i - 1] = CR
    <3>1. CASE i \in 1..m
      <4>1. i > 1 /\ h[i - 1] = CR
        BY <1>4, <1>8, <2>1, <3>1
      <4>2. i - 1 \in 1..m
        BY <1>3, <3>1, <4>1
      <4> QED BY <1>4, <4>1, <4>2
    <3>2. CASE \E k \in 1..(n + 5) : i = m + k
      <4>1. PICK k \in 1..(n + 5) : i = m + k
        BY <3>2
      <4>2. k = n + 5
        BY <1>2, <1>4, <2>1, <4>1
      <4>3. n + 4 \in 1..(n + 5) /\ i - 1 = m + (n + 4) /\ i > 1
        BY <1>3, <4>1, <4>2
      <4> QED BY <1>1, <1>4, <4>3
    <3> QED BY <1>7, <3>1, <3>2
  <2>2. ASSUME NEW i \in 1..(m + n + 5), g[i] = CR
        PROVE  i > 1 /\ i < m + n + 5 /\ g[i - 1] \notin Breaks /\ g[i + 1] = LF
    <3>1. CASE i \in 1..m
      <4>1. i > 1 /\ i < m /\ h[i - 1] \notin Breaks /\ h[i + 1] = LF
        BY <1>4, <1>8, <2>2, <3>1
      <4>2. i - 1 \in 1..m /\ i + 1 \in 1..m /\ i < m + n + 5
        BY <1>3, <3>1, <4>1
      <4> QED BY <1>4, <4>1, <4>2
    <3>2. CASE \E k \in 1..(n + 5) : i = m + k
      <4>1. PICK k \in 1..(n + 5) : i = m + k
        BY <3>2
      <4>2. k = n + 4
        BY <1>2, <1>4, <2>2, <4>1
      <4>3. /\ n + 3 \in 1..(n + 5) /\ n + 5 \in 1..(n + 5) /\ n + 3 # n + 4 /\ n + 3 # n + 5
            /\ i - 1 = m + (n + 3) /\ i + 1 = m + (n + 5) /\ i > 1 /\ i < m + n + 5
        BY <1>3, <4>1, <4>2
      <4>4. g[i - 1] = l[n + 3] /\ g[i + 1] = l[n + 5]
        BY <1>4, <4>3
      <4>5. l[n + 3] \notin Breaks
        BY <1>2, <4>3 DEF Breaks
      <4> QED BY <1>1, <4>3, <4>4, <4>5
    <3> QED BY <1>7, <3>1, <3>2
  <2>3. h[1] \notin Breaks /\ g[1] = h[1]
    <3>1. 1 \in 1..m
      BY <1>3
    <3> QED BY <1>3, <1>4, <3>1 DEF Lined
  <2>4. g[m + n + 5] = LF
    <3>1. n + 5 \in 1..(n + 5) /\ m + (n + 5) = m + n + 5
      BY <1>3
    <3> QED BY <1>1, <1>4, <3>1
  <2> QED BY <1>3, <1>4, <2>1, <2>2, <2>3, <2>4 DEF Lined
<1>10. ASSUME NEW x \in DOMAIN F, NEW b \in 2..m, LineAt(h, b, x, F[x])
       PROVE  LineAt(g, b, x, G[x])
  <2>1. /\ b + Len(F[x]) + 4 <= m
        /\ h[b] = x /\ h[b + 1] = ":" /\ h[b + 2] = Space
        /\ \A k \in 1..Len(F[x]) : h[b + 2 + k] = F[x][k]
        /\ h[b + Len(F[x]) + 3] = CR /\ h[b + Len(F[x]) + 4] = LF
    BY <1>10 DEF LineAt, m
  <2>2. Len(F[x]) \in Nat
    BY TextLength DEF HeadOf, FieldsOf
  <2> DEFINE c == Len(F[x])
  <2> HIDE DEF c
  <2>3. /\ b \in 1..m /\ b + 1 \in 1..m /\ b + 2 \in 1..m
        /\ \A k \in 1..c : b + 2 + k \in 1..m
        /\ b + c + 3 \in 1..m /\ b + c + 4 \in 1..m
        /\ b + c + 4 <= m + n + 5
    BY <1>3, <2>1, <2>2 DEF c
  <2>4. /\ g[b] = x /\ g[b + 1] = ":" /\ g[b + 2] = Space
        /\ \A k \in 1..c : g[b + 2 + k] = F[x][k]
        /\ g[b + c + 3] = CR /\ g[b + c + 4] = LF
    BY <1>4, <2>1, <2>3 DEF c
  <2> QED BY <1>4, <1>5, <2>3, <2>4 DEF LineAt, c
<1>11. LineAt(g, m + 1, name, G[name])
  <2>1. /\ 1 \in 1..(n + 5) /\ 2 \in 1..(n + 5) /\ 3 \in 1..(n + 5)
        /\ \A k \in 1..n : 3 + k \in 1..(n + 5)
        /\ n + 4 \in 1..(n + 5) /\ n + 5 \in 1..(n + 5)
    BY <1>3
  <2>2. /\ m + 1 + 1 = m + 2 /\ m + 1 + 2 = m + 3 /\ (\A k \in 1..n : m + 1 + 2 + k = m + (3 + k))
        /\ m + 1 + n + 3 = m + (n + 4) /\ m + 1 + n + 4 = m + (n + 5)
        /\ m + 1 + n + 4 <= m + n + 5
    BY <1>3
  <2>3. /\ g[m + 1] = name /\ g[m + 2] = ":" /\ g[m + 3] = Space
        /\ \A k \in 1..n : g[m + (3 + k)] = value[k]
        /\ g[m + (n + 4)] = CR /\ g[m + (n + 5)] = LF
    BY <1>1, <1>4, <2>1
  <2>4. /\ m + 1 + n + 4 <= Len(g)
        /\ g[m + 1] = name /\ g[m + 1 + 1] = ":" /\ g[m + 1 + 2] = Space
        /\ \A k \in 1..n : g[m + 1 + 2 + k] = value[k]
        /\ g[m + 1 + n + 3] = CR /\ g[m + 1 + n + 4] = LF
    BY <1>4, <2>2, <2>3
  <2> QED BY <1>5, <2>4 DEF LineAt, n
<1>12. h[m] = LF /\ m \in 1..m /\ m + 1 \in 2..(m + n + 5) /\ (m + 1) - 1 = m
  BY <1>3 DEF Lined, m
<1>13. ASSUME NEW b \in 2..(m + n + 5), g[b - 1] = LF
       PROVE  \E x \in DOMAIN G : LineAt(g, b, x, G[x])
  <2>1. b - 1 \in 1..(m + n + 5)
    BY <1>3
  <2>2. CASE b \in 2..m
    <3>1. b - 1 \in 1..m
      BY <1>3, <2>2
    <3>2. \E x \in DOMAIN F : LineAt(h, b, x, F[x])
      BY <1>4, <1>13, <2>2, <3>1 DEF HeadOf, m
    <3> QED BY <1>5, <1>10, <2>2, <3>2
  <2>3. CASE b = m + 1
    BY <1>5, <1>11, <2>3
  <2>4. CASE b > m + 1
    <3>1. b - 1 - m \in 1..(n + 5) /\ b - 1 = m + (b - 1 - m) /\ b - 1 - m # n + 5
      BY <1>3, <2>4
    <3>2. g[b - 1] = l[b - 1 - m]
      BY <1>4, <3>1
    <3> QED BY <1>2, <1>13, <3>1, <3>2
  <2> QED BY <1>3, <2>2, <2>3, <2>4
<1>14. ASSUME NEW x \in DOMAIN G
       PROVE  \E b \in 2..(m + n + 5) : g[b - 1] = LF /\ LineAt(g, b, x, G[x])
  <2>1. CASE x \in DOMAIN F
    <3>1. PICK b \in 2..m : h[b - 1] = LF /\ LineAt(h, b, x, F[x])
      BY <2>1 DEF HeadOf, m
    <3>2. LineAt(g, b, x, G[x])
      BY <1>10, <2>1, <3>1
    <3>3. b - 1 \in 1..m /\ b \in 2..(m + n + 5)
      BY <1>3
    <3> QED BY <1>4, <3>1, <3>2, <3>3
  <2>2. CASE x = name
    <3>1. g[(m + 1) - 1] = LF
      BY <1>4, <1>12
    <3> QED BY <1>11, <1>12, <2>2, <3>1
  <2> QED BY <1>5, <2>1, <2>2
<1>15. HeadOf(g, G)
  BY <1>4, <1>6, <1>9, <1>13, <1>14 DEF HeadOf
<1> QED BY <1>15 DEF g, G, l

-----------------------------------------------------------------------------
(* What the parser finds in a message that was cut off somewhere. *)

(* The start of a text, *)
LEMMA StartIs ==
  ASSUME NEW s, IsText(s), NEW k \in 0..Len(s)
  PROVE  /\ IsText(SubSeq(s, 1, k)) /\ Len(SubSeq(s, 1, k)) = k
         /\ \A i \in 1..k : SubSeq(s, 1, k)[i] = s[i]
<1>1. Len(s) \in Nat
  BY TextLength
<1>2. 1 \in 1..(Len(s) + 1) /\ 1 <= k + 1
  BY <1>1
<1> DEFINE q == SubSeq(s, 1, k)
<1>3. /\ IsText(q) /\ Len(q) = k - 1 + 1 /\ \A i \in 1..(k - 1 + 1) : q[i] = s[1 + i - 1]
  BY <1>2, CutIsText
<1> HIDE DEF q
<1>4. IsText(q) /\ Len(q) = k /\ \A i \in 1..k : q[i] = s[i]
  BY <1>1, <1>3
<1> QED BY <1>4 DEF q

(* The first n lexemes of a message with head h and body e. *)
Cut(t, h, e, n) ==
  /\ IsText(t) /\ IsText(h) /\ IsText(e) /\ n \in Nat \ {0}
  /\ Len(t) = n /\ n <= Len(h) + 2 + Len(e)
  /\ \A i \in 1..n : i <= Len(h) => t[i] = h[i]
  /\ n >= Len(h) + 1 => t[Len(h) + 1] = CR
  /\ n >= Len(h) + 2 => t[Len(h) + 2] = LF
  /\ \A k \in 1..Len(e) : Len(h) + 2 + k <= n => t[Len(h) + 2 + k] = e[k]

(* Cutting a message gives that. *)
LEMMA CutOfMessage ==
  ASSUME NEW h, NEW e, IsText(h), IsText(e), NEW n \in 1..Len(h \o Crlf \o e)
  PROVE  /\ Len(h \o Crlf \o e) = Len(h) + 2 + Len(e)
         /\ Cut(SubSeq(h \o Crlf \o e, 1, n), h, e, n)
<1> DEFINE g == h \o Crlf
           s == g \o e
           t == SubSeq(s, 1, n)
<1>1. IsText(Crlf)
  BY WordsAreText DEF Crlf
<1>2. Len(Crlf) = 2 /\ Crlf[1] = CR /\ Crlf[2] = LF
  BY DEF Crlf
<1>3. Len(h) \in Nat /\ Len(e) \in Nat
  BY TextLength
<1>4. /\ IsText(g) /\ Len(g) = Len(h) + 2
      /\ \A i \in 1..Len(h) : g[i] = h[i]
      /\ g[Len(h) + 1] = CR /\ g[Len(h) + 2] = LF
  <2>1. /\ IsText(g) /\ Len(g) = Len(h) + Len(Crlf)
        /\ \A i \in 1..Len(h) : g[i] = h[i]
        /\ \A i \in 1..Len(Crlf) : g[Len(h) + i] = Crlf[i]
    BY <1>1, JoinIs
  <2> HIDE DEF g
  <2> QED BY <1>2, <2>1
<1> HIDE DEF g
<1>5. /\ IsText(s) /\ Len(s) = Len(h) + 2 + Len(e)
      /\ \A i \in 1..(Len(h) + 2) : s[i] = g[i]
      /\ \A k \in 1..Len(e) : s[Len(h) + 2 + k] = e[k]
  <2>1. IsText(g)
    BY <1>4
  <2>2. /\ IsText(s) /\ Len(s) = Len(g) + Len(e)
        /\ \A i \in 1..Len(g) : s[i] = g[i]
        /\ \A i \in 1..Len(e) : s[Len(g) + i] = e[i]
    BY <2>1, JoinIs
  <2> HIDE DEF s
  <2> QED BY <1>4, <2>2
<1>6. n \in 1..Len(s)
  BY DEF g
<1> HIDE DEF s
<1>7. IsText(t) /\ Len(t) = n /\ \A i \in 1..n : t[i] = s[i]
  <2>1. IsText(s) /\ n \in 0..Len(s)
    BY <1>3, <1>5, <1>6
  <2> QED BY <2>1, StartIs
<1> HIDE DEF t
<1>8. Cut(t, h, e, n)
  <2>1. ASSUME NEW i \in 1..n, i <= Len(h) PROVE t[i] = h[i]
    <3>1. i \in 1..Len(h) /\ i \in 1..(Len(h) + 2)
      BY <1>3, <2>1
    <3> QED BY <1>4, <1>5, <1>7, <3>1
  <2>2. ASSUME n >= Len(h) + 1 PROVE t[Len(h) + 1] = CR
    <3>1. Len(h) + 1 \in 1..n /\ Len(h) + 1 \in 1..(Len(h) + 2)
      BY <1>3, <2>2
    <3> QED BY <1>4, <1>5, <1>7, <3>1
  <2>3. ASSUME n >= Len(h) + 2 PROVE t[Len(h) + 2] = LF
    <3>1. Len(h) + 2 \in 1..n /\ Len(h) + 2 \in 1..(Len(h) + 2)
      BY <1>3, <2>3
    <3> QED BY <1>4, <1>5, <1>7, <3>1
  <2>4. ASSUME NEW k \in 1..Len(e), Len(h) + 2 + k <= n PROVE t[Len(h) + 2 + k] = e[k]
    <3>1. Len(h) + 2 + k \in 1..n
      BY <1>3, <2>4
    <3> QED BY <1>5, <1>7, <3>1
  <2>5. n \in Nat \ {0} /\ n <= Len(h) + 2 + Len(e)
    BY <1>3, <1>5, <1>6
  <2> QED BY <1>7, <2>1, <2>2, <2>3, <2>4, <2>5 DEF Cut
<1> QED BY <1>5, <1>8 DEF s, t, g

(* The blank line is found where the head ends, and nowhere before. *)
LEMMA BlankLineIs ==
  ASSUME NEW t, NEW h, NEW e, NEW n, Cut(t, h, e, n), Lined(h)
  PROVE  Find(t, Crlf \o Crlf, 1) = IF n >= Len(h) + 2 THEN Len(h) - 1 ELSE 0
<1> DEFINE m == Len(h)
<1>1. /\ m \in Nat /\ m >= 3 /\ n \in Nat \ {0} /\ IsText(t) /\ Len(t) = n
      /\ \A i \in 1..n : i <= m => t[i] = h[i]
      /\ n >= m + 1 => t[m + 1] = CR
      /\ n >= m + 2 => t[m + 2] = LF
      /\ h[m] = LF
  BY TextLength DEF Cut, Lined
<1>2. \A i \in 1..m : /\ h[i] = LF => i > 1 /\ h[i - 1] = CR
                      /\ h[i] = CR => i > 1 /\ h[i - 1] \notin Breaks
  BY DEF Lined
<1> HIDE DEF m
<1>3. ASSUME NEW i \in 1..n, Occurs(t, Crlf \o Crlf, i)
      PROVE  i >= m - 1 /\ n >= m + 2
  <2>1. i + 3 <= n /\ t[i] = CR /\ t[i + 1] = LF /\ t[i + 2] = CR /\ t[i + 3] = LF
    BY <1>1, <1>3, OccursBlank
  <2>2. CASE i + 2 <= m
    <3>1. i + 2 \in 1..m /\ i + 1 \in 1..m /\ i + 2 \in 1..n /\ i + 1 \in 1..n
          /\ (i + 2) - 1 = i + 1
      BY <1>1, <2>1, <2>2
    <3>2. h[i + 2] = CR /\ h[i + 1] = LF
      BY <1>1, <2>1, <3>1
    <3>3. h[i + 1] \notin Breaks
      BY <1>2, <3>1, <3>2
    <3> QED BY <3>2, <3>3 DEF Breaks
  <2> QED BY <1>1, <2>1, <2>2
<1>4. CASE n >= m + 2
  <2>1. h[m - 1] = CR /\ m - 1 \in 1..n
    BY <1>1, <1>2, <1>4
  <2>2. t[m - 1] = CR /\ t[m] = LF /\ t[m + 1] = CR /\ t[m + 2] = LF
    <3>1. m \in 1..n /\ m - 1 <= m
      BY <1>1, <1>4
    <3> QED BY <1>1, <1>4, <2>1, <3>1
  <2>3. Occurs(t, Crlf \o Crlf, m - 1)
    <3>1. (m - 1) + 3 <= n /\ (m - 1) + 1 = m /\ (m - 1) + 2 = m + 1 /\ (m - 1) + 3 = m + 2
      BY <1>1, <1>4
    <3>2. t[m - 1] = CR /\ t[(m - 1) + 1] = LF /\ t[(m - 1) + 2] = CR /\ t[(m - 1) + 3] = LF
      BY <2>2, <3>1
    <3> QED BY <1>1, <2>1, <3>1, <3>2, OccursBlank
  <2>4. \A i \in 1..((m - 1) - 1) : ~Occurs(t, Crlf \o Crlf, i)
    <3> TAKE i \in 1..((m - 1) - 1)
    <3>1. i \in 1..n /\ ~(i >= m - 1)
      BY <1>1, <1>4
    <3> QED BY <1>3, <3>1
  <2>5. Find(t, Crlf \o Crlf, 1) = m - 1
    <3>1. 1 \in Nat \ {0} /\ m - 1 \in 1..Len(t)
      BY <1>1, <2>1
    <3> QED BY <1>1, <2>3, <2>4, <3>1, FindIs
  <2> QED BY <1>4, <2>5 DEF m
<1>5. CASE ~(n >= m + 2)
  <2>1. \A i \in 1..Len(t) : ~Occurs(t, Crlf \o Crlf, i)
    BY <1>1, <1>3, <1>5
  <2>2. Find(t, Crlf \o Crlf, 1) = 0
    BY <2>1, FindNone
  <2> QED BY <1>5, <2>2 DEF m
<1> QED BY <1>4, <1>5

(* A header line's place in a cut head: the lexemes the cut leaves of it,   *)
(* of which the first is its name.                                         *)
LEMMA LineIsRead ==
  ASSUME NEW t, NEW h, NEW e, NEW n, Cut(t, h, e, n), NEW b \in 1..n, NEW x, NEW v,
         IsText(v), Free(v, Breaks), x \notin Breaks, LineAt(h, b, x, v)
  PROVE  LET l == Piece(t, b, LF)
         IN /\ IsText(l) /\ Len(l) >= 1
            /\ Len(l) = IF n >= b + Len(v) + 4 THEN Len(v) + 4 ELSE n - b + 1
            /\ Len(l) <= Len(v) + 4
            /\ l[1] = x
            /\ Len(l) >= 2 => l[2] = ":"
            /\ Len(l) >= 3 => l[3] = Space
            /\ \A k \in 1..Len(v) : 3 + k <= Len(l) => l[3 + k] = v[k]
            /\ Len(l) = Len(v) + 4 => l[Len(v) + 4] = CR
<1> DEFINE c == Len(v)
           r == From(t, b)
           l == Piece(t, b, LF)
<1>1. /\ n \in Nat \ {0} /\ IsText(t) /\ Len(t) = n
      /\ \A i \in 1..n : i <= Len(h) => t[i] = h[i]
  BY DEF Cut
<1>2. /\ b + c + 4 <= Len(h) /\ h[b] = x /\ h[b + 1] = ":" /\ h[b + 2] = Space
      /\ \A k \in 1..c : h[b + 2 + k] = v[k]
      /\ h[b + c + 3] = CR /\ h[b + c + 4] = LF
  BY DEF LineAt
<1>3. c \in Nat /\ Len(h) \in Nat
  BY TextLength DEF Cut
<1> HIDE DEF c
<1>4. IsText(r) /\ Len(r) = n - b + 1 /\ \A k \in 1..(n - b + 1) : r[k] = t[b + k - 1]
  <2>1. b \in Nat \ {0} /\ n - b + 1 \in Nat /\ n = b + (n - b + 1) - 1 /\ n <= Len(t)
    BY <1>1
  <2>2. r = SubSeq(t, b, n)
    BY <1>1 DEF From
  <2> HIDE DEF r
  <2>3. IsText(t)
    BY <1>1
  <2> QED BY <2>1, <2>2, <2>3, CutIs
<1> HIDE DEF r
<1>5. ASSUME NEW k \in 1..(n - b + 1), b + k - 1 <= Len(h) PROVE r[k] = h[b + k - 1]
  <2>1. b + k - 1 \in 1..n
    BY <1>1
  <2> QED BY <1>1, <1>4, <1>5, <2>1
<1>6. ASSUME NEW k \in 1..(n - b + 1), k <= c + 4
      PROVE  /\ k = 1 => r[k] = x
             /\ k = 2 => r[k] = ":"
             /\ k = 3 => r[k] = Space
             /\ k > 3 /\ k <= c + 3 => k - 3 \in 1..c /\ r[k] = v[k - 3]
             /\ k = c + 4 => r[k] = CR
  <2>1. b + k - 1 <= Len(h)
    BY <1>1, <1>2, <1>3, <1>6
  <2>2. r[k] = h[b + k - 1]
    BY <1>5, <2>1
  <2>3. k = 1 => b + k - 1 = b
    OBVIOUS
  <2>4. k = 2 => b + k - 1 = b + 1
    OBVIOUS
  <2>5. k = 3 => b + k - 1 = b + 2
    OBVIOUS
  <2>6. k > 3 /\ k <= c + 3 => k - 3 \in 1..c /\ b + k - 1 = b + 2 + (k - 3)
    BY <1>3
  <2>7. k = c + 4 => b + k - 1 = b + c + 3
    BY <1>3
  <2> QED BY <1>2, <2>2, <2>3, <2>4, <2>5, <2>6, <2>7
<1>7. ASSUME NEW k \in 1..(n - b + 1), k <= c + 4 PROVE r[k] # LF
  <2>1. k = 1 \/ k = 2 \/ k = 3 \/ (k > 3 /\ k <= c + 3) \/ k = c + 4
    BY <1>3, <1>7
  <2>2. ASSUME k > 3 /\ k <= c + 3 PROVE r[k] # LF
    <3>1. k - 3 \in 1..c /\ r[k] = v[k - 3]
      BY <1>6, <1>7, <2>2
    <3> QED BY <3>1 DEF Free, Breaks, c
  <2>3. x # LF
    BY DEF Breaks
  <2> QED BY <1>6, <1>7, <2>1, <2>2, <2>3, MarksDiffer DEF Breaks
<1>8. /\ IsText(l) /\ \A k \in 1..Len(l) : l[k] = r[k]
      /\ Len(l) = IF n >= b + c + 4 THEN c + 4 ELSE n - b + 1
  <2>1. CASE n >= b + c + 4
    <3>1. c + 5 \in 1..Len(r) /\ c + 5 \in 1..(n - b + 1) /\ b + (c + 5) - 1 = b + c + 4
      BY <1>1, <1>3, <1>4, <2>1
    <3>2. r[c + 5] = LF
      BY <1>2, <1>5, <3>1
    <3>3. \A k \in 1..((c + 5) - 1) : r[k] # LF
      <4> TAKE k \in 1..((c + 5) - 1)
      <4>1. k \in 1..(n - b + 1) /\ k <= c + 4
        BY <1>1, <1>3, <2>1
      <4> QED BY <1>7, <4>1
    <3>4. l = SubSeq(r, 1, (c + 5) - 1)
      BY <1>4, <3>1, <3>2, <3>3, SplitAt DEF Piece, r
    <3>5. 1 \in Nat \ {0} /\ c + 4 \in Nat /\ (c + 5) - 1 = 1 + (c + 4) - 1 /\ (c + 5) - 1 <= Len(r)
      BY <1>1, <1>3, <3>1
    <3> HIDE DEF l
    <3>6. IsText(l) /\ Len(l) = c + 4 /\ \A k \in 1..(c + 4) : l[k] = r[1 + k - 1]
      BY <1>4, <3>4, <3>5, CutIs
    <3> QED BY <2>1, <3>6
  <2>2. CASE ~(n >= b + c + 4)
    <3>1. \A k \in 1..Len(r) : r[k] # LF
      <4> TAKE k \in 1..Len(r)
      <4>1. k \in 1..(n - b + 1) /\ k <= c + 4
        BY <1>1, <1>3, <1>4, <2>2
      <4> QED BY <1>7, <4>1
    <3>2. l = r
      BY <1>4, <3>1, SplitNone DEF Piece, r
    <3> HIDE DEF l
    <3> QED BY <1>4, <2>2, <3>2
  <2> QED BY <2>1, <2>2
<1> HIDE DEF l
<1>9. /\ Len(l) >= 1 /\ Len(l) <= c + 4 /\ Len(l) <= n - b + 1 /\ Len(l) \in Nat
  BY <1>1, <1>3, <1>8
<1>10. l[1] = x /\ (Len(l) >= 2 => l[2] = ":") /\ (Len(l) >= 3 => l[3] = Space)
  <2>1. 1 \in 1..Len(l) /\ 1 \in 1..(n - b + 1) /\ 1 <= c + 4
    BY <1>1, <1>3, <1>9
  <2>2. Len(l) >= 2 => 2 \in 1..Len(l) /\ 2 \in 1..(n - b + 1) /\ 2 <= c + 4
    BY <1>1, <1>3, <1>9
  <2>3. Len(l) >= 3 => 3 \in 1..Len(l) /\ 3 \in 1..(n - b + 1) /\ 3 <= c + 4
    BY <1>1, <1>3, <1>9
  <2> QED BY <1>6, <1>8, <2>1, <2>2, <2>3
<1>11. ASSUME NEW k \in 1..c, 3 + k <= Len(l) PROVE l[3 + k] = v[k]
  <2>1. /\ 3 + k \in 1..Len(l) /\ 3 + k \in 1..(n - b + 1) /\ 3 + k <= c + 4
        /\ 3 + k > 3 /\ 3 + k <= c + 3 /\ (3 + k) - 3 = k
    BY <1>1, <1>3, <1>9, <1>11
  <2>2. r[3 + k] = v[(3 + k) - 3]
    BY ONLY <2>1, <1>6
  <2> QED BY <1>8, <2>1, <2>2
<1>12. ASSUME Len(l) = c + 4 PROVE l[c + 4] = CR
  <2>1. c + 4 \in 1..Len(l) /\ c + 4 \in 1..(n - b + 1) /\ c + 4 <= c + 4
    BY <1>1, <1>3, <1>9, <1>12
  <2> QED BY <1>6, <1>8, <2>1
<1> QED BY <1>8, <1>9, <1>10, <1>11, <1>12 DEF l, c

(* What the parser keeps of a header's value: the blank before it and the  *)
(* carriage return after it are its own.                                   *)
Sent(v) == <<Space>> \o v \o <<CR>>

(* What a value arrives as begins with its blank and ends with the return. *)
LEMMA SentIs ==
  ASSUME NEW v, IsText(v)
  PROVE  /\ IsText(Sent(v)) /\ Len(Sent(v)) = Len(v) + 2 /\ Sent(v)[1] = Space
         /\ \A k \in 1..Len(v) : Sent(v)[1 + k] = v[k]
         /\ Sent(v)[Len(v) + 2] = CR
<1> DEFINE a == <<Space>>
           z == <<CR>>
           u == a \o v
           s == u \o z
<1>1. IsText(a) /\ IsText(z)
  BY WordsAreText
<1>2. Len(a) = 1 /\ a[1] = Space /\ Len(z) = 1 /\ z[1] = CR
  OBVIOUS
<1>3. Len(v) \in Nat
  BY TextLength
<1> HIDE DEF a, z
<1>4. /\ IsText(u) /\ Len(u) = 1 + Len(v) /\ u[1] = Space
      /\ \A k \in 1..Len(v) : u[1 + k] = v[k]
  <2>1. /\ IsText(u) /\ Len(u) = Len(a) + Len(v)
        /\ \A i \in 1..Len(a) : u[i] = a[i]
        /\ \A i \in 1..Len(v) : u[Len(a) + i] = v[i]
    BY <1>1, JoinIs
  <2> HIDE DEF u
  <2> QED BY <1>2, <2>1
<1> HIDE DEF u
<1>5. /\ IsText(s) /\ Len(s) = Len(u) + Len(z)
      /\ \A i \in 1..Len(u) : s[i] = u[i]
      /\ \A i \in 1..Len(z) : s[Len(u) + i] = z[i]
  <2>1. IsText(u)
    BY <1>4
  <2> QED BY <1>1, <2>1, JoinIs
<1>6. s = Sent(v)
  BY DEF Sent, u, a, z
<1> HIDE DEF s
<1>7. /\ Len(s) = Len(v) + 2 /\ s[1] = Space
      /\ \A k \in 1..Len(v) : s[1 + k] = v[k]
  <2>1. 1 \in 1..Len(u) /\ \A k \in 1..Len(v) : 1 + k \in 1..Len(u)
    BY <1>3, <1>4
  <2> QED BY <1>2, <1>3, <1>4, <1>5, <2>1
<1>8. s[Len(v) + 2] = CR
  <2>1. Len(u) + 1 = Len(v) + 2 /\ 1 \in 1..Len(z)
    BY <1>2, <1>3, <1>4
  <2> QED BY <1>2, <1>5, <2>1
<1> QED BY <1>5, <1>6, <1>7, <1>8

(* Up to the colon of such a line there is its name, wherever it is cut,   *)
(* and after it, if it is whole, its value.                                *)
LineOf(l, x, v) ==
  /\ IsText(v) /\ IsText(l) /\ Len(l) >= 1 /\ Len(l) <= Len(v) + 4
  /\ l[1] = x /\ x # ":"
  /\ Len(l) >= 2 => l[2] = ":"
  /\ Len(l) >= 3 => l[3] = Space
  /\ \A k \in 1..Len(v) : 3 + k <= Len(l) => l[3 + k] = v[k]
  /\ Len(l) = Len(v) + 4 => l[Len(v) + 4] = CR

(* The name and the value getline() and find() make of a header line. *)
LEMMA LineIsSplit ==
  ASSUME NEW l, NEW x, NEW v, LineOf(l, x, v)
  PROVE  /\ Before(l, ":") = <<x>>
         /\ Len(l) = Len(v) + 4 => After(l, ":") = Sent(v)
<1> USE DEF LineOf
<1>1. Len(l) \in Nat /\ Len(v) \in Nat
  BY TextLength
<1>2. CASE Len(l) >= 2
  <2>1. 2 \in 1..Len(l) /\ \A i \in 1..(2 - 1) : l[i] # ":"
    BY <1>1, <1>2
  <2>2. Before(l, ":") = SubSeq(l, 1, 2 - 1) /\ After(l, ":") = SubSeq(l, 2 + 1, Len(l))
    BY <1>2, <2>1, SplitAt
  <2>3. Before(l, ":") = <<x>>
    BY <2>2, OneWord
  <2>4. ASSUME Len(l) = Len(v) + 4 PROVE After(l, ":") = Sent(v)
    <3> DEFINE r == SubSeq(l, 3, Len(l))
               s == Sent(v)
    <3>1. After(l, ":") = r
      BY <2>2
    <3>2. IsText(r) /\ Len(r) = Len(v) + 2 /\ \A k \in 1..(Len(v) + 2) : r[k] = l[3 + k - 1]
      <4>1. 3 \in Nat \ {0} /\ Len(v) + 2 \in Nat /\ Len(l) = 3 + (Len(v) + 2) - 1 /\ Len(l) <= Len(l)
        BY <1>1, <2>4
      <4> QED BY <4>1, CutIs
    <3>3. /\ IsText(s) /\ Len(s) = Len(v) + 2 /\ s[1] = Space
          /\ \A k \in 1..Len(v) : s[1 + k] = v[k]
          /\ s[Len(v) + 2] = CR
      BY SentIs
    <3> HIDE DEF r, s
    <3>4. ASSUME NEW k \in 1..(Len(v) + 2) PROVE r[k] = s[k]
      <4>1. r[k] = l[k + 2]
        BY <3>2
      <4>2. CASE k = 1
        BY <1>1, <2>4, <3>3, <4>1, <4>2
      <4>3. CASE k > 1 /\ k < Len(v) + 2
        <5>1. k - 1 \in 1..Len(v) /\ 1 + (k - 1) = k /\ 3 + (k - 1) = k + 2 /\ k + 2 <= Len(l)
          BY <1>1, <2>4, <4>3
        <5>2. s[k] = v[k - 1] /\ l[k + 2] = v[k - 1]
          BY <3>3, <5>1
        <5> QED BY <4>1, <5>2
      <4>4. CASE k = Len(v) + 2
        <5>1. k + 2 = Len(v) + 4
          BY <1>1, <4>4
        <5> QED BY <2>4, <3>3, <4>1, <4>4, <5>1
      <4> QED BY <1>1, <4>2, <4>3, <4>4
    <3>5. r = s
      BY <3>2, <3>3, <3>4, SameText
    <3> QED BY <3>1, <3>5 DEF s
  <2> QED BY <2>3, <2>4
<1>3. CASE Len(l) = 1
  <2>1. \A i \in 1..Len(l) : l[i] # ":"
    BY <1>3
  <2>2. Before(l, ":") = l
    BY <2>1, SplitNone
  <2>3. l = SubSeq(l, 1, 1)
    BY <1>3, CutWhole
  <2>4. SubSeq(l, 1, 1) = <<l[1]>>
    BY <1>3, OneWord
  <2>5. Before(l, ":") = <<x>>
    BY ONLY <2>2, <2>3, <2>4, l[1] = x
  <2>6. Len(l) # Len(v) + 4
    BY <1>1, <1>3
  <2> QED BY <2>5, <2>6
<1>4. Len(l) >= 2 \/ Len(l) = 1
  <2>1. \A k \in Nat : k >= 1 => k >= 2 \/ k = 1
    OBVIOUS
  <2> QED BY <1>1, <2>1
<1> QED BY <1>2, <1>3, <1>4

(* A place in a cut head where a line starts is one of a header's. *)
LEMMA FieldIsRead ==
  ASSUME NEW t, NEW h, NEW e, NEW n, Cut(t, h, e, n), NEW F, HeadOf(h, F),
         NEW b \in 2..n, b <= Len(h), t[b - 1] = LF
  PROVE  \E x \in DOMAIN F : /\ LineAt(h, b, x, F[x])
                             /\ Before(Piece(t, b, LF), ":") = <<x>>
                             /\ n >= Len(h) => After(Piece(t, b, LF), ":") = Sent(F[x])
                             /\ Piece(t, b, LF) # <<CR>>
<1>1. n \in Nat \ {0} /\ Len(h) \in Nat
  BY TextLength DEF Cut
<1>2. h[b - 1] = LF /\ b \in 2..Len(h) /\ b \in 1..n
  <2>1. b - 1 \in 1..n /\ b - 1 <= Len(h)
    BY <1>1
  <2> QED BY <1>1, <2>1 DEF Cut
<1>3. PICK x \in DOMAIN F : LineAt(h, b, x, F[x])
  BY <1>2 DEF HeadOf
<1> DEFINE v == F[x]
           l == Piece(t, b, LF)
<1>4. IsText(v) /\ Free(v, Breaks) /\ x \notin Breaks /\ x # ":"
  BY DEF HeadOf, FieldsOf
<1>5. LineAt(h, b, x, v)
  BY <1>3
<1> HIDE DEF v
<1>6. /\ IsText(l) /\ Len(l) >= 1
      /\ Len(l) = IF n >= b + Len(v) + 4 THEN Len(v) + 4 ELSE n - b + 1
      /\ Len(l) <= Len(v) + 4
      /\ l[1] = x
      /\ Len(l) >= 2 => l[2] = ":"
      /\ Len(l) >= 3 => l[3] = Space
      /\ \A k \in 1..Len(v) : 3 + k <= Len(l) => l[3 + k] = v[k]
      /\ Len(l) = Len(v) + 4 => l[Len(v) + 4] = CR
  BY <1>2, <1>4, <1>5, LineIsRead
<1> HIDE DEF l
<1>7. Before(l, ":") = <<x>> /\ (Len(l) = Len(v) + 4 => After(l, ":") = Sent(v))
  <2>1. LineOf(l, x, v)
    BY <1>4, <1>6 DEF LineOf
  <2> QED BY <2>1, LineIsSplit
<1>8. n >= Len(h) => Len(l) = Len(v) + 4
  <2>1. b + Len(v) + 4 <= Len(h) /\ Len(v) \in Nat
    BY <1>4, <1>5, TextLength DEF LineAt
  <2> QED BY <1>1, <1>6, <2>1
<1>9. l # <<CR>>
  <2>1. l[1] # CR
    BY <1>4, <1>6 DEF Breaks
  <2> QED BY <2>1
<1> QED BY <1>3, <1>7, <1>8, <1>9 DEF l, v

(* The line after the header lines is empty. *)
LEMMA EmptyLineIsRead ==
  ASSUME NEW t, NEW h, NEW e, NEW n, Cut(t, h, e, n), n >= Len(h) + 1
  PROVE  Piece(t, Len(h) + 1, LF) = <<CR>>
<1> DEFINE m == Len(h)
           r == From(t, m + 1)
<1>1. /\ n \in Nat \ {0} /\ m \in Nat /\ IsText(t) /\ Len(t) = n /\ n >= m + 1
      /\ t[m + 1] = CR /\ (n >= m + 2 => t[m + 2] = LF)
  BY TextLength DEF Cut
<1> HIDE DEF m
<1>2. IsText(r) /\ Len(r) = n - m /\ \A k \in 1..(n - m) : r[k] = t[(m + 1) + k - 1]
  <2>1. m + 1 \in 1..(Len(t) + 1) /\ Len(t) - (m + 1) + 1 = n - m
    BY <1>1
  <2>2. /\ IsText(r) /\ Len(r) = Len(t) - (m + 1) + 1
        /\ \A k \in 1..(Len(t) - (m + 1) + 1) : r[k] = t[(m + 1) + k - 1]
    BY <1>1, <2>1, FromIs
  <2> HIDE DEF r
  <2> QED BY <2>1, <2>2
<1> HIDE DEF r
<1>3. r[1] = CR /\ 1 \in 1..(n - m)
  <2>1. 1 \in 1..(n - m) /\ (m + 1) + 1 - 1 = m + 1
    BY <1>1
  <2> QED BY <1>1, <1>2, <2>1
<1>4. SubSeq(r, 1, 1) = <<CR>>
  BY <1>1, <1>2, <1>3, OneWord
<1>5. CASE n >= m + 2
  <2>1. r[2] = LF /\ 2 \in 1..Len(r)
    <3>1. 2 \in 1..(n - m) /\ (m + 1) + 2 - 1 = m + 2
      BY <1>1, <1>5
    <3> QED BY <1>1, <1>2, <1>5, <3>1
  <2>2. \A i \in 1..(2 - 1) : r[i] # LF
    BY <1>3, MarksDiffer
  <2>3. Before(r, LF) = SubSeq(r, 1, 2 - 1)
    BY <1>2, <2>1, <2>2, SplitAt
  <2>4. 2 - 1 = 1
    OBVIOUS
  <2>5. Before(r, LF) = <<CR>>
    BY <1>4, <2>3, <2>4
  <2> QED BY <2>5 DEF Piece, r, m
<1>6. CASE n = m + 1
  <2>1. Len(r) = 1
    BY <1>1, <1>2, <1>6
  <2>2. \A i \in 1..Len(r) : r[i] # LF
    BY <1>3, <2>1, MarksDiffer
  <2>3. Before(r, LF) = r
    BY <1>2, <2>2, SplitNone
  <2>4. r = SubSeq(r, 1, 1)
    BY <1>2, <2>1, CutWhole
  <2> QED BY <1>4, <2>3, <2>4 DEF Piece, r, m
<1> QED BY <1>1, <1>5, <1>6

(* A finite set of numbers has a greatest. *)
LEMMA GreatestNumber ==
  ASSUME NEW n \in Nat, NEW S \in SUBSET (0..n), S # {}
  PROVE  Max(S) \in S /\ \A x \in S : x <= Max(S)
<1> DEFINE R == {n - x : x \in S}
<1>0. \A x \in S : x \in 0..n /\ n - x \in Nat
  BY SMT
<1>1. R \in SUBSET Nat /\ R # {}
  BY <1>0
<1>2. PICK r \in R : \A y \in R : r <= y
  <2> HIDE DEF R
  <2> QED BY <1>1, SmallestNumber
<1>3. PICK m \in S : r = n - m
  BY <1>2
<1>4. \A x \in S : x <= m
  <2> TAKE x \in S
  <2>1. n - x \in R /\ x \in Nat /\ m \in Nat
    BY <1>0
  <2>2. r <= n - x
    BY <1>2, <2>1
  <2> QED BY <1>3, <2>1, <2>2
<1>5. \E m2 \in S : \A x \in S : m2 >= x
  BY <1>3, <1>4
<1> QED BY <1>5 DEF Max

(* The header lines the parser reads in a cut message: those that start    *)
(* before the cut, in the head.                                            *)
FieldStarts(t, h) == {b \in 2..Len(t) : b <= Len(h) /\ t[b - 1] = LF}
FieldKey(t, h) == [b \in FieldStarts(t, h) |-> Before(Piece(t, b, LF), ":")]
FieldValue(t, h) == [b \in FieldStarts(t, h) |-> After(Piece(t, b, LF), ":")]

(* Headers() assigns the values of the lines to their names. *)
LEMMA HeadersAre ==
  ASSUME NEW t, NEW h, NEW e, NEW n, Cut(t, h, e, n), NEW F, HeadOf(h, F)
  PROVE  Headers(t) = Assigned(FieldKey(t, h), FieldValue(t, h))
<1> DEFINE starts == Starts(t, LF) \ {1}
           blanks == {i \in starts : Piece(t, i, LF) = <<CR>>}
           fields == {i \in starts : \A b \in blanks : i < b}
<1>1. /\ n \in Nat \ {0} /\ Len(h) \in Nat /\ Len(t) = n /\ DOMAIN t = 1..n
      /\ Len(h) >= 3 /\ h[Len(h)] = LF
      /\ \A i \in 1..n : i <= Len(h) => t[i] = h[i]
  BY TextLength DEF Cut, HeadOf, Lined
<1>2. starts = {i \in 2..n : t[i - 1] = LF}
  BY <1>1 DEF Starts
<1> HIDE DEF starts
<1>3. \A b \in blanks : b >= Len(h) + 1
  <2> SUFFICES ASSUME NEW b \in blanks, b <= Len(h) PROVE FALSE
    BY <1>1, <1>2
  <2>1. b \in 2..n /\ t[b - 1] = LF /\ Piece(t, b, LF) = <<CR>>
    BY <1>2
  <2> QED BY <2>1, FieldIsRead
<1>4. n >= Len(h) + 1 => Len(h) + 1 \in blanks
  <2> SUFFICES ASSUME n >= Len(h) + 1 PROVE Len(h) + 1 \in blanks
    OBVIOUS
  <2>1. Len(h) \in 1..n /\ Len(h) + 1 \in 2..n /\ (Len(h) + 1) - 1 = Len(h)
    BY <1>1
  <2>2. Len(h) + 1 \in starts
    BY <1>1, <1>2, <2>1
  <2> QED BY <2>2, EmptyLineIsRead
<1> HIDE DEF blanks
<1>5. ASSUME NEW i \in starts PROVE i \in fields <=> i <= Len(h)
  <2>1. i \in 2..n
    BY <1>2
  <2>2. CASE i <= Len(h)
    <3>1. \A b \in blanks : b \in Nat
      BY <1>2 DEF blanks
    <3> QED BY <1>1, <1>3, <2>1, <2>2, <3>1
  <2>3. CASE i > Len(h)
    <3>1. Len(h) + 1 \in blanks /\ ~(i < Len(h) + 1) /\ ~(i <= Len(h))
      BY <1>1, <1>4, <2>1, <2>3
    <3> QED BY <3>1
  <2> QED BY <1>1, <2>1, <2>2, <2>3
<1>6. fields = FieldStarts(t, h)
  BY <1>1, <1>2, <1>5 DEF FieldStarts
<1>7. Headers(t) = Assigned([i \in fields |-> Before(Piece(t, i, LF), ":")],
                            [i \in fields |-> After(Piece(t, i, LF), ":")])
  BY DEF Headers, starts, blanks
<1> HIDE DEF fields
<1> QED BY <1>6, <1>7 DEF FieldKey, FieldValue

(* Every key is a name of the head's map, *)
LEMMA HeadersOfCut ==
  ASSUME NEW t, NEW h, NEW e, NEW n, Cut(t, h, e, n), NEW F, HeadOf(h, F)
  PROVE  DOMAIN Headers(t) \subseteq {<<x>> : x \in DOMAIN F}
<1>0. Headers(t) = Assigned(FieldKey(t, h), FieldValue(t, h))
  BY HeadersAre
<1>1. DOMAIN Headers(t) = {FieldKey(t, h)[b] : b \in FieldStarts(t, h)}
  BY <1>0 DEF Assigned, Range, FieldKey
<1>2. ASSUME NEW b \in FieldStarts(t, h) PROVE FieldKey(t, h)[b] \in {<<x>> : x \in DOMAIN F}
  <2>1. b \in 2..n /\ b <= Len(h) /\ t[b - 1] = LF
    BY DEF FieldStarts, Cut
  <2>2. \E x \in DOMAIN F : Before(Piece(t, b, LF), ":") = <<x>>
    BY <2>1, FieldIsRead
  <2> QED BY <2>2 DEF FieldKey
<1> QED BY <1>1, <1>2

(* and once the whole head has arrived, they are those names and have      *)
(* their values.                                                           *)
Reads(H, F) ==
  DOMAIN H = {<<x>> : x \in DOMAIN F} /\ \A x \in DOMAIN F : H[<<x>>] = Sent(F[x])

(* A head that arrived whole is read as the map it was written from. *)
LEMMA HeadersOfHead ==
  ASSUME NEW t, NEW h, NEW e, NEW n, Cut(t, h, e, n), NEW F, HeadOf(h, F), n >= Len(h)
  PROVE  Reads(Headers(t), F)
<1> DEFINE S == FieldStarts(t, h)
           K == FieldKey(t, h)
           V == FieldValue(t, h)
<1>0. Headers(t) = Assigned(K, V)
  BY HeadersAre
<1>1. n \in Nat \ {0} /\ Len(h) \in Nat /\ Len(t) = n
  BY TextLength DEF Cut
<1>2. ASSUME NEW b \in S, NEW x, K[b] = <<x>> PROVE V[b] = Sent(F[x])
  <2>1. b \in 2..n /\ b <= Len(h) /\ t[b - 1] = LF
    BY <1>1 DEF FieldStarts
  <2>2. PICK y \in DOMAIN F : /\ Before(Piece(t, b, LF), ":") = <<y>>
                              /\ After(Piece(t, b, LF), ":") = Sent(F[y])
    BY <2>1, FieldIsRead
  <2>3. x = y
    BY <1>2, <2>2 DEF FieldKey
  <2> QED BY <2>2, <2>3 DEF FieldValue
<1>3. ASSUME NEW x \in DOMAIN F PROVE \E b \in S : K[b] = <<x>>
  <2>1. PICK b \in 2..Len(h) : h[b - 1] = LF /\ LineAt(h, b, x, F[x])
    BY DEF HeadOf
  <2>2. b \in 2..n /\ b <= Len(h) /\ b - 1 \in 1..n /\ b - 1 <= Len(h)
    BY <1>1
  <2>3. t[b - 1] = LF
    BY <2>1, <2>2 DEF Cut
  <2>4. b \in S
    BY <1>1, <2>2, <2>3 DEF FieldStarts
  <2>5. PICK y \in DOMAIN F : LineAt(h, b, y, F[y]) /\ Before(Piece(t, b, LF), ":") = <<y>>
    BY <2>2, <2>3, FieldIsRead
  <2>6. x = y
    BY <2>1, <2>5 DEF LineAt
  <2> QED BY <2>4, <2>5, <2>6 DEF FieldKey
<1>4. DOMAIN Headers(t) = {K[b] : b \in S}
  BY <1>0 DEF Assigned, Range, FieldKey
<1>5. {<<x>> : x \in DOMAIN F} \subseteq DOMAIN Headers(t)
  BY <1>3, <1>4
<1>6. ASSUME NEW x \in DOMAIN F PROVE Headers(t)[<<x>>] = Sent(F[x])
  <2> DEFINE P == {b \in S : K[b] = <<x>>}
  <2>1. P # {}
    BY <1>3
  <2>2. P \in SUBSET (0..n)
    BY <1>1 DEF FieldStarts
  <2>3. Max(P) \in P
    <3> HIDE DEF P
    <3> QED BY <1>1, <2>1, <2>2, GreatestNumber
  <2>4. V[Max(P)] = Sent(F[x])
    BY <1>2, <2>3
  <2>5. DOMAIN K = S /\ Range(K) = {K[b] : b \in S}
    BY DEF FieldKey, Range
  <2>6. <<x>> \in Range(K)
    BY <1>3, <2>5
  <2>7. Headers(t) = [k \in Range(K) |-> V[Max({b \in S : K[b] = k})]]
    BY <1>0, <2>5 DEF Assigned
  <2> HIDE DEF K, V, S
  <2>8. Headers(t)[<<x>>] = V[Max({b \in S : K[b] = <<x>>})]
    BY <2>6, <2>7
  <2> QED BY <2>4, <2>8
<1>7. DOMAIN Headers(t) \subseteq {<<x>> : x \in DOMAIN F}
  BY HeadersOfCut
<1> QED BY <1>5, <1>6, <1>7 DEF Reads

-----------------------------------------------------------------------------
(* The head of a request. *)

(* Nothing unwanted is in two texts joined, *)
LEMMA JoinIsFree ==
  ASSUME NEW s, NEW t, NEW set, IsText(s), IsText(t), Free(s, set), Free(t, set)
  PROVE  Free(s \o t, set)
<1> DEFINE u == s \o t
<1>1. /\ Len(u) = Len(s) + Len(t)
      /\ \A i \in 1..Len(s) : u[i] = s[i]
      /\ \A i \in 1..Len(t) : u[Len(s) + i] = t[i]
  BY JoinIs
<1>2. Len(s) \in Nat /\ Len(t) \in Nat
  BY TextLength
<1> HIDE DEF u
<1>3. ASSUME NEW i \in 1..Len(u) PROVE u[i] \notin set
  <2>1. CASE i <= Len(s)
    BY <1>1, <1>2, <2>1 DEF Free
  <2>2. CASE i > Len(s)
    <3>1. i - Len(s) \in 1..Len(t) /\ Len(s) + (i - Len(s)) = i
      BY <1>1, <1>2, <2>2
    <3>2. u[i] = t[i - Len(s)]
      BY <1>1, <3>1
    <3> QED BY <3>1, <3>2 DEF Free
  <2> QED BY <1>1, <1>2, <2>1, <2>2
<1>4. Free(u, set)
  BY <1>3 DEF Free
<1> QED BY <1>4 DEF u

(* nor in what FlattenSeq() makes of several. *)
LEMMA FlattenIs ==
  ASSUME NEW seqs, IsText(seqs)
  PROVE  \E f : /\ Flattens(f, seqs, Len(seqs))
                /\ FlattenSeq(seqs) = IF Len(seqs) = 0 THEN <<>> ELSE f[Len(seqs)]
<1> DEFINE f == CHOOSE g : Flattens(g, seqs, Len(seqs))
<1>1. ASSUME Len(seqs) # 0
      PROVE FlattenSeq(seqs) = f[Len(seqs)]
  BY <1>1 DEF FlattenSeq, Flattens
<1>2. Flattens(f, seqs, Len(seqs))
  BY TextLength, FlattenExists
<1>3. Len(seqs) = 0 => FlattenSeq(seqs) = <<>>
  BY DEF FlattenSeq
<1> HIDE DEF f
<1> QED BY <1>1, <1>2, <1>3

(* What is in none of several texts is not in all of them together. *)
LEMMA FlattenIsFree ==
  ASSUME NEW seqs, NEW set, IsText(seqs),
         \A i \in DOMAIN seqs : IsText(seqs[i]) /\ Free(seqs[i], set)
  PROVE  Free(FlattenSeq(seqs), set)
<1>0. Len(seqs) \in Nat /\ DOMAIN seqs = 1..Len(seqs)
  BY TextLength
<1>1. PICK f : /\ Flattens(f, seqs, Len(seqs))
               /\ FlattenSeq(seqs) = IF Len(seqs) = 0 THEN <<>> ELSE f[Len(seqs)]
  BY FlattenIs
<1> DEFINE S == {k \in 1..Len(seqs) : ~(IsText(f[k]) /\ Free(f[k], set))}
<1>2. S = {}
  <2> SUFFICES ASSUME S # {} PROVE FALSE
    OBVIOUS
  <2>1. S \in SUBSET Nat
    BY <1>0
  <2>2. PICK m \in S : \A k \in S : m <= k
    <3> HIDE DEF S
    <3> QED BY <2>1, SmallestNumber
  <2>3. f[m] = IF m = 1 THEN seqs[m] ELSE f[m-1] \o seqs[m]
    BY <1>1, <2>2 DEF Flattens
  <2>4. m = 1 \/ (IsText(f[m-1]) /\ Free(f[m-1], set))
    BY <1>0, <2>2
  <2>5. IsText(seqs[m]) /\ Free(seqs[m], set)
    BY <1>0
  <2> QED BY <2>2, <2>3, <2>4, <2>5, ConcatIsText, JoinIsFree
<1>3. CASE Len(seqs) = 0
  BY <1>1, <1>3 DEF Free
<1>4. CASE Len(seqs) # 0
  BY <1>0, <1>1, <1>2, <1>4
<1> QED BY <1>3, <1>4

(* A few words. *)
LEMMA WordsAreFree ==
  ASSUME NEW set
  PROVE  /\ Free(<<>>, set)
         /\ \A u : u \notin set => Free(<<u>>, set)
         /\ \A u, v : u \notin set /\ v \notin set => Free(<<u, v>>, set)
         /\ \A u, v, w : u \notin set /\ v \notin set /\ w \notin set => Free(<<u, v, w>>, set)
BY DEF Free

(* Breaks are white, and the words the client writes into a head are none. *)
LEMMA BreaksAreWhite == Breaks \subseteq White
BY Zenon DEF Breaks, White, CR, LF

(* The client's own words in a head are words. *)
LEMMA WordsOfHead ==
  /\ ";" \notin Breaks /\ "=" \notin Breaks /\ "" \notin Breaks /\ "HTTP/1.1" \notin Breaks
  /\ "keep-alive" \notin Breaks /\ "XX" \notin Breaks /\ "boundary=" \notin Breaks
  /\ "multipart/form-data" \notin Breaks
  /\ \A x \in {"Cookie", "Content-Type", "Content-Encoding", "Content-Length", "Connection",
               "connection"} : x \notin Breaks \cup {":"}
BY Zenon DEF Breaks, CR, LF

(* The value of the Cookie header. *)
LEMMA CookieValueIsFree ==
  ASSUME NEW a \in Requests
  PROVE  Free(CookieValue(a.cookies), Breaks)
<1> DEFINE c == a.cookies
           parts == [i \in DOMAIN c |->
                       (IF i = 1 THEN <<>> ELSE <<";", Space>>) \o <<c[i][1], "=", c[i][2]>>]
<1>1. IsText(c) /\ \A i \in DOMAIN c, k \in 1..2 : c[i][k] \notin White
  BY RequestsAssumption
<1> HIDE DEF c
<1>2. Len(c) \in Nat /\ DOMAIN c = 1..Len(c)
  BY <1>1, TextLength
<1>3. IsText(parts)
  BY <1>2, MapIsText
<1>4. ASSUME NEW i \in DOMAIN parts PROVE IsText(parts[i]) /\ Free(parts[i], Breaks)
  <2> DEFINE p == IF i = 1 THEN <<>> ELSE <<";", Space>>
             q == <<c[i][1], "=", c[i][2]>>
  <2>1. IsText(p) /\ Free(p, Breaks)
    BY WordsAreText, WordsAreFree, WordsOfHead, MarksDiffer
  <2>2. c[i][1] \notin Breaks /\ c[i][2] \notin Breaks
    BY <1>1, BreaksAreWhite
  <2>3. IsText(q) /\ Free(q, Breaks)
    BY <2>2, WordsAreText, WordsAreFree, WordsOfHead
  <2>4. parts[i] = p \o q
    OBVIOUS
  <2> HIDE DEF p, q, parts
  <2> QED BY <2>1, <2>3, <2>4, ConcatIsText, JoinIsFree
<1>5. CookieValue(c) = FlattenSeq(parts)
  BY Zenon DEF CookieValue, Space
<1> HIDE DEF parts
<1>6. Free(CookieValue(c), Breaks)
  BY <1>3, <1>4, <1>5, FlattenIsFree
<1> QED BY <1>6 DEF c

(* A header line that is written or not. *)
LEMMA HeadMayGrow ==
  ASSUME NEW h, NEW F, HeadOf(h, F), NEW none, NEW name, NEW value,
         ~none => /\ IsText(value) /\ Free(value, Breaks)
                  /\ name \notin Breaks \cup {":"} /\ name \notin DOMAIN F
  PROVE  HeadOf(h \o (IF none THEN <<>> ELSE Header(name, value)),
                IF none THEN F ELSE With(F, name, value))
<1>1. CASE none
  BY <1>1, JoinEmpty DEF HeadOf, Lined
<1>2. CASE ~none
  BY <1>2, HeadGrows
<1> QED BY <1>1, <1>2

(* The header lines of a request, and its head. *)
Multipart == <<"multipart/form-data", "; ", "boundary=", "XX">>
Length(a) == IF a.length = "right" THEN ToString(Len(Encoded(a))) ELSE a.length
Fields1(a) == IF a.alive = "" THEN NoMap ELSE With(NoMap, a.alive, <<"keep-alive">>)
Fields2(a) == IF a.cookies = <<>> THEN Fields1(a)
              ELSE With(Fields1(a), "Cookie", CookieValue(a.cookies))
Fields3(a) == IF a.form = <<>> THEN Fields2(a) ELSE With(Fields2(a), "Content-Type", Multipart)
Fields4(a) == IF a.encoding = "" THEN Fields3(a)
              ELSE With(Fields3(a), "Content-Encoding", <<a.encoding>>)
Fields(a) == IF a.length = "" THEN Fields4(a)
             ELSE With(Fields4(a), "Content-Length", <<Length(a)>>)

FirstLineOf(a) == <<a.method, Space, a.path>> \o a.query \o <<Space, "HTTP/1.1">>
HeadText(a) ==
  FirstLineOf(a) \o Crlf
  \o (IF a.alive = "" THEN <<>> ELSE Header(a.alive, <<"keep-alive">>))
  \o (IF a.cookies = <<>> THEN <<>> ELSE Header("Cookie", CookieValue(a.cookies)))
  \o (IF a.form = <<>> THEN <<>> ELSE Header("Content-Type", Multipart))
  \o (IF a.encoding = "" THEN <<>> ELSE Header("Content-Encoding", <<a.encoding>>))
  \o (IF a.length = "" THEN <<>> ELSE Header("Content-Length", <<Length(a)>>))

(* A request is its head, an empty line and its encoded payload. *)
LEMMA RequestTextIs ==
  ASSUME NEW a
  PROVE  RequestText(a) = HeadText(a) \o Crlf \o Encoded(a)
BY Zenon DEF RequestText, HeadText, FirstLineOf, Multipart, Length, Space

(* What is in the map and what is not. *)
LEMMA FieldsDomains ==
  ASSUME NEW a \in Requests
  PROVE  /\ DOMAIN Fields1(a) = {a.alive} \ {""}
         /\ DOMAIN Fields1(a) \subseteq {"Connection", "connection"}
         /\ DOMAIN Fields2(a) = DOMAIN Fields1(a) \cup (IF a.cookies = <<>> THEN {} ELSE {"Cookie"})
         /\ DOMAIN Fields3(a) = DOMAIN Fields2(a) \cup (IF a.form = <<>> THEN {} ELSE {"Content-Type"})
         /\ DOMAIN Fields4(a) = DOMAIN Fields3(a)
                                \cup (IF a.encoding = "" THEN {} ELSE {"Content-Encoding"})
         /\ DOMAIN Fields(a) = DOMAIN Fields4(a)
                               \cup (IF a.length = "" THEN {} ELSE {"Content-Length"})
<1>1. DOMAIN NoMap = {}
  BY DEF NoMap
<1>2. \A F, name, value : DOMAIN With(F, name, value) = DOMAIN F \cup {name}
  BY DEF With
<1>3. a.alive \in {"", "Connection", "connection"}
  BY RequestsAssumption
<1>4. DOMAIN Fields1(a) = {a.alive} \ {""}
  <2>1. CASE a.alive = ""
    BY <1>1, <2>1 DEF Fields1
  <2>2. CASE a.alive # ""
    <3>1. DOMAIN With(NoMap, a.alive, <<"keep-alive">>) = DOMAIN NoMap \cup {a.alive}
      BY <1>2
    <3> QED BY <1>1, <2>2, <3>1 DEF Fields1
  <2> QED BY <2>1, <2>2
<1>5. DOMAIN Fields1(a) \subseteq {"Connection", "connection"}
  BY <1>3, <1>4
<1>6. DOMAIN Fields2(a) = DOMAIN Fields1(a) \cup (IF a.cookies = <<>> THEN {} ELSE {"Cookie"})
  BY <1>2 DEF Fields2
<1>7. DOMAIN Fields3(a) = DOMAIN Fields2(a) \cup (IF a.form = <<>> THEN {} ELSE {"Content-Type"})
  BY <1>2 DEF Fields3
<1>8. DOMAIN Fields4(a) = DOMAIN Fields3(a)
                          \cup (IF a.encoding = "" THEN {} ELSE {"Content-Encoding"})
  BY <1>2 DEF Fields4
<1>9. DOMAIN Fields(a) = DOMAIN Fields4(a) \cup (IF a.length = "" THEN {} ELSE {"Content-Length"})
  BY <1>2 DEF Fields
<1> QED BY <1>4, <1>5, <1>6, <1>7, <1>8, <1>9

(* The map has no names but those the client may write. *)
LEMMA FieldNames ==
  ASSUME NEW a \in Requests
  PROVE  DOMAIN Fields(a) \subseteq DOMAIN Fields1(a)
                                    \cup {"Cookie", "Content-Type", "Content-Encoding",
                                          "Content-Length"}
<1>1. DOMAIN Fields2(a) \subseteq DOMAIN Fields1(a) \cup {"Cookie"}
  BY FieldsDomains
<1>2. DOMAIN Fields3(a) \subseteq DOMAIN Fields2(a) \cup {"Content-Type"}
  BY FieldsDomains
<1>3. DOMAIN Fields4(a) \subseteq DOMAIN Fields3(a) \cup {"Content-Encoding"}
  BY FieldsDomains
<1>4. DOMAIN Fields(a) \subseteq DOMAIN Fields4(a) \cup {"Content-Length"}
  BY FieldsDomains
<1> QED BY ONLY <1>1, <1>2, <1>3, <1>4, Zenon

(* Which of the header lines there are, each added once. *)
LEMMA FieldSets ==
  ASSUME NEW a \in Requests
  PROVE  /\ "Cookie" \in DOMAIN Fields(a) <=> a.cookies # <<>>
         /\ "Content-Type" \in DOMAIN Fields(a) <=> a.form # <<>>
         /\ "Content-Encoding" \in DOMAIN Fields(a) <=> a.encoding # ""
         /\ "Content-Length" \in DOMAIN Fields(a) <=> a.length # ""
         /\ "Cookie" \notin DOMAIN Fields1(a) /\ "Content-Type" \notin DOMAIN Fields2(a)
         /\ "Content-Encoding" \notin DOMAIN Fields3(a)
         /\ "Content-Length" \notin DOMAIN Fields4(a)
         /\ DOMAIN Fields1(a) \subseteq DOMAIN Fields2(a)
         /\ DOMAIN Fields2(a) \subseteq DOMAIN Fields3(a)
         /\ DOMAIN Fields3(a) \subseteq DOMAIN Fields4(a)
         /\ DOMAIN Fields4(a) \subseteq DOMAIN Fields(a)
         /\ a.cookies # <<>> => "Cookie" \in DOMAIN Fields2(a)
         /\ a.form # <<>> => "Content-Type" \in DOMAIN Fields3(a)
         /\ a.encoding # "" => "Content-Encoding" \in DOMAIN Fields4(a)
<1> DEFINE D1 == DOMAIN Fields1(a)
           D2 == DOMAIN Fields2(a)
           D3 == DOMAIN Fields3(a)
           D4 == DOMAIN Fields4(a)
           D == DOMAIN Fields(a)
           cookies == a.cookies # <<>>
           form == a.form # <<>>
           encoding == a.encoding # ""
           length == a.length # ""
<1>1. D1 \subseteq {"Connection", "connection"}
  BY FieldsDomains
<1>2. D2 = D1 \cup (IF cookies THEN {"Cookie"} ELSE {})
  BY FieldsDomains
<1>3. D3 = D2 \cup (IF form THEN {"Content-Type"} ELSE {})
  BY FieldsDomains
<1>4. D4 = D3 \cup (IF encoding THEN {"Content-Encoding"} ELSE {})
  BY FieldsDomains
<1>5. D = D4 \cup (IF length THEN {"Content-Length"} ELSE {})
  BY FieldsDomains
<1> HIDE DEF D1, D2, D3, D4, D, cookies, form, encoding, length
<1>6. /\ "Cookie" \in D2 <=> cookies
      /\ "Cookie" \notin D1 /\ "Content-Type" \notin D2
      /\ "Content-Encoding" \notin D2 /\ "Content-Length" \notin D2
      /\ D1 \subseteq D2
  BY ONLY <1>1, <1>2, SMT
<1>7. /\ "Cookie" \in D3 <=> cookies
      /\ "Content-Type" \in D3 <=> form
      /\ "Content-Encoding" \notin D3 /\ "Content-Length" \notin D3
      /\ D2 \subseteq D3
  BY ONLY <1>3, <1>6, SMT
<1>8. /\ "Cookie" \in D4 <=> cookies
      /\ "Content-Type" \in D4 <=> form
      /\ "Content-Encoding" \in D4 <=> encoding
      /\ "Content-Length" \notin D4
      /\ D3 \subseteq D4
  BY ONLY <1>4, <1>7, SMT
<1>9. /\ "Cookie" \in D <=> cookies
      /\ "Content-Type" \in D <=> form
      /\ "Content-Encoding" \in D <=> encoding
      /\ "Content-Length" \in D <=> length
      /\ D4 \subseteq D
  BY ONLY <1>5, <1>8, SMT
<1>10. /\ "Cookie" \in D <=> cookies
       /\ "Content-Type" \in D <=> form
       /\ "Content-Encoding" \in D <=> encoding
       /\ "Content-Length" \in D <=> length
       /\ "Cookie" \notin D1 /\ "Content-Type" \notin D2
       /\ "Content-Encoding" \notin D3 /\ "Content-Length" \notin D4
       /\ D1 \subseteq D2 /\ D2 \subseteq D3 /\ D3 \subseteq D4 /\ D4 \subseteq D
       /\ cookies => "Cookie" \in D2
       /\ form => "Content-Type" \in D3
       /\ encoding => "Content-Encoding" \in D4
  BY <1>6, <1>7, <1>8, <1>9
<1> QED BY <1>10 DEF D, D1, D2, D3, D4, cookies, form, encoding, length

(* The head of a request is a head with exactly these lines. *)
LEMMA HeadOfRequest ==
  ASSUME NEW a \in Requests
  PROVE  HeadOf(HeadText(a), Fields(a))
<1> DEFINE h0 == FirstLineOf(a) \o Crlf
           h1 == h0 \o (IF a.alive = "" THEN <<>> ELSE Header(a.alive, <<"keep-alive">>))
           h2 == h1 \o (IF a.cookies = <<>> THEN <<>>
                        ELSE Header("Cookie", CookieValue(a.cookies)))
           h3 == h2 \o (IF a.form = <<>> THEN <<>> ELSE Header("Content-Type", Multipart))
           h4 == h3 \o (IF a.encoding = "" THEN <<>>
                        ELSE Header("Content-Encoding", <<a.encoding>>))
           h5 == h4 \o (IF a.length = "" THEN <<>> ELSE Header("Content-Length", <<Length(a)>>))
<1>1. HeadText(a) = h5
  BY DEF HeadText
<1>2. HeadOf(h0, NoMap)
  <2> DEFINE p == <<a.method, Space, a.path>>
             q == a.query
             r == <<Space, "HTTP/1.1">>
  <2>1. a.method \notin Breaks /\ a.path \notin Breaks
    BY RequestsAssumption, BreaksAreWhite
  <2>2. IsText(p) /\ Free(p, Breaks) /\ Len(p) = 3
    BY <2>1, WordsAreText, WordsAreFree, MarksDiffer
  <2>3. IsText(q) /\ Free(q, Breaks)
    <3>1. IsText(q) /\ \A i \in DOMAIN q : q[i] \notin {CR, LF}
      BY RequestsAssumption
    <3> QED BY <3>1, TextLength DEF Free, Breaks
  <2>4. IsText(r) /\ Free(r, Breaks)
    BY WordsAreText, WordsAreFree, WordsOfHead, MarksDiffer
  <2> HIDE DEF p, q, r
  <2>5. IsText(p \o q) /\ Free(p \o q, Breaks) /\ Len(p \o q) >= 3
    <3>1. Len(p \o q) = Len(p) + Len(q) /\ Len(q) \in Nat
      BY <2>2, <2>3, JoinIs, TextLength
    <3> QED BY <2>2, <2>3, <3>1, ConcatIsText, JoinIsFree
  <2>6. /\ IsText((p \o q) \o r) /\ Free((p \o q) \o r, Breaks) /\ Len((p \o q) \o r) >= 1
    <3> DEFINE s == p \o q
    <3>0. IsText(s) /\ Free(s, Breaks) /\ Len(s) >= 3
      BY <2>5
    <3> HIDE DEF s
    <3>1. Len(s \o r) = Len(s) + Len(r) /\ Len(r) \in Nat /\ Len(s) \in Nat
      BY <2>4, <3>0, JoinIs, TextLength
    <3> QED BY <2>4, <3>0, <3>1, ConcatIsText, JoinIsFree DEF s
  <2>7. FirstLineOf(a) = (p \o q) \o r
    BY DEF FirstLineOf, p, q, r
  <2> QED BY <2>6, <2>7, HeadStarts
<1>3. HeadOf(h1, Fields1(a))
  <2>1. a.alive # "" => a.alive \in {"Connection", "connection"}
    BY RequestsAssumption
  <2>2. a.alive # "" => a.alive \notin Breaks \cup {":"} /\ a.alive \notin DOMAIN NoMap
    BY <2>1, WordsOfHead DEF NoMap
  <2>3. IsText(<<"keep-alive">>) /\ Free(<<"keep-alive">>, Breaks)
    BY WordsAreText, WordsAreFree, WordsOfHead
  <2> HIDE DEF h0
  <2> QED BY <1>2, <2>2, <2>3, HeadMayGrow DEF Fields1
<1> HIDE DEF h1
<1>4. HeadOf(h2, Fields2(a))
  <2>1. "Cookie" \notin Breaks \cup {":"} /\ "Cookie" \notin DOMAIN Fields1(a)
    BY WordsOfHead, FieldSets, Zenon
  <2>2. IsText(CookieValue(a.cookies)) /\ Free(CookieValue(a.cookies), Breaks)
    BY RequestsAssumption, CookieValueIsText, CookieValueIsFree
  <2> QED BY <1>3, <2>1, <2>2, HeadMayGrow DEF Fields2
<1> HIDE DEF h2
<1>5. HeadOf(h3, Fields3(a))
  <2>1. "Content-Type" \notin Breaks \cup {":"} /\ "Content-Type" \notin DOMAIN Fields2(a)
    BY WordsOfHead, FieldSets, Zenon
  <2>2. IsText(Multipart) /\ Free(Multipart, Breaks)
    <3> DEFINE blank == "; "
    <3>1. blank \notin Breaks
      BY Zenon DEF Breaks, CR, LF
    <3> HIDE DEF blank
    <3> DEFINE m == <<"multipart/form-data", blank, "boundary=", "XX">>
    <3>2. m \in Seq({"multipart/form-data", blank, "boundary=", "XX"})
      OBVIOUS
    <3>3. Free(m, Breaks)
      <4>1. Len(m) = 4 /\ \A i \in 1..4 : i = 1 \/ i = 2 \/ i = 3 \/ i = 4
        OBVIOUS
      <4>2. m[1] \notin Breaks /\ m[2] \notin Breaks /\ m[3] \notin Breaks /\ m[4] \notin Breaks
        BY <3>1, WordsOfHead
      <4> HIDE DEF m
      <4> QED BY <4>1, <4>2 DEF Free
    <3>4. Multipart = m
      BY Zenon DEF Multipart, blank
    <3> QED BY <3>2, <3>3, <3>4, SeqIsText
  <2> QED BY <1>4, <2>1, <2>2, HeadMayGrow DEF Fields3
<1> HIDE DEF h3
<1>6. HeadOf(h4, Fields4(a))
  <2>1. "Content-Encoding" \notin Breaks \cup {":"} /\ "Content-Encoding" \notin DOMAIN Fields3(a)
    BY WordsOfHead, FieldSets, Zenon
  <2>2. a.encoding \notin Breaks
    BY RequestsAssumption, BreaksAreWhite
  <2>3. IsText(<<a.encoding>>) /\ Free(<<a.encoding>>, Breaks)
    BY <2>2, WordsAreText, WordsAreFree
  <2> QED BY <1>5, <2>1, <2>3, HeadMayGrow DEF Fields4
<1> HIDE DEF h4
<1>7. HeadOf(h5, Fields(a))
  <2>1. "Content-Length" \notin Breaks \cup {":"} /\ "Content-Length" \notin DOMAIN Fields4(a)
    BY WordsOfHead, FieldSets, Zenon
  <2>2. Length(a) \notin Breaks
    <3>1. Breaks \subseteq White
      BY BreaksAreWhite
    <3>2. CASE a.length = "right"
      <4>1. Length(a) = ToString(Len(Encoded(a)))
        BY <3>2 DEF Length
      <4>2. ToString(Len(Encoded(a))) \notin White
        BY PayloadIsText, TextLength, NumbersAssumption
      <4> QED BY <3>1, <4>1, <4>2
    <3>3. CASE a.length # "right"
      <4>1. Length(a) = a.length
        BY <3>3 DEF Length
      <4>2. a.length \notin White
        BY RequestsAssumption
      <4> QED BY <3>1, <4>1, <4>2
    <3> QED BY <3>2, <3>3
  <2>3. IsText(<<Length(a)>>) /\ Free(<<Length(a)>>, Breaks)
    BY <2>2, WordsAreText, WordsAreFree
  <2> QED BY <1>6, <2>1, <2>3, HeadMayGrow DEF Fields
<1> QED BY <1>1, <1>7

(* Where a request was cut off. *)
LEMMA CutOfRequest ==
  ASSUME NEW a \in Requests, NEW n \in 1..Len(RequestText(a)), NEW t,
         t = SubSeq(RequestText(a), 1, n)
  PROVE  /\ HeadOf(HeadText(a), Fields(a)) /\ Cut(t, HeadText(a), Encoded(a), n)
         /\ Len(RequestText(a)) = Len(HeadText(a)) + 2 + Len(Encoded(a))
<1> DEFINE h == HeadText(a)
           e == Encoded(a)
<1>1. HeadOf(h, Fields(a)) /\ IsText(h) /\ IsText(e)
  BY HeadOfRequest, PayloadIsText DEF HeadOf, Lined
<1>2. RequestText(a) = h \o Crlf \o e
  BY RequestTextIs
<1> HIDE DEF h, e
<1>3. /\ Len(h \o Crlf \o e) = Len(h) + 2 + Len(e)
      /\ Cut(SubSeq(h \o Crlf \o e, 1, n), h, e, n)
  BY <1>1, <1>2, CutOfMessage
<1> QED BY <1>1, <1>2, <1>3 DEF h, e

(* The values of a request's header lines. *)
LEMMA FieldsValues ==
  ASSUME NEW a \in Requests
  PROVE  /\ a.alive # "" => Fields(a)[a.alive] = <<"keep-alive">>
         /\ a.cookies # <<>> => Fields(a)["Cookie"] = CookieValue(a.cookies)
         /\ a.form # <<>> => Fields(a)["Content-Type"] = Multipart
         /\ a.encoding # "" => Fields(a)["Content-Encoding"] = <<a.encoding>>
         /\ a.length # "" => Fields(a)["Content-Length"] = <<Length(a)>>
<1> DEFINE alive == <<"keep-alive">>
           encoding == <<a.encoding>>
           length == <<Length(a)>>
<1>0. /\ Fields1(a) = IF a.alive = "" THEN NoMap ELSE With(NoMap, a.alive, alive)
      /\ Fields4(a) = IF a.encoding = "" THEN Fields3(a)
                      ELSE With(Fields3(a), "Content-Encoding", encoding)
      /\ Fields(a) = IF a.length = "" THEN Fields4(a)
                     ELSE With(Fields4(a), "Content-Length", length)
  BY DEF Fields1, Fields4, Fields
<1> HIDE DEF alive, encoding, length
<1>1. \A F, name, value, x : /\ With(F, name, value)[name] = value
                             /\ x \in DOMAIN F /\ x # name => With(F, name, value)[x] = F[x]
  BY DEF With
<1>2. \A x \in DOMAIN Fields4(a) : Fields(a)[x] = Fields4(a)[x]
  <2>1. "Content-Length" \notin DOMAIN Fields4(a)
    BY FieldSets
  <2>2. Fields(a) = Fields4(a) \/ Fields(a) = With(Fields4(a), "Content-Length", length)
    BY <1>0
  <2> QED BY <1>1, <2>1, <2>2
<1>3. \A x \in DOMAIN Fields3(a) : Fields4(a)[x] = Fields3(a)[x]
  <2>1. "Content-Encoding" \notin DOMAIN Fields3(a)
    BY FieldSets
  <2>2. Fields4(a) = Fields3(a) \/ Fields4(a) = With(Fields3(a), "Content-Encoding", encoding)
    BY <1>0
  <2> QED BY <1>1, <2>1, <2>2
<1>4. \A x \in DOMAIN Fields2(a) : Fields3(a)[x] = Fields2(a)[x]
  <2>1. "Content-Type" \notin DOMAIN Fields2(a)
    BY FieldSets
  <2> QED BY <1>1, <2>1 DEF Fields3
<1>5. \A x \in DOMAIN Fields1(a) : Fields2(a)[x] = Fields1(a)[x]
  <2>1. "Cookie" \notin DOMAIN Fields1(a)
    BY FieldSets
  <2> QED BY <1>1, <2>1 DEF Fields2
<1>6. /\ DOMAIN Fields1(a) \subseteq DOMAIN Fields2(a) /\ DOMAIN Fields2(a) \subseteq DOMAIN Fields3(a)
      /\ DOMAIN Fields3(a) \subseteq DOMAIN Fields4(a)
  BY FieldSets
<1>7. ASSUME a.alive # "" PROVE Fields(a)[a.alive] = <<"keep-alive">>
  <2>1. a.alive \in DOMAIN Fields1(a)
    BY <1>7, FieldsDomains
  <2>2. Fields1(a)[a.alive] = <<"keep-alive">>
    <3>1. Fields1(a) = With(NoMap, a.alive, alive)
      BY <1>0, <1>7
    <3> QED BY <1>1, <3>1 DEF alive
  <2> QED BY <1>2, <1>3, <1>4, <1>5, <1>6, <2>1, <2>2
<1>8. ASSUME a.cookies # <<>> PROVE Fields(a)["Cookie"] = CookieValue(a.cookies)
  <2>1. "Cookie" \in DOMAIN Fields2(a)
    BY <1>8, FieldSets
  <2>2. Fields2(a)["Cookie"] = CookieValue(a.cookies)
    BY <1>1, <1>8 DEF Fields2
  <2> QED BY <1>2, <1>3, <1>4, <1>6, <2>1, <2>2
<1>9. ASSUME a.form # <<>> PROVE Fields(a)["Content-Type"] = Multipart
  <2>1. "Content-Type" \in DOMAIN Fields3(a)
    BY <1>9, FieldSets
  <2>2. Fields3(a)["Content-Type"] = Multipart
    BY <1>1, <1>9 DEF Fields3
  <2> QED BY <1>2, <1>3, <1>6, <2>1, <2>2
<1>10. ASSUME a.encoding # "" PROVE Fields(a)["Content-Encoding"] = <<a.encoding>>
  <2>1. "Content-Encoding" \in DOMAIN Fields4(a)
    BY <1>10, FieldSets
  <2>2. Fields4(a)["Content-Encoding"] = <<a.encoding>>
    <3>1. Fields4(a) = With(Fields3(a), "Content-Encoding", encoding)
      BY <1>0, <1>10
    <3> QED BY <1>1, <3>1 DEF encoding
  <2> QED BY <1>2, <2>1, <2>2
<1>11. ASSUME a.length # "" PROVE Fields(a)["Content-Length"] = <<Length(a)>>
  <2>1. Fields(a) = With(Fields4(a), "Content-Length", length)
    BY <1>0, <1>11
  <2> QED BY <1>1, <2>1 DEF length
<1> QED BY <1>7, <1>8, <1>9, <1>10, <1>11

(* The parser decompresses exactly what is said to be compressed. *)
LEMMA CompressedIs ==
  ASSUME NEW a \in Requests, NEW n \in 1..Len(RequestText(a)), NEW t,
         t = SubSeq(RequestText(a), 1, n), n >= Len(HeadText(a))
  PROVE  Compressed(Headers(t)) <=> a.encoding \in {"gzip", "deflate"}
<1> DEFINE H == Headers(t)
           F == Fields(a)
           v == <<a.encoding>>
<1>1. /\ DOMAIN H = {<<x>> : x \in DOMAIN F}
      /\ \A x \in DOMAIN F : H[<<x>>] = Sent(F[x])
  <2> DEFINE h == HeadText(a)
             e == Encoded(a)
  <2>1. HeadOf(h, F) /\ Cut(t, h, e, n)
    BY CutOfRequest
  <2>2. n >= Len(h)
    OBVIOUS
  <2> HIDE DEF h, e, F
  <2>3. Reads(H, F)
    BY <2>1, <2>2, HeadersOfHead
  <2> QED BY <2>3 DEF Reads
<1>2. ContentEncoding \in DOMAIN H <=> a.encoding # ""
  <2>2. "Content-Encoding" \in DOMAIN F <=> a.encoding # ""
    BY FieldSets
  <2> HIDE DEF H, F
  <2>3. <<"Content-Encoding">> \in DOMAIN H <=> "Content-Encoding" \in DOMAIN F
    BY <1>1
  <2> QED BY <2>2, <2>3 DEF ContentEncoding
<1>3. ASSUME a.encoding # "" PROVE H[ContentEncoding] = Sent(v)
  <2>1. "Content-Encoding" \in DOMAIN F /\ F["Content-Encoding"] = v
    BY <1>3, FieldSets, FieldsValues
  <2> HIDE DEF H, F, v
  <2> QED BY <1>1, <2>1 DEF ContentEncoding
<1>4. \A e \in {"gzip", "deflate"} : Contains(Sent(v), e) <=> a.encoding = e
  <2>1. IsText(v) /\ Len(v) = 1 /\ v[1] = a.encoding
    BY WordsAreText
  <2> DEFINE s == Sent(v)
  <2>2. Len(s) = 3 /\ s[1] = Space /\ s[2] = a.encoding /\ s[3] = CR
    <3> HIDE DEF v
    <3>1. Len(s) = Len(v) + 2 /\ s[1] = Space /\ (\A k \in 1..Len(v) : s[1 + k] = v[k])
          /\ s[Len(v) + 2] = CR
      BY <2>1, SentIs
    <3> HIDE DEF s
    <3> QED BY <2>1, <3>1
  <2> HIDE DEF s
  <2>3. \A e \in {"gzip", "deflate"} : e # Space /\ e # CR
    BY Zenon DEF Space, CR
  <2>4. \A e : Contains(s, e) <=> s[1] = e \/ s[2] = e \/ s[3] = e
    <3>1. 1..3 = {1, 2, 3}
      OBVIOUS
    <3> QED BY <2>2, <3>1 DEF Contains
  <2> QED BY <2>2, <2>3, <2>4 DEF s
<1> HIDE DEF H, F, v
<1>5. "" \notin {"gzip", "deflate"}
  OBVIOUS
<1>6. Compressed(H) <=> a.encoding \in {"gzip", "deflate"}
  BY <1>2, <1>3, <1>4, <1>5 DEF Compressed
<1> QED BY <1>6 DEF H

(* The start of a body that has arrived. *)
LEMMA ArrivedBody ==
  ASSUME NEW t, NEW h, NEW e, NEW n, Cut(t, h, e, n), Lined(h), n >= Len(h) + 2
  PROVE  /\ n - Len(h) - 2 \in 0..Len(e)
         /\ From(t, Find(t, Crlf \o Crlf, 1) + 4) = SubSeq(e, 1, n - Len(h) - 2)
<1> DEFINE m == Len(h)
           k == n - m - 2
           r == From(t, m + 3)
           q == SubSeq(e, 1, k)
<1>1. /\ n \in Nat \ {0} /\ m \in Nat /\ m >= 3 /\ IsText(t) /\ Len(t) = n /\ IsText(e)
      /\ Len(e) \in Nat /\ n <= m + 2 + Len(e) /\ n >= m + 2
      /\ \A i \in 1..Len(e) : m + 2 + i <= n => t[m + 2 + i] = e[i]
  BY TextLength DEF Cut, Lined
<1>2. Find(t, Crlf \o Crlf, 1) + 4 = m + 3
  <2>1. Find(t, Crlf \o Crlf, 1) = m - 1
    BY BlankLineIs
  <2> HIDE DEF m
  <2> QED BY <1>1, <2>1
<1> HIDE DEF m
<1>3. k \in 0..Len(e)
  BY <1>1
<1>4. IsText(r) /\ Len(r) = k /\ \A i \in 1..k : r[i] = t[m + 2 + i]
  <2>1. m + 3 \in 1..(Len(t) + 1) /\ Len(t) - (m + 3) + 1 = k
    BY <1>1
  <2>2. /\ IsText(r) /\ Len(r) = Len(t) - (m + 3) + 1
        /\ \A i \in 1..(Len(t) - (m + 3) + 1) : r[i] = t[(m + 3) + i - 1]
    BY <1>1, <2>1, FromIs
  <2> HIDE DEF r
  <2>3. \A i \in 1..k : (m + 3) + i - 1 = m + 2 + i
    BY <1>1
  <2> QED BY <2>1, <2>2, <2>3
<1>5. IsText(q) /\ Len(q) = k /\ \A i \in 1..k : q[i] = e[i]
  <2>1. 1 \in 1..(Len(e) + 1) /\ k \in 0..Len(e) /\ 1 <= k + 1
    BY <1>1, <1>3
  <2> HIDE DEF k
  <2>2. /\ IsText(q) /\ Len(q) = k - 1 + 1 /\ \A i \in 1..(k - 1 + 1) : q[i] = e[1 + i - 1]
    BY <1>1, <2>1, CutIsText
  <2> HIDE DEF q
  <2> QED BY <2>1, <2>2
<1>6. \A i \in 1..k : r[i] = q[i]
  <2> TAKE i \in 1..k
  <2>1. i \in 1..Len(e) /\ m + 2 + i <= n
    BY <1>1, <1>3
  <2> HIDE DEF r, q
  <2> QED BY <1>1, <1>4, <1>5, <2>1
<1>7. r = q
  <2> HIDE DEF r, q, k
  <2> QED BY <1>4, <1>5, <1>6, SameText
<1> QED BY <1>2, <1>3, <1>7 DEF m

(* The starts of two texts that agree so far are the same, *)
LEMMA SameStart ==
  ASSUME NEW s, NEW t, IsText(s), IsText(t), NEW k \in 0..Len(s), k <= Len(t),
         \A i \in 1..k : s[i] = t[i]
  PROVE  SubSeq(s, 1, k) = SubSeq(t, 1, k)
<1>1. Len(s) \in Nat /\ Len(t) \in Nat /\ k \in 0..Len(t)
  BY TextLength
<1> DEFINE p == SubSeq(s, 1, k)
           q == SubSeq(t, 1, k)
<1>2. IsText(p) /\ Len(p) = k /\ \A i \in 1..k : p[i] = s[i]
  BY StartIs
<1>3. IsText(q) /\ Len(q) = k /\ \A i \in 1..k : q[i] = t[i]
  BY <1>1, StartIs
<1> HIDE DEF p, q
<1>4. p = q
  BY <1>2, <1>3, SameText
<1> QED BY <1>4 DEF p, q

(* and the start of a text is a prefix of it. *)
LEMMA StartIsPrefix ==
  ASSUME NEW s, IsText(s), NEW k \in 0..Len(s)
  PROVE  IsPrefix(SubSeq(s, 1, k), s)
<1> DEFINE q == SubSeq(s, 1, k)
<1>1. IsText(q) /\ Len(q) = k
  BY StartIs
<1>2. Len(q) <= Len(s) /\ SubSeq(q, 1, Len(q)) = q
  BY <1>1, CutWhole, TextLength
<1>3. q = SubSeq(s, 1, Len(q))
  BY <1>1
<1> HIDE DEF q
<1>4. IsPrefix(q, s)
  BY <1>2, <1>3 DEF IsPrefix
<1> QED BY <1>4 DEF q

(* A text in a gzip stream. *)
Gzip == "gzip"
End == "end"
(* What compressPayload() returns, lexeme by lexeme. *)
LEMMA CompressedTextIs ==
  ASSUME NEW p, IsText(p)
  PROVE  LET s == compressPayload(p)
         IN /\ IsText(s) /\ Len(s) = Len(p) + 2
            /\ s[1] = Gzip /\ s[Len(p) + 2] = End
            /\ \A i \in 1..Len(p) : s[1 + i] = p[i]
<1> DEFINE a == <<Gzip>>
           z == <<End>>
           u == a \o p
           s == u \o z
<1>1. IsText(a) /\ IsText(z)
  BY WordsAreText
<1>2. Len(a) = 1 /\ a[1] = Gzip /\ Len(z) = 1 /\ z[1] = End
  OBVIOUS
<1>3. Len(p) \in Nat
  BY TextLength
<1>4. s = compressPayload(p)
  BY DEF compressPayload, Gzip, End
<1> HIDE DEF a, z
<1>5. /\ IsText(u) /\ Len(u) = 1 + Len(p) /\ u[1] = Gzip
      /\ \A k \in 1..Len(p) : u[1 + k] = p[k]
  <2>1. /\ IsText(u) /\ Len(u) = Len(a) + Len(p)
        /\ \A i \in 1..Len(a) : u[i] = a[i]
        /\ \A i \in 1..Len(p) : u[Len(a) + i] = p[i]
    BY <1>1, JoinIs
  <2> HIDE DEF u
  <2> QED BY <1>2, <2>1
<1> HIDE DEF u
<1>6. /\ IsText(s) /\ Len(s) = Len(u) + Len(z)
      /\ \A i \in 1..Len(u) : s[i] = u[i]
      /\ \A i \in 1..Len(z) : s[Len(u) + i] = z[i]
  <2>1. IsText(u)
    BY <1>5
  <2> QED BY <1>1, <2>1, JoinIs
<1> HIDE DEF s
<1>7. Len(s) = Len(p) + 2 /\ s[1] = Gzip /\ \A k \in 1..Len(p) : s[1 + k] = p[k]
  <2>1. 1 \in 1..Len(u) /\ \A k \in 1..Len(p) : 1 + k \in 1..Len(u)
    BY <1>3, <1>5
  <2> QED BY <1>2, <1>3, <1>5, <1>6, <2>1
<1>8. s[Len(p) + 2] = End
  <2>1. Len(u) + 1 = Len(p) + 2 /\ 1 \in 1..Len(z)
    BY <1>2, <1>3, <1>5
  <2> QED BY <1>2, <1>6, <2>1
<1> QED BY <1>4, <1>6, <1>7, <1>8

(* The loop of inflate() calls gives the start of the text, wherever the   *)
(* stream breaks off, and all of it if it does not.                        *)
LEMMA InflateIs ==
  ASSUME NEW p, IsText(p), NEW m \in 0..(Len(p) + 2)
  PROVE  \E k \in 0..Len(p) :
           /\ Inflate(SubSeq(compressPayload(p), 1, m)) = SubSeq(p, 1, k)
           /\ m = Len(p) + 2 /\ Free(p, {End}) => k = Len(p)
<1> DEFINE s == compressPayload(p)
           raw == SubSeq(s, 1, m)
<1>1. /\ IsText(s) /\ Len(s) = Len(p) + 2
      /\ s[1] = Gzip /\ s[Len(p) + 2] = End
      /\ \A i \in 1..Len(p) : s[1 + i] = p[i]
  BY CompressedTextIs
<1>2. Len(p) \in Nat
  BY TextLength
<1> HIDE DEF s
<1>3. IsText(raw) /\ Len(raw) = m /\ \A i \in 1..m : raw[i] = s[i]
  BY <1>1, StartIs
<1> HIDE DEF raw
<1>4. CASE m = 0
  <2>1. Find(raw, <<"gzip">>, 1) = 0
    BY <1>3, <1>4, FindNone
  <2>2. Inflate(raw) = <<>>
    BY <2>1 DEF Inflate
  <2>3. SubSeq(p, 1, 0) = <<>>
    BY CutNothing
  <2>4. 0 \in 0..Len(p) /\ ~(m = Len(p) + 2)
    BY <1>2, <1>4
  <2> QED BY <2>2, <2>3, <2>4 DEF raw, s
<1>5. CASE m >= 1
  <2>1. Find(raw, <<"gzip">>, 1) = 1
    <3>1. 1 \in Nat \ {0} /\ 1 \in 1..Len(raw) /\ raw[1] = Gzip
      BY <1>1, <1>2, <1>3, <1>5
    <3>2. Occurs(raw, <<"gzip">>, 1)
      BY <1>3, <3>1, OccursOne DEF Gzip
    <3> QED BY <1>3, <3>1, <3>2, FindIs
  <2> DEFINE t == Tail(raw)
  <2>2. Inflate(raw) = Before(t, "end")
    BY <2>1 DEF Inflate
  <2>3. IsText(t) /\ Len(t) = m - 1 /\ \A i \in 1..(m - 1) : t[i] = raw[i + 1]
    <3>1. raw \in Seq(ToSet(raw)) /\ raw # <<>>
      BY <1>3, <1>5 DEF IsText
    <3>2. /\ t \in Seq(ToSet(raw)) /\ Len(t) = Len(raw) - 1
          /\ \A i \in 1..Len(t) : t[i] = raw[i + 1]
      BY <3>1, HeadTailProperties
    <3> HIDE DEF t
    <3> QED BY <1>3, <3>2, SeqIsText
  <2> HIDE DEF t
  <2>4. \A i \in 1..(m - 1) : i <= Len(p) => t[i] = p[i]
    <3> TAKE i \in 1..(m - 1)
    <3>1. i + 1 \in 1..m /\ i + 1 = 1 + i /\ (i <= Len(p) => i \in 1..Len(p))
      BY <1>2
    <3> QED BY <1>1, <1>3, <2>3, <3>1
  <2>5. m - 1 > Len(p) => m - 1 = Len(p) + 1 /\ t[Len(p) + 1] = End
    <3> SUFFICES ASSUME m - 1 > Len(p) PROVE m - 1 = Len(p) + 1 /\ t[Len(p) + 1] = End
      OBVIOUS
    <3>1. m - 1 = Len(p) + 1 /\ Len(p) + 1 \in 1..(m - 1) /\ (Len(p) + 1) + 1 = Len(p) + 2
          /\ Len(p) + 2 \in 1..m
      BY <1>2
    <3> QED BY <1>1, <1>3, <2>3, <3>1
  <2>6. CASE \A i \in 1..Len(t) : t[i] # End
    <3>1. m - 1 <= Len(p)
      <4> SUFFICES ASSUME m - 1 > Len(p) PROVE FALSE
        BY <1>2
      <4>1. Len(p) + 1 \in 1..Len(t) /\ t[Len(p) + 1] = End
        BY <1>2, <2>3, <2>5
      <4> QED BY <2>6, <4>1
    <3>2. Before(t, "end") = t
      BY <2>3, <2>6, SplitNone DEF End
    <3>3. m - 1 \in 0..Len(t) /\ m - 1 <= Len(p) /\ m - 1 \in 0..Len(p) /\ ~(m = Len(p) + 2)
          /\ \A i \in 1..(m - 1) : i <= Len(p)
      BY <1>2, <1>5, <2>3, <3>1
    <3>4. SubSeq(t, 1, m - 1) = SubSeq(p, 1, m - 1)
      <4>1. \A i \in 1..(m - 1) : t[i] = p[i]
        BY <2>4, <3>3
      <4> QED BY <2>3, <3>3, <4>1, SameStart
    <3>5. SubSeq(t, 1, m - 1) = t
      BY <2>3, CutWhole
    <3>6. Inflate(raw) = SubSeq(p, 1, m - 1)
      BY <2>2, <3>2, <3>4, <3>5
    <3> QED BY <3>3, <3>6 DEF raw, s
  <2>7. CASE \E i \in 1..Len(t) : t[i] = End
    <3> DEFINE S == {i \in 1..Len(t) : t[i] = End}
    <3>1. PICK j \in S : \A i \in S : j <= i
      <4>1. S \in SUBSET Nat /\ S # {}
        BY <1>2, <1>5, <2>3, <2>7, SMTT(30)
      <4> HIDE DEF S
      <4> QED BY <4>1, SmallestNumber
    <3>2. j \in 1..(m - 1) /\ j \in 1..Len(t) /\ t[j] = End /\ \A i \in 1..(j - 1) : t[i] # End
      <4>1. \A i \in 1..(j - 1) : i \in 1..Len(t) /\ ~(j <= i)
        BY <2>3, <3>1
      <4> QED BY <2>3, <3>1, <4>1
    <3>3. j - 1 \in 0..Len(p) /\ j - 1 \in 0..Len(t) /\ j - 1 <= Len(p)
      BY <1>2, <2>3, <2>5, <3>2
    <3>4. Before(t, "end") = SubSeq(t, 1, j - 1)
      BY <2>3, <3>2, SplitAt DEF End
    <3>5. SubSeq(t, 1, j - 1) = SubSeq(p, 1, j - 1)
      <4>1. \A i \in 1..(j - 1) : i \in 1..(m - 1) /\ i <= Len(p)
        BY <1>2, <2>3, <3>2, <3>3
      <4>2. \A i \in 1..(j - 1) : t[i] = p[i]
        BY <2>4, <4>1
      <4> QED BY <2>3, <3>3, <4>2, SameStart
    <3>6. Free(p, {End}) => j - 1 = Len(p)
      <4> SUFFICES ASSUME Free(p, {End}), j - 1 # Len(p) PROVE FALSE
        OBVIOUS
      <4>1. j \in 1..Len(p)
        BY <1>2, <3>2, <3>3
      <4>2. t[j] = p[j] /\ p[j] # End
        BY <2>4, <3>2, <4>1 DEF Free
      <4> QED BY <3>2, <4>2
    <3>7. Inflate(raw) = SubSeq(p, 1, j - 1)
      BY <2>2, <3>4, <3>5
    <3> QED BY <3>3, <3>6, <3>7 DEF raw, s
  <2> QED BY <2>6, <2>7
<1>6. m = 0 \/ m >= 1
  BY <1>2
<1> QED BY <1>4, <1>5, <1>6

(* The body the parser finds is the start of the payload, and all of it    *)
(* when everything arrived, the request states a length, and no word of    *)
(* the payload is taken for the end of the stream.                         *)
LEMMA BodyOfCut ==
  ASSUME NEW a \in Requests, NEW n \in 1..Len(RequestText(a)), NEW t,
         t = SubSeq(RequestText(a), 1, n), a.encoding # "deflate"
  PROVE  \E k \in 0..Len(Payload(a)) :
           /\ Body(t, Headers(t)) = SubSeq(Payload(a), 1, k)
           /\ n = Len(RequestText(a)) /\ a.length # ""
                /\ (a.encoding = "gzip" => Free(Payload(a), {End})) => k = Len(Payload(a))
<1> DEFINE h == HeadText(a)
           e == Encoded(a)
           p == Payload(a)
           H == Headers(t)
           F == Fields(a)
           m == Len(h)
           all == Len(RequestText(a))
           blank == Find(t, Crlf \o Crlf, 1)
           raw == IF blank = 0 THEN <<>> ELSE From(t, blank + 4)
           got == Body(t, H)
           stated == a.length # ""
           zipped == a.encoding = "gzip"
           whole == n = all /\ stated /\ (zipped => Free(p, {End}))
<1> SUFFICES \E k \in 0..Len(p) : got = SubSeq(p, 1, k) /\ (whole => k = Len(p))
  OBVIOUS
<1>1. HeadOf(h, F) /\ Cut(t, h, e, n) /\ all = m + 2 + Len(e)
  BY CutOfRequest
<1>2. IsText(p) /\ IsText(e) /\ IsText(h) /\ Lined(h)
  BY <1>1, PayloadIsText DEF HeadOf, Lined
<1>3. Len(p) \in Nat /\ Len(e) \in Nat /\ m \in Nat /\ n \in Nat /\ n <= all
  BY <1>1, <1>2, TextLength
<1>4. got = IF ContentLength \notin DOMAIN H THEN <<>>
            ELSE IF Compressed(H) THEN Inflate(raw) ELSE raw
  BY DEF Body
<1>5. SubSeq(p, 1, 0) = <<>> /\ 0 \in 0..Len(p)
  BY <1>3, CutNothing
<1>6. blank = IF n >= m + 2 THEN m - 1 ELSE 0
  BY <1>1, <1>2, BlankLineIs
<1>7. n >= m => (Compressed(H) <=> a.encoding \in {"gzip", "deflate"})
  BY CompressedIs
<1>8. n >= m => (ContentLength \in DOMAIN H <=> stated)
  <2> SUFFICES ASSUME n >= m PROVE ContentLength \in DOMAIN H <=> a.length # ""
    OBVIOUS
  <2>1. DOMAIN H = {<<x>> : x \in DOMAIN F}
    <3> HIDE DEF F, h, e
    <3>1. n >= Len(h)
      OBVIOUS
    <3>2. Reads(H, F)
      BY <1>1, <3>1, HeadersOfHead
    <3> QED BY <3>2 DEF Reads
  <2>2. "Content-Length" \in DOMAIN F <=> a.length # ""
    BY FieldSets
  <2> HIDE DEF H, F
  <2> QED BY <2>1, <2>2 DEF ContentLength
<1>9. n >= m + 2 => n - m - 2 \in 0..Len(e) /\ raw = SubSeq(e, 1, n - m - 2)
  <2> SUFFICES ASSUME n >= m + 2 PROVE n - m - 2 \in 0..Len(e) /\ raw = SubSeq(e, 1, n - m - 2)
    OBVIOUS
  <2>1. /\ n - m - 2 \in 0..Len(e)
        /\ From(t, blank + 4) = SubSeq(e, 1, n - m - 2)
    <3>1. n >= Len(h) + 2
      OBVIOUS
    <3> HIDE DEF h, e
    <3> QED BY <1>1, <1>2, <3>1, ArrivedBody
  <2>2. blank # 0
    <3>1. m >= 3
      BY <1>2 DEF Lined
    <3> HIDE DEF m, blank
    <3> QED BY <1>3, <1>6, <3>1
  <2> HIDE DEF blank, m
  <2> QED BY <2>1, <2>2
<1>15. zipped <=> a.encoding = "gzip"
  OBVIOUS
<1> HIDE DEF got, H, raw, blank, m, all, stated, zipped
<1>10. CASE ContentLength \notin DOMAIN H
  <2>1. got = <<>>
    BY <1>4, <1>10
  <2>2. ~whole
    <3> HIDE DEF h, e, F, p
    <3> QED BY <1>1, <1>3, <1>8, <1>10
  <2> HIDE DEF whole, p
  <2> QED BY <1>5, <2>1, <2>2
<1>11. CASE n < m + 2
  <2>1. raw = <<>>
    <3>1. blank = 0
      BY <1>3, <1>6, <1>11
    <3> QED BY <3>1 DEF raw
  <2>2. got = <<>>
    <3>1. Inflate(<<>>) = <<>>
      <4>1. Find(<<>>, <<"gzip">>, 1) = 0
        <5>1. \A i \in 1..Len(<<>>) : ~Occurs(<<>>, <<"gzip">>, i)
          OBVIOUS
        <5> QED BY <5>1, FindNone
      <4> QED BY <4>1 DEF Inflate
    <3> QED BY <1>4, <2>1, <3>1
  <2>3. ~whole
    <3> HIDE DEF h, e, F, p
    <3> QED BY <1>1, <1>3, <1>11
  <2> HIDE DEF whole, p
  <2> QED BY <1>5, <2>2, <2>3
<1>12. CASE n >= m + 2 /\ ContentLength \in DOMAIN H
  <2> DEFINE c == n - m - 2
  <2>1. n >= m /\ c \in 0..Len(e) /\ raw = SubSeq(e, 1, c)
    BY <1>3, <1>9, <1>12
  <2>2. n = all => c = Len(e)
    <3> HIDE DEF h, e, F
    <3> QED BY <1>1, <1>3
  <2> HIDE DEF c
  <2>3. CASE zipped
    <3>1. got = Inflate(raw)
      BY <1>4, <1>7, <1>12, <1>15, <2>1, <2>3
    <3>2. e = compressPayload(p)
      BY <1>15, <2>3 DEF Encoded
    <3> HIDE DEF p, e
    <3>3. Len(e) = Len(p) + 2
      BY <1>2, <3>2, CompressedTextIs
    <3>4. c \in 0..(Len(p) + 2)
      BY <2>1, <3>3
    <3>5. PICK k \in 0..Len(p) :
            /\ Inflate(SubSeq(compressPayload(p), 1, c)) = SubSeq(p, 1, k)
            /\ c = Len(p) + 2 /\ Free(p, {End}) => k = Len(p)
      BY <1>2, <3>4, InflateIs
    <3>6. got = SubSeq(p, 1, k)
      BY <2>1, <3>1, <3>2, <3>5
    <3>7. whole => k = Len(p)
      BY <2>2, <2>3, <3>3, <3>5
    <3> HIDE DEF whole
    <3> QED BY <3>6, <3>7
  <2>4. CASE ~zipped
    <3>1. e = p
      BY <1>15, <2>4, Zenon DEF Encoded
    <3>2. ~Compressed(H)
      BY <1>7, <1>15, <2>1, <2>4
    <3> HIDE DEF e
    <3>3. got = SubSeq(p, 1, c)
      BY <1>4, <1>12, <2>1, <3>1, <3>2
    <3>4. c \in 0..Len(p) /\ (whole => c = Len(p))
      BY <2>1, <2>2, <3>1
    <3> HIDE DEF whole, p
    <3> QED BY <3>3, <3>4
  <2> QED BY <2>3, <2>4
<1>13. n < m + 2 \/ n >= m + 2
  BY <1>3
<1> HIDE DEF p, whole
<1> QED BY <1>10, <1>11, <1>12, <1>13

(* HttpProtocolHandler::readRequest, HttpRequest::parseHttpRequest: for    *)
(* any request and wherever the one read cuts it off, the handler is given *)
(* the start of the body the client meant, inflated or not.                *)
THEOREM CutBodiesArePrefixes == Spec => []CutBodyIsAPrefix
<1>1. RouteInv => CutBodyIsAPrefix
  <2> SUFFICES ASSUME RouteInv, Parsed, asked.encoding # "deflate"
               PROVE  IsPrefix(request.mBody, Payload(asked))
    BY DEF CutBodyIsAPrefix
  <2>1. asked \in Requests /\ request = ParseHttpRequest(text)
    BY DEF RouteInv, TextInv, Parsed
  <2>2. PICK n \in 1..Len(RequestText(asked)) : text = SubSeq(RequestText(asked), 1, n)
    BY DEF RouteInv, TextInv, Parsed
  <2>3. request.mBody = Body(text, Headers(text))
    BY <2>1 DEF ParseHttpRequest
  <2> DEFINE p == Payload(asked)
             got == Body(text, Headers(text))
  <2>4. PICK k \in 0..Len(p) : got = SubSeq(p, 1, k)
    BY <2>1, <2>2, BodyOfCut
  <2>5. IsText(p)
    BY <2>1, PayloadIsText
  <2> HIDE DEF p, got
  <2>6. IsPrefix(got, p)
    BY <2>4, <2>5, StartIsPrefix
  <2> QED BY <2>3, <2>6 DEF p, got
<1> QED BY <1>1, RouteInvIsInvariant, PTL

-----------------------------------------------------------------------------
(* What the client encrypted is what the handler logs. *)

(* A request that arrives whole, compressed or not, has its whole body. *)
Stated(a) == a.length # ""
(* The body of a request that arrived whole is its payload. *)
LEMMA WholeBody ==
  ASSUME NEW a \in Requests, a.encoding # "deflate", Stated(a),
         a.encoding = "gzip" => Free(Payload(a), {End})
  PROVE  Body(RequestText(a), Headers(RequestText(a))) = Payload(a)
<1> DEFINE t == RequestText(a)
           p == Payload(a)
<1>1. IsText(HeadText(a)) /\ Len(HeadText(a)) >= 3 /\ IsText(Encoded(a)) /\ IsText(p)
  BY HeadOfRequest, PayloadIsText DEF HeadOf, Lined
<1>2. t = HeadText(a) \o Crlf \o Encoded(a)
  BY RequestTextIs
<1>3. IsText(t) /\ Len(t) >= 1 /\ Len(t) \in Nat
  <2> DEFINE h == HeadText(a)
             e == Encoded(a)
             g == h \o Crlf
  <2>1. IsText(Crlf) /\ Len(Crlf) = 2
    BY WordsAreText DEF Crlf
  <2> HIDE DEF h, e, t
  <2>2. IsText(g) /\ Len(g) = Len(h) + 2 /\ Len(h) >= 3
    <3>1. IsText(h) /\ IsText(Crlf)
      BY <1>1, <2>1 DEF h
    <3>2. IsText(g) /\ Len(g) = Len(h) + Len(Crlf)
      BY <3>1, JoinIs
    <3>3. Len(h) >= 3
      BY <1>1 DEF h
    <3> HIDE DEF g
    <3> QED BY <2>1, <3>2, <3>3
  <2> HIDE DEF g
  <2>3. IsText(g \o e) /\ Len(g \o e) = Len(g) + Len(e)
    <3>1. IsText(g) /\ IsText(e)
      BY <1>1, <2>2 DEF e
    <3> QED BY <3>1, JoinIs
  <2>4. Len(h) \in Nat /\ Len(e) \in Nat
    BY <1>1, TextLength DEF h, e
  <2>5. t = g \o e
    BY <1>2 DEF g, h, e
  <2>6. IsText(t) /\ Len(t) = Len(g) + Len(e)
    BY <2>3, <2>5
  <2> QED BY <2>2, <2>4, <2>6
<1>4. t = SubSeq(t, 1, Len(t)) /\ Len(t) \in 1..Len(t)
  <2> HIDE DEF t
  <2> QED BY <1>3, CutWhole
<1>5. PICK k \in 0..Len(p) : /\ Body(t, Headers(t)) = SubSeq(p, 1, k)
                             /\ k = Len(p)
  BY <1>4, BodyOfCut DEF Stated
<1>6. SubSeq(p, 1, Len(p)) = p
  BY <1>1, CutWhole
<1> HIDE DEF t, p
<1>7. Body(t, Headers(t)) = p
  BY <1>5, <1>6
<1> QED BY <1>7 DEF t, p

(* Base 64 text does not end a gzip stream. *)
LEMMA CharsAreNotEnd == \A i \in 1..64 : Base64Chars[i] # "end"
BY DEF Base64Chars

(* None of the characters of base 64 is the end of a stream. *)
LEMMA EncodedIsFree ==
  ASSUME NEW data \in Seq(Bytes)
  PROVE  Free(base64Encode(data), {End})
<1> DEFINE e == base64Encode(data)
           E == {Base64Chars[j] : j \in 1..64} \cup {"="}
<1>1. e \in Seq(E)
  BY EncodedIs DEF Encodes
<1>2. End \notin E
  <2>1. End # "="
    BY DEF End
  <2>2. \A j \in 1..64 : Base64Chars[j] # End
    BY CharsAreNotEnd DEF End
  <2> QED BY <2>1, <2>2
<1> HIDE DEF e, E
<1>3. \A i \in 1..Len(e) : e[i] \in E
  BY <1>1, LenProperties
<1>4. Free(e, {End})
  BY <1>2, <1>3 DEF Free
<1> QED BY <1>4 DEF e

(* Key files with the same key make the same cipher. *)
LEMMA SameKeySameCipher ==
  ASSUME NEW file \in ServerFiles, file.opens, KeysIn(file) = KeysIn(ClientFile)
  PROVE  Cipher(file) = Cipher(ClientFile)
<1>1. "k1" \notin Armour /\ "k2" \notin Armour
  BY Zenon DEF Armour
<1>2. \A f \in {file, ClientFile} :
        KeyMaterial(readPrivateKey(f)) = ToSet(f.text) \ Armour
  BY FilesAssumption DEF KeyMaterial, readPrivateKey
<1>3. \A f \in {file, ClientFile} : ToSet(f.text) \ Armour = KeysIn(f)
  BY <1>1, FilesAssumption DEF KeysIn
<1>4. KeyMaterial(readPrivateKey(file)) = KeyMaterial(readPrivateKey(ClientFile))
  BY <1>2, <1>3
<1> QED BY <1>4 DEF Cipher, generateKeyIV

(* GetSecretRouteHandler, AESCipher: for any requests, messages and key    *)
(* files, a secret that arrives whole at a server with the client's key is *)
(* decrypted to what the client meant; an answered secret is decrypted by  *)
(* the client to the server's message, and a refused one is not logged.    *)
THEOREM SharedSecretsAreRead == Spec => []SecretsAreShared
<1>1. RouteInv /\ SecretInv
        /\ (pc = "receive" /\ keyFile.opens => AnswerIsReadable) => SecretsAreShared
  <2> SUFFICES ASSUME RouteInv, SecretInv, pc = "receive", keyFile.opens,
                      KeysIn(keyFile) = KeysIn(ClientFile), Arrived, Readable,
                      asked.secret # <<>>
               PROVE  /\ logged = asked.secret
                      /\ answer.mStatusCode = HttpResponseStatus.OK
    BY DEF SecretsAreShared, SecretIsRead
  <2> DEFINE a == asked
             key == Cipher(keyFile)
             data == a.secret
             sealed == encrypt(key, data)
  <2>1. a \in Requests /\ request = ParseHttpRequest(text) /\ text = RequestText(a)
    BY DEF RouteInv, TextInv, Arrived
  <2>2. keyFile \in ServerFiles
    BY DEF SecretInv
  <2>3. key = Cipher(ClientFile) /\ key \in Nat
    BY <2>2, SameKeySameCipher, CipherIsNumber
  <2>4. data \in Seq(Bytes)
    <3>1. IsText(data) /\ \A i \in DOMAIN data : data[i] \in 0..255
      BY <2>1, RequestsAssumption
    <3> HIDE DEF data
    <3>2. Len(data) \in Nat /\ DOMAIN data = 1..Len(data)
      BY <3>1, TextLength
    <3>3. data = [i \in 1..Len(data) |-> data[i]]
      BY <3>1, LenProperties DEF IsText
    <3>4. data \in [1..Len(data) -> Bytes]
      BY <3>1, <3>2, <3>3 DEF Bytes
    <3> QED BY <3>2, <3>4, SeqDef
  <2>5. Payload(a) = base64Encode(sealed)
    <3>1. a.form = <<>>
      BY <2>1, RequestsAssumption
    <3> QED BY <2>3, <3>1 DEF Payload
  <2> HIDE DEF key, data
  <2>6. sealed \in Seq(Bytes) /\ ~DecryptThrows(key, sealed) /\ decrypt(key, sealed) = data
    BY <2>3, <2>4, DecryptInvertsEncrypt
  <2> HIDE DEF sealed
  <2>7. Free(Payload(a), {End})
    BY <2>5, <2>6, EncodedIsFree
  <2>8. request.mBody = Payload(a)
    <3>1. request.mBody = Body(text, Headers(text))
      BY <2>1 DEF ParseHttpRequest
    <3>2. Body(RequestText(a), Headers(RequestText(a))) = Payload(a)
      BY <2>1, <2>7, WholeBody DEF Readable, Stated
    <3> QED BY <2>1, <3>1, <3>2
  <2>9. SentBytes(request) = sealed
    BY <2>5, <2>6, <2>8, Base64RoundTrip DEF SentBytes
  <2>10. ~DecryptThrows(Cipher(keyFile), SentBytes(request))
    BY <2>6, <2>9 DEF key
  <2>11. decrypt(Cipher(keyFile), SentBytes(request)) = asked.secret
    BY <2>6, <2>9 DEF key, data
  <2> QED BY <2>10, <2>11 DEF SecretInv
<1>2. Spec => []SecretInv
  BY SecretInvInit, SecretInvStep, PTL DEF Spec
<1> QED BY <1>1, <1>2, RouteInvIsInvariant, AnsweredSecretsAreReadable, PTL

-----------------------------------------------------------------------------
(* The head of an answer. *)

(* A header line of one word, as toString() writes it. *)
LEMMA HeaderOfWord ==
  ASSUME NEW name, NEW word
  PROVE  <<name, ":", " ", word>> \o Crlf = Header(name, <<word>>)
<1>1. \A a, b, c, d : <<a, b, c, d>> = <<a, b, c>> \o <<d>>
  OBVIOUS
<1>2. <<name, ":", " ", word>> = <<name, ":", " ">> \o <<word>>
  BY <1>1, Zenon
<1> QED BY <1>2, Zenon DEF Header

(* The enumeration of a map's names is one. *)
Enumerates(names, n, S) ==
  /\ n \in Nat /\ names \in [1..n -> S]
  /\ \A i, j \in 1..n : names[i] = names[j] => i = j
  /\ S = {names[i] : i \in 1..n}

(* The enumeration toString() chooses lists every name once. *)
LEMMA NamesAreEnumerated ==
  ASSUME NEW S, IsFiniteSet(S), NEW n, n = Cardinality(S)
  PROVE  Enumerates(CHOOSE s \in [1..n -> S] : IsInjective(s), n, S)
<1> DEFINE names == CHOOSE s \in [1..n -> S] : IsInjective(s)
<1>1. n \in Nat /\ ExistsBijection(1..n, S)
  BY FS_CardinalityType
<1>2. \E s \in [1..n -> S] : IsInjective(s)
  BY <1>1 DEF ExistsBijection, Bijection, Injection
<1>3. names \in [1..n -> S] /\ IsInjective(names)
  BY <1>2
<1>4. names \in Injection(1..n, S)
  BY <1>3 DEF Injection
<1>5. IsFiniteSet(1..n) /\ Cardinality(1..n) = n
  BY <1>1, FS_Interval
<1>6. names \in Surjection(1..n, S)
  BY <1>4, <1>5, FS_Injection
<1> HIDE DEF names
<1>7. S = {names[i] : i \in 1..n}
  BY <1>3, <1>6 DEF Surjection
<1>8. \A i, j \in 1..n : names[i] = names[j] => i = j
  BY <1>3 DEF IsInjective
<1>9. Enumerates(names, n, S)
  BY <1>1, <1>3, <1>7, <1>8 DEF Enumerates
<1> QED BY <1>9 DEF names

(* toString() writes one header line for every name of the map. *)
LEMMA HeaderLinesGrow ==
  ASSUME NEW h, NEW F, HeadOf(h, F), NEW H, IsFiniteSet(DOMAIN H),
         \A x \in DOMAIN H : x \notin Breaks \cup {":"} /\ x \notin DOMAIN F /\ H[x] \notin Breaks
  PROVE  \E G : /\ HeadOf(h \o HeaderLines(H), G) /\ IsText(HeaderLines(H))
                /\ DOMAIN G = DOMAIN F \cup DOMAIN H
                /\ \A x \in DOMAIN F : G[x] = F[x]
<1> DEFINE S == DOMAIN H
           k == Cardinality(S)
           names == CHOOSE s \in [1..k -> S] : IsInjective(s)
           line(i) == Header(names[i], <<H[names[i]]>>)
           seqs == [i \in 1..k |-> line(i)]
<1>1. /\ k \in Nat /\ names \in [1..k -> S]
      /\ \A i, j \in 1..k : names[i] = names[j] => i = j
      /\ S = {names[i] : i \in 1..k}
  <2>1. Enumerates(names, k, S)
    BY NamesAreEnumerated
  <2> HIDE DEF names, S, k
  <2> QED BY <2>1 DEF Enumerates
<1>2. HeaderLines(H) = FlattenSeq(seqs)
  <2>1. HeaderLines(H) =
          FlattenSeq([i \in DOMAIN names |-> <<names[i], ":", " ", H[names[i]]>> \o Crlf])
    BY Zenon DEF HeaderLines
  <2>2. DOMAIN names = 1..k
    BY <1>1
  <2> HIDE DEF names, k
  <2>3. [i \in DOMAIN names |-> <<names[i], ":", " ", H[names[i]]>> \o Crlf] = seqs
    <3>1. \A i \in 1..k : <<names[i], ":", " ", H[names[i]]>> \o Crlf = line(i)
      BY HeaderOfWord, Zenon
    <3> QED BY <2>2, <3>1, Zenon
  <2> QED BY <2>1, <2>3
<1> HIDE DEF names, k
<1>3. IsText(seqs) /\ Len(seqs) = k
  BY <1>1, MapIsText
<1>4. \A i \in 1..k : seqs[i] = line(i)
  OBVIOUS
<1> HIDE DEF seqs
<1>5. PICK f : /\ Flattens(f, seqs, k)
               /\ FlattenSeq(seqs) = IF k = 0 THEN <<>> ELSE f[k]
  BY <1>3, FlattenIs
<1> DEFINE t(m) == IF m = 0 THEN <<>> ELSE f[m]
           Grown(m, G) == /\ HeadOf(h \o t(m), G) /\ IsText(t(m))
                          /\ DOMAIN G = DOMAIN F \cup {names[i] : i \in 1..m}
                          /\ \A x \in DOMAIN F : G[x] = F[x]
<1>6. Grown(0, F)
  <2>1. h \o <<>> = h /\ IsText(<<>>)
    BY JoinEmpty, WordsAreText DEF HeadOf, Lined
  <2>2. {names[i] : i \in 1..0} = {}
    OBVIOUS
  <2> QED BY <2>1, <2>2
<1>7. ASSUME NEW m \in 1..k, NEW G, Grown(m - 1, G) PROVE \E G2 : Grown(m, G2)
  <2> DEFINE name == names[m]
             value == <<H[name]>>
             G2 == With(G, name, value)
  <2>1. m \in Nat /\ m - 1 \in 0..k /\ 1..m = 1..(m - 1) \cup {m} /\ m \notin 1..(m - 1)
    BY <1>1
  <2>2. name \in S /\ name \notin DOMAIN G
    <3>1. name \in S /\ \A i \in 1..(m - 1) : names[i] # name
      BY <1>1, <2>1
    <3> HIDE DEF name
    <3> QED BY <1>7, <3>1
  <2>3. t(m) = t(m - 1) \o line(m)
    <3>1. f[m] = IF m = 1 THEN seqs[m] ELSE f[m-1] \o seqs[m]
      BY <1>5 DEF Flattens
    <3>2. seqs[m] = line(m)
      BY <1>4
    <3>3. IsText(line(m))
      BY WordsAreText, HeaderIs
    <3>4. m = 1 => line(m) = <<>> \o line(m)
      BY <3>3, JoinEmpty
    <3> HIDE DEF line
    <3>5. CASE m = 1
      <4>1. t(m) = f[m] /\ t(m - 1) = <<>>
        BY <3>5
      <4> QED BY <3>1, <3>2, <3>4, <3>5, <4>1
    <3>6. CASE m # 1
      <4>1. t(m) = f[m] /\ t(m - 1) = f[m - 1]
        BY <2>1, <3>6
      <4> QED BY <3>1, <3>2, <3>6, <4>1
    <3> QED BY <3>5, <3>6
  <2>4. IsText(value) /\ Free(value, Breaks)
    BY <2>2, WordsAreText, WordsAreFree
  <2> HIDE DEF t
  <2>5. HeadOf((h \o t(m - 1)) \o line(m), G2)
    <3>1. HeadOf(h \o t(m - 1), G)
      BY <1>7
    <3>2. name \notin Breaks \cup {":"}
      BY <2>2
    <3> HIDE DEF name, value
    <3>3. HeadOf((h \o t(m - 1)) \o Header(name, value), With(G, name, value))
      BY <2>2, <2>4, <3>1, <3>2, HeadGrows
    <3> QED BY <3>3 DEF name, value
  <2>6. IsText(line(m))
    BY WordsAreText, HeaderIs
  <2>7. h \o t(m) = (h \o t(m - 1)) \o line(m) /\ IsText(t(m))
    <3>1. IsText(h) /\ IsText(t(m - 1))
      BY <1>7 DEF HeadOf, Lined
    <3> HIDE DEF line
    <3> QED BY <2>3, <2>6, <3>1, JoinAssociates, ConcatIsText, SMTT(30)
  <2>8. /\ DOMAIN G2 = DOMAIN G \cup {name}
        /\ \A x \in DOMAIN F : G2[x] = F[x]
    <3> HIDE DEF value
    <3> QED BY <1>7, <2>2 DEF With
  <2>9. DOMAIN G2 = DOMAIN F \cup {names[i] : i \in 1..m}
    <3> HIDE DEF G2
    <3> QED BY <1>7, <2>1, <2>8
  <2>10. Grown(m, G2)
    <3> HIDE DEF G2, line
    <3> QED BY <2>5, <2>7, <2>8, <2>9
  <2> HIDE DEF G2, Grown
  <2> QED BY <2>10
<1> HIDE DEF Grown
<1>8. \E G : Grown(k, G)
  <2> DEFINE B == {m \in 0..k : ~\E G : Grown(m, G)}
  <2>4. k \in 0..k
    BY <1>1
  <2> SUFFICES ASSUME B # {} PROVE FALSE
    BY <2>4
  <2>1. PICK m \in B : \A i \in B : m <= i
    <3>1. B \in SUBSET Nat
      <4>1. 0..k \subseteq Nat
        BY <1>1
      <4> QED BY <4>1
    <3> HIDE DEF B
    <3> QED BY <3>1, SmallestNumber
  <2>2. m # 0 /\ m \in 1..k /\ m - 1 \in 0..k /\ ~(m <= m - 1)
    BY <1>1, <1>6, <2>1
  <2>3. \E G : Grown(m - 1, G)
    BY <2>1, <2>2
  <2> QED BY <1>7, <2>1, <2>2, <2>3
<1>9. PICK G : Grown(k, G)
  BY <1>8
<1>10. t(k) = HeaderLines(H)
  BY <1>2, <1>5
<1> QED BY <1>1, <1>9, <1>10 DEF Grown

(* The words toString() writes itself break no line. *)
LEMMA DescriptionIsWord == ASSUME NEW code PROVE getStatusDescription(code) \notin Breaks
BY ZenonT(120) DEF getStatusDescription, Breaks, CR, LF

CorsNames == {"Access-Control-Allow-Origin", "Access-Control-Allow-Methods",
              "Access-Control-Allow-Headers"}
(* The header line toString() adds to every answer. *)
LEMMA CorsIs ==
  /\ DOMAIN corsHeadersDefault = CorsNames
  /\ \A x \in CorsNames : x \notin Breaks \cup {":"} /\ corsHeadersDefault[x] \notin Breaks
<1>1. DOMAIN corsHeadersDefault = CorsNames
  BY Zenon DEF corsHeadersDefault, CorsNames
<1>2. \A x \in CorsNames : x \notin Breaks \cup {":"}
  BY Zenon DEF CorsNames, Breaks, CR, LF
<1>3. \A x \in CorsNames : corsHeadersDefault[x] \notin Breaks
  BY Zenon DEF corsHeadersDefault, CorsNames, Breaks, CR, LF
<1> QED BY <1>1, <1>2, <1>3

(* The words of an answer's own header lines break none of them. *)
LEMMA WordsOfAnswer ==
  /\ "Content-Length" \notin CorsNames \cup {"Content-Type", "Connection"} \cup Breaks \cup {":"}
  /\ "Content-Type" \notin Breaks \cup {":"} /\ "Connection" \notin Breaks \cup {":"}
  /\ "Connection" \notin CorsNames \cup {"Content-Length", "Content-Type"}
  /\ "application/json" \notin Breaks
BY Zenon DEF CorsNames, Breaks, CR, LF

(* An answer as the handlers make them, *)
WellMade(r) ==
  /\ {"mStatusCode", "mBody", "mHeaders"} \subseteq DOMAIN r
  /\ r.mStatusCode \in {200, 400, 404}
  /\ IsText(r.mBody) /\ Len(r.mBody) \in 0..12
  /\ DOMAIN r.mHeaders \subseteq {"Content-Type", "Connection"}
  /\ \A x \in DOMAIN r.mHeaders : r.mHeaders[x] \in {"application/json", "keep-alive"}

(* and its text up to the blank line. *)
AnswerHead(r) ==
  <<"HTTP/1.1", " ", ToString(r.mStatusCode), " ", getStatusDescription(r.mStatusCode)>> \o Crlf
  \o <<"Content-Length", ":", " ", ToString(Len(r.mBody))>> \o Crlf
  \o HeaderLines(Headed(r).mHeaders)

(* An answer's text is its head, an empty line and its body. *)
LEMMA AnswerTextIs ==
  ASSUME NEW r
  PROVE  toString(r) = AnswerHead(r) \o Crlf \o r.mBody
BY Zenon DEF toString, AnswerHead

(* The headers toString() writes. *)
LEMMA HeadedIs ==
  ASSUME NEW r, WellMade(r), NEW H, H = Headed(r).mHeaders
  PROVE  /\ DOMAIN H = CorsNames \cup DOMAIN r.mHeaders /\ IsFiniteSet(DOMAIN H)
         /\ \A x \in DOMAIN H : /\ x \notin Breaks \cup {":"} /\ x # "Content-Length"
                                /\ H[x] \notin Breaks
<1> DEFINE R == r.mHeaders
           D == DOMAIN corsHeadersDefault \cup DOMAIN R
           M == [n \in D |-> IF n \in DOMAIN corsHeadersDefault THEN corsHeadersDefault[n] ELSE R[n]]
<1>1. H = M
  <2>1. Headed(r) = [r EXCEPT !.mHeaders = M]
    BY DEF Headed
  <2> HIDE DEF M, D, R
  <2>2. "mHeaders" \in DOMAIN r
    <3>1. {"mStatusCode", "mBody", "mHeaders"} \subseteq DOMAIN r
      BY Zenon DEF WellMade
    <3> QED BY ONLY <3>1
  <2> QED BY <2>1, <2>2
<1>2. D = CorsNames \cup DOMAIN R
  BY CorsIs
<1>3. IsFiniteSet(D)
  <2>1. IsFiniteSet({"Content-Type", "Connection"})
    <3>1. \A a, b : IsFiniteSet({a, b})
      <4> TAKE a, b
      <4>1. IsFiniteSet({a} \cup {b}) /\ {a, b} = {a} \cup {b}
        BY FS_Singleton, FS_AddElement
      <4> QED BY <4>1
    <3> QED BY <3>1
  <2>2. IsFiniteSet(DOMAIN R)
    BY <2>1, FS_Subset DEF WellMade
  <2>3. IsFiniteSet(CorsNames)
    <3> DEFINE a == "Access-Control-Allow-Origin"
               b == "Access-Control-Allow-Methods"
               c == "Access-Control-Allow-Headers"
    <3>1. CorsNames = ({a} \cup {b}) \cup {c}
      BY DEF CorsNames
    <3> HIDE DEF a, b, c
    <3>2. IsFiniteSet({a} \cup {b})
      BY FS_Singleton, FS_AddElement
    <3> QED BY <3>1, <3>2, FS_AddElement
  <2> QED BY <1>2, <2>2, <2>3, FS_Union
<1>4. ASSUME NEW x \in D
      PROVE  /\ x \notin Breaks \cup {":"} /\ x # "Content-Length"
             /\ M[x] \notin Breaks
  <2>1. CASE x \in CorsNames
    <3>1. M[x] = corsHeadersDefault[x] /\ x # "Content-Length"
      BY <2>1, CorsIs, WordsOfAnswer
    <3> HIDE DEF M
    <3> QED BY <2>1, <3>1, CorsIs
  <2>2. CASE x \notin CorsNames
    <3>1. x \in {"Content-Type", "Connection"} /\ x \in DOMAIN R
      BY <1>2, <2>2 DEF WellMade
    <3>2. M[x] = R[x]
      BY <2>2, <3>1, CorsIs
    <3>3. R[x] \in {"application/json", "keep-alive"}
      BY <3>1 DEF WellMade
    <3> HIDE DEF M, R
    <3> QED BY <3>1, <3>2, <3>3, WordsOfAnswer, WordsOfHead
  <2> QED BY <2>1, <2>2
<1>5. DOMAIN M = D
  OBVIOUS
<1> HIDE DEF M, D
<1> QED BY <1>1, <1>2, <1>3, <1>4, <1>5

(* The head of an answer states the status, the length of the body, and    *)
(* the answer's headers.                                                   *)
LEMMA AnswerHeadIs ==
  ASSUME NEW r, WellMade(r)
  PROVE  /\ AnswerHead(r)[3] = ToString(r.mStatusCode)
         /\ \E F : /\ HeadOf(AnswerHead(r), F)
                  /\ DOMAIN F = {"Content-Length"} \cup CorsNames \cup DOMAIN r.mHeaders
                  /\ F["Content-Length"] = <<ToString(Len(r.mBody))>>
<1> DEFINE status == ToString(r.mStatusCode)
           what == getStatusDescription(r.mStatusCode)
           line == <<"HTTP/1.1", Space, status, Space, what>>
           length == ToString(Len(r.mBody))
           name == "Content-Length"
           value == <<length>>
           cl == Header(name, value)
           h0 == line \o Crlf
           h1 == h0 \o cl
           H == Headed(r).mHeaders
           hl == HeaderLines(H)
           F1 == With(NoMap, name, value)
<1>1. status \notin Breaks /\ length \notin Breaks
  <2>1. r.mStatusCode \in 0..505 /\ Len(r.mBody) \in 0..505
    <3>1. r.mStatusCode \in {200, 400, 404} /\ Len(r.mBody) \in 0..12
      BY Zenon DEF WellMade
    <3>2. \A k : k \in {200, 400, 404} => k \in 0..505
      OBVIOUS
    <3>3. \A k : k \in 0..12 => k \in 0..505
      OBVIOUS
    <3>4. r.mStatusCode \in 0..505
      BY ONLY <3>1, <3>2, ZenonT(30)
    <3>5. Len(r.mBody) \in 0..505
      <4> DEFINE l == Len(r.mBody)
      <4>1. l \in 0..12
        BY <3>1
      <4> HIDE DEF l
      <4>2. l \in 0..505
        BY ONLY <4>1
      <4> QED BY <4>2 DEF l
    <3> QED BY ONLY <3>4, <3>5
  <2> QED BY <2>1, NumbersAssumption, BreaksAreWhite
<1>2. IsText(line) /\ Free(line, Breaks) /\ Len(line) = 5 /\ line[3] = status
  <2>1. what \notin Breaks
    BY DescriptionIsWord
  <2> HIDE DEF status, what
  <2>2. line \in Seq({"HTTP/1.1", Space, status, what}) /\ Len(line) = 5 /\ line[3] = status
    OBVIOUS
  <2>3. \A i \in 1..5 : line[i] \in {"HTTP/1.1", Space, status, what}
    OBVIOUS
  <2>4. Free(line, Breaks)
    <3>1. \A w \in {"HTTP/1.1", Space, status, what} : w \notin Breaks
      BY <1>1, <2>1, WordsOfHead, MarksDiffer
    <3> HIDE DEF line
    <3> QED BY <2>2, <2>3, <3>1 DEF Free
  <2> QED BY <2>2, <2>4, SeqIsText
<1>3. HeadOf(h0, NoMap)
  <2>1. Len(line) >= 1
    BY <1>2
  <2> HIDE DEF line
  <2> QED BY <1>2, <2>1, HeadStarts
<1>4. HeadOf(h1, F1) /\ IsText(cl)
  <2>1. IsText(value) /\ Free(value, Breaks)
    BY <1>1, WordsAreText, WordsAreFree
  <2>2. name \notin Breaks \cup {":"} /\ name \notin DOMAIN NoMap
    BY WordsOfAnswer DEF NoMap
  <2> HIDE DEF h0, name, value
  <2> QED BY <1>3, <2>1, <2>2, HeadGrows, HeaderIs
<1>5. DOMAIN F1 = {name} /\ F1[name] = value
  <2> HIDE DEF value, name
  <2> QED BY DEF With, NoMap
<1>6. /\ DOMAIN H = CorsNames \cup DOMAIN r.mHeaders /\ IsFiniteSet(DOMAIN H)
      /\ \A x \in DOMAIN H : /\ x \notin Breaks \cup {":"} /\ x # name
                             /\ H[x] \notin Breaks
  BY HeadedIs
<1>7. PICK G : /\ HeadOf(h1 \o hl, G) /\ IsText(hl)
               /\ DOMAIN G = DOMAIN F1 \cup DOMAIN H
               /\ \A x \in DOMAIN F1 : G[x] = F1[x]
  <2>1. \A x \in DOMAIN H : x \notin Breaks \cup {":"} /\ x \notin DOMAIN F1 /\ H[x] \notin Breaks
    BY <1>5, <1>6
  <2> HIDE DEF h1, F1, H
  <2> QED BY <1>4, <1>6, <2>1, HeaderLinesGrow
<1>8. AnswerHead(r) = h1 \o hl
  <2>1. AnswerHead(r) = ((h0 \o <<name, ":", " ", length>>) \o Crlf) \o hl
    BY Zenon DEF AnswerHead, Space
  <2>2. (h0 \o <<name, ":", " ", length>>) \o Crlf = h0 \o (<<name, ":", " ", length>> \o Crlf)
    <3> DEFINE w == <<name, ":", " ", length>>
    <3>1. IsText(w)
      <4>1. w = <<name, ":", " ">> \o <<length>>
        <5>1. \A a, b, c, d : <<a, b, c, d>> = <<a, b, c>> \o <<d>>
          OBVIOUS
        <5> QED BY <5>1, Zenon
      <4>2. IsText(<<name, ":", " ">>) /\ IsText(<<length>>)
        BY WordsAreText, Zenon
      <4> HIDE DEF w
      <4> QED BY <4>1, <4>2, ConcatIsText, Zenon
    <3>2. IsText(h0) /\ IsText(Crlf)
      BY <1>3, WordsAreText DEF HeadOf, Lined, Crlf
    <3> HIDE DEF w, h0
    <3>3. (h0 \o w) \o Crlf = h0 \o (w \o Crlf)
      BY <3>1, <3>2, JoinAssociates
    <3> QED BY <3>3 DEF w
  <2>3. <<name, ":", " ", length>> \o Crlf = cl
    BY HeaderOfWord, Zenon
  <2> QED BY <2>1, <2>2, <2>3, Zenon
<1>9. (h1 \o hl)[3] = status
  <2>1. h0[3] = status /\ IsText(h0) /\ Len(h0) = 7
    <3>1. IsText(Crlf) /\ Len(Crlf) = 2
      BY WordsAreText DEF Crlf
    <3>2. IsText(line)
      BY <1>2
    <3> HIDE DEF line
    <3>3. /\ Len(h0) = Len(line) + Len(Crlf) /\ IsText(h0)
          /\ \A i \in 1..Len(line) : h0[i] = line[i]
      BY <3>1, <3>2, JoinIs, ZenonT(30)
    <3> HIDE DEF h0
    <3> QED BY <1>2, <3>1, <3>3
  <2>2. h1[3] = status /\ IsText(h1) /\ Len(h1) >= 7
    <3> HIDE DEF h0, cl
    <3>0. IsText(h0) /\ IsText(cl)
      BY <1>4, <2>1
    <3>1. /\ Len(h1) = Len(h0) + Len(cl) /\ IsText(h1)
          /\ \A i \in 1..Len(h0) : h1[i] = h0[i]
      BY <3>0, JoinIs
    <3>2. Len(cl) \in Nat
      BY <1>4, TextLength
    <3> HIDE DEF h1
    <3> QED BY <2>1, <3>1, <3>2
  <2> HIDE DEF h1, hl
  <2>3. \A i \in 1..Len(h1) : (h1 \o hl)[i] = h1[i]
    BY <1>7, <2>2, JoinIs
  <2> QED BY <2>2, <2>3
<1> HIDE DEF h1, hl, H, F1, value, status
<1>10. DOMAIN G = {name} \cup CorsNames \cup DOMAIN r.mHeaders /\ G[name] = value
  BY <1>5, <1>6, <1>7
<1> QED BY <1>7, <1>8, <1>9, <1>10 DEF status, value

(* What the client, or the parser, trims off a header's value. *)
LEMMA TrimOfSent ==
  ASSUME NEW w, w \notin White
  PROVE  Trim(Sent(<<w>>)) = <<w>>
<1> DEFINE v == <<w>>
           s == Sent(v)
<1>1. IsText(s) /\ Len(s) = 3 /\ s[1] = Space /\ s[2] = w /\ s[3] = CR
  <2>1. IsText(v) /\ Len(v) = 1 /\ v[1] = w
    BY WordsAreText
  <2> HIDE DEF v
  <2>2. /\ IsText(s) /\ Len(s) = Len(v) + 2 /\ s[1] = Space
        /\ (\A k \in 1..Len(v) : s[1 + k] = v[k]) /\ s[Len(v) + 2] = CR
    BY <2>1, SentIs
  <2> HIDE DEF s
  <2> QED BY <2>1, <2>2
<1> HIDE DEF s
<1>2. Space \in White /\ CR \in White
  BY Zenon DEF White, Blank, Space
<1>3. DOMAIN s = 1..3
  BY <1>1, TextLength
<1> DEFINE kept == {i \in DOMAIN s : s[i] \notin White}
           t == From(s, 2)
<1>4. kept = {2}
  <2>1. \A i \in 1..3 : i = 1 \/ i = 2 \/ i = 3
    OBVIOUS
  <2> QED BY <1>1, <1>2, <1>3, <2>1
<1>5. Min({2}) = 2
  BY DEF Min
<1>6. TrimLeft(s, White) = t
  BY <1>4, <1>5 DEF TrimLeft
<1>7. IsText(t) /\ Len(t) = 2 /\ t[1] = w /\ t[2] = CR
  <2>1. 2 \in 1..(Len(s) + 1) /\ Len(s) - 2 + 1 = 2
    BY <1>1
  <2>2. IsText(t) /\ Len(t) = Len(s) - 2 + 1 /\ \A k \in 1..(Len(s) - 2 + 1) : t[k] = s[2 + k - 1]
    BY <1>1, <2>1, FromIs
  <2> HIDE DEF t
  <2> QED BY <1>1, <2>1, <2>2
<1> HIDE DEF t
<1>8. DOMAIN t = 1..2
  BY <1>7, TextLength
<1> DEFINE left == {i \in DOMAIN t : t[i] \notin White}
<1>9. left = {1}
  <2>1. \A i \in 1..2 : i = 1 \/ i = 2
    OBVIOUS
  <2> QED BY <1>2, <1>7, <1>8, <2>1
<1>10. Max({1}) = 1
  BY DEF Max
<1>11. TrimRight(t, White) = SubSeq(t, 1, 1)
  BY <1>9, <1>10 DEF TrimRight
<1>12. SubSeq(t, 1, 1) = v
  <2> DEFINE q == SubSeq(t, 1, 1)
  <2>1. 1 \in 0..Len(t)
    BY <1>7
  <2>2. IsText(q) /\ Len(q) = 1 /\ \A i \in 1..1 : q[i] = t[i]
    BY <1>7, <2>1, StartIs
  <2>3. IsText(v) /\ Len(v) = 1 /\ v[1] = w
    BY WordsAreText
  <2> HIDE DEF q, v
  <2>4. \A i \in 1..1 : q[i] = v[i]
    BY <1>7, <2>2, <2>3
  <2> QED BY <2>2, <2>3, <2>4, SameText DEF q
<1> QED BY <1>6, <1>11, <1>12 DEF Trim, s

(* keepAlive(): only a request that asks for it is understood to, and one  *)
(* that asks and arrives always is.                                        *)
Asks(a) == a.alive # ""
(* keepAlive() only if the client asked for it, and always if that arrived. *)
LEMMA KeepAliveIs ==
  ASSUME NEW a \in Requests, NEW n \in 1..Len(RequestText(a)), NEW t,
         t = SubSeq(RequestText(a), 1, n), NEW r, r.mHeaders = Headers(t),
         NEW value \in HeaderValues(r, <<"Connection">>)
  PROVE  /\ KeepAlive(value) => Asks(a)
         /\ n = Len(RequestText(a)) /\ Asks(a) => KeepAlive(value)
<1> DEFINE H == Headers(t)
           F == Fields(a)
           key == <<"Connection">>
           names == {x \in DOMAIN H : Lower(x) = Lower(key)}
           h == HeadText(a)
<1>1. HeadOf(h, F) /\ Cut(t, h, Encoded(a), n) /\ Len(RequestText(a)) = Len(h) + 2 + Len(Encoded(a))
  BY CutOfRequest
<1>2. DOMAIN H \subseteq {<<x>> : x \in DOMAIN F}
  <2> HIDE DEF h, F
  <2> QED BY <1>1, HeadersOfCut
<1>3. \A x : Lower(<<x>>) = <<IF x = "Connection" THEN "connection" ELSE x>>
  <2> TAKE x
  <2>1. DOMAIN <<x>> = 1..1 /\ <<x>>[1] = x
    OBVIOUS
  <2> DEFINE y == IF x = "Connection" THEN "connection" ELSE x
  <2>2. Lower(<<x>>) = [i \in 1..1 |-> y]
    BY <2>1 DEF Lower
  <2> HIDE DEF y
  <2>3. [i \in 1..1 |-> y] = <<y>>
    OBVIOUS
  <2> QED BY <2>2, <2>3 DEF y
<1>4. Lower(key) = <<"connection">>
  BY <1>3
<1>5. \A x : Lower(<<x>>) = Lower(key) <=> x \in {"Connection", "connection"}
  <2> TAKE x
  <2>1. \A u, v : <<u>> = <<v>> <=> u = v
    OBVIOUS
  <2> DEFINE y == IF x = "Connection" THEN "connection" ELSE x
  <2>2. Lower(<<x>>) = <<y>>
    BY <1>3
  <2>3. y = "connection" <=> x \in {"Connection", "connection"}
    OBVIOUS
  <2> HIDE DEF y, key
  <2> QED BY <1>4, <2>1, <2>2, <2>3
<1>6. value \in IF names = {} THEN {<<>>} ELSE {H[x] : x \in names}
  BY DEF HeaderValues
<1>7. \A x \in {"Connection", "connection"} : x \in DOMAIN F => x = a.alive /\ Asks(a)
  <2> TAKE x \in {"Connection", "connection"}
  <2>1. x \notin {"Cookie", "Content-Type", "Content-Encoding", "Content-Length"}
    OBVIOUS
  <2>2. DOMAIN F \subseteq DOMAIN Fields1(a) \cup {"Cookie", "Content-Type", "Content-Encoding",
                                                    "Content-Length"}
    BY FieldNames
  <2>3. DOMAIN Fields1(a) = {a.alive} \ {""}
    BY FieldsDomains
  <2> HIDE DEF F
  <2> QED BY <2>1, <2>2, <2>3, Zenon DEF Asks
<1>8. ASSUME KeepAlive(value) PROVE Asks(a)
  <2>1. value # <<>>
    BY <1>8 DEF KeepAlive
  <2>2. PICK y \in DOMAIN H : Lower(y) = Lower(key)
    BY <1>6, <2>1
  <2>3. PICK x \in DOMAIN F : y = <<x>>
    BY <1>2
  <2> HIDE DEF H, F, key
  <2> QED BY <1>5, <1>7, <2>2, <2>3
<1>9. ASSUME n = Len(RequestText(a)), Asks(a) PROVE KeepAlive(value)
  <2>1. n >= Len(h)
    <3>1. IsText(h) /\ IsText(Encoded(a))
      BY <1>1, PayloadIsText DEF Cut
    <3>2. Len(h) \in Nat /\ Len(Encoded(a)) \in Nat
      BY <3>1, TextLength
    <3> HIDE DEF h
    <3> QED BY <1>1, <1>9, <3>2
  <2>2. Reads(H, F)
    <3> HIDE DEF h, F, H
    <3>1. \A e : HeadOf(h, F) /\ Cut(t, h, e, n) => Reads(Headers(t), F)
      BY <2>1, HeadersOfHead
    <3> QED BY <1>1, <3>1 DEF H
  <2>3. a.alive \in {"Connection", "connection"} /\ a.alive \in DOMAIN F
    <3>1. a.alive \in {"Connection", "connection"}
      BY <1>9, RequestsAssumption, Zenon DEF Asks
    <3>2. DOMAIN Fields1(a) = {a.alive} \ {""}
      BY FieldsDomains
    <3>3. a.alive \in DOMAIN Fields1(a)
      BY <1>9, <3>2, Zenon DEF Asks
    <3>4. DOMAIN Fields1(a) \subseteq DOMAIN F
      BY FieldSets
    <3> QED BY <3>1, <3>3, <3>4
  <2>4. F[a.alive] = <<"keep-alive">>
    BY <1>9, FieldsValues DEF Asks
  <2> DEFINE alive == a.alive
  <2>5. names = {<<alive>>}
    <3>1. DOMAIN H = {<<x>> : x \in DOMAIN F}
      BY <2>2 DEF Reads
    <3> HIDE DEF H, F, key
    <3>2. \A y \in names : y = <<alive>>
      <4> TAKE y \in names
      <4>1. PICK x \in DOMAIN F : y = <<x>>
        BY <3>1
      <4>2. x \in {"Connection", "connection"}
        BY <1>5, <4>1
      <4> QED BY <1>7, <4>1, <4>2
    <3>3. <<alive>> \in names
      BY <1>5, <2>3, <3>1
    <3> HIDE DEF names
    <3> QED BY <3>2, <3>3
  <2>6. value = H[<<alive>>]
    <3> HIDE DEF names, H
    <3> QED BY <1>6, <2>5
  <2>7. H[<<alive>>] = Sent(<<"keep-alive">>)
    <3> HIDE DEF H, F
    <3> QED BY <2>2, <2>3, <2>4 DEF Reads
  <2>8. Trim(value) = <<"keep-alive">>
    <3>1. "keep-alive" \notin White
      BY Zenon DEF White, Blank, CR, LF
    <3>2. Trim(Sent(<<"keep-alive">>)) = <<"keep-alive">>
      BY <3>1, TrimOfSent
    <3> QED BY <2>6, <2>7, <3>2, Zenon
  <2>9. value # <<>>
    <3>1. Len(Sent(<<"keep-alive">>)) = 3
      <4> DEFINE v == <<"keep-alive">>
      <4>1. IsText(v) /\ Len(v) = 1
        BY WordsAreText
      <4> HIDE DEF v
      <4>2. Len(Sent(v)) = Len(v) + 2
        BY <4>1, SentIs
      <4>3. Len(Sent(v)) = 3
        BY <4>1, <4>2
      <4> QED BY <4>3 DEF v
    <3>2. value = Sent(<<"keep-alive">>)
      BY <2>6, <2>7, Zenon
    <3>3. Len(value) = 3
      BY <3>1, <3>2, Zenon
    <3>4. Len(<<>>) # 3
      OBVIOUS
    <3> QED BY <3>3, <3>4, Zenon
  <2> QED BY <2>8, <2>9, Zenon DEF KeepAlive
<1> QED BY <1>8, <1>9

(* What the handlers return is well made, and asks to keep the connection  *)
(* only once addHeader() made it.                                          *)
Kept(r) == "Connection" \in DOMAIN r.mHeaders
(* An answer of Json() is well made. *)
LEMMA JsonIsMade ==
  ASSUME NEW status \in {200, 400}, NEW body, IsText(body), Len(body) \in 0..12
  PROVE  WellMade(Json(status, body)) /\ ~Kept(Json(status, body))
<1> DEFINE r1 == setStatusCode(DefaultResponse, status)
           r2 == addHeader(r1, "Content-Type", "application/json")
           r3 == setBody(r2, body)
           M == [n \in {"Content-Type"} \cup DOMAIN NoMap |->
                   IF n = "Content-Type" THEN "application/json" ELSE NoMap[n]]
<1>1. /\ {"mStatusCode", "mBody", "mHeaders"} \subseteq DOMAIN r1 /\ r1.mStatusCode = status
      /\ r1.mHeaders = NoMap
  BY DEF setStatusCode, DefaultResponse, Response
<1> HIDE DEF r1
<1>2. /\ {"mStatusCode", "mBody", "mHeaders"} \subseteq DOMAIN r2 /\ r2.mStatusCode = status
      /\ r2.mHeaders = M
  <2>1. r2 = [r1 EXCEPT !.mHeaders = [n \in {"Content-Type"} \cup DOMAIN r1.mHeaders |->
                IF n = "Content-Type" THEN "application/json" ELSE r1.mHeaders[n]]]
    BY DEF addHeader
  <2>2. r2 = [r1 EXCEPT !.mHeaders = M]
    BY <1>1, <2>1
  <2> HIDE DEF r2, M
  <2> QED BY <1>1, <2>2
<1>3. DOMAIN M = {"Content-Type"} /\ M["Content-Type"] = "application/json"
  BY DEF NoMap
<1> HIDE DEF r2, M
<1>4. /\ {"mStatusCode", "mBody", "mHeaders"} \subseteq DOMAIN r3
      /\ r3.mStatusCode = status /\ r3.mHeaders = M /\ r3.mBody = body
  BY <1>2 DEF setBody
<1>5. r3 = Json(status, body)
  BY DEF Json, r2, r1
<1> HIDE DEF r3
<1>6. WellMade(r3) /\ ~Kept(r3)
  <2>1. "Connection" # "Content-Type"
    OBVIOUS
  <2> QED BY <1>3, <1>4, <2>1 DEF WellMade, Kept
<1> QED BY <1>5, <1>6

(* So is the answer when no handler is found. *)
LEMMA NotFoundIsMade ==
  ASSUME NEW type, NEW body, IsText(body), Len(body) \in 0..12
  PROVE  WellMade(Response(404, type, body)) /\ ~Kept(Response(404, type, body))
<1> DEFINE r == Response(404, type, body)
<1>1. /\ {"mStatusCode", "mBody", "mHeaders"} \subseteq DOMAIN r
      /\ r.mStatusCode = 404 /\ r.mHeaders = NoMap /\ r.mBody = body
  BY DEF Response
<1>2. DOMAIN NoMap = {}
  BY DEF NoMap
<1> HIDE DEF r
<1>3. WellMade(r) /\ ~Kept(r)
  BY <1>1, <1>2 DEF WellMade, Kept
<1> QED BY <1>3 DEF r

(* It stays so when the connection is kept. *)
LEMMA HeaderKeepsMade ==
  ASSUME NEW r, WellMade(r)
  PROVE  LET s == addHeader(r, "Connection", "keep-alive") IN WellMade(s) /\ Kept(s)
<1> DEFINE R == r.mHeaders
           M == [n \in {"Connection"} \cup DOMAIN R |->
                   IF n = "Connection" THEN "keep-alive" ELSE R[n]]
           s == addHeader(r, "Connection", "keep-alive")
<1>1. s = [r EXCEPT !.mHeaders = M]
  BY DEF addHeader
<1>2. /\ DOMAIN M = {"Connection"} \cup DOMAIN R
      /\ \A x \in DOMAIN M : M[x] = "keep-alive" \/ (x \in DOMAIN R /\ M[x] = R[x])
  OBVIOUS
<1> HIDE DEF M
<1>3. /\ {"mStatusCode", "mBody", "mHeaders"} \subseteq DOMAIN s
      /\ s.mStatusCode = r.mStatusCode /\ s.mHeaders = M
      /\ s.mBody = r.mBody
  BY <1>1 DEF WellMade
<1> HIDE DEF s
<1>4. WellMade(s)
  BY <1>2, <1>3 DEF WellMade
<1>5. Kept(s)
  BY <1>2, <1>3 DEF Kept
<1> QED BY <1>4, <1>5 DEF s

(* Twelve characters for the eight bytes of a message's two blocks. *)
LEMMA SealedIs ==
  ASSUME NEW key \in Nat, NEW s \in [message : Bytes, createdAt : Bytes, id : Bytes]
  PROVE  LET body == base64Encode(encrypt(key, to_json(s))) IN IsText(body) /\ Len(body) = 12
<1> DEFINE data == to_json(s)
           sealed == encrypt(key, data)
           body == base64Encode(sealed)
<1>1. data \in Seq(Bytes) /\ Len(data) = 4
  <2>1. data \in Seq(Bytes)
    BY MessageIsReadBack
  <2> DEFINE a == <<s.message, s.createdAt>>
             b == <<s.id \div 16, s.id % 16>>
  <2>2. IsText(a) /\ IsText(b) /\ Len(a) = 2 /\ Len(b) = 2
    BY WordsAreText
  <2>3. data = a \o b
    BY DEF to_json, uuidToString
  <2> HIDE DEF a, b, data
  <2>4. Len(a \o b) = Len(a) + Len(b)
    BY <2>2, JoinIs
  <2> QED BY <2>1, <2>2, <2>3, <2>4
<1>2. sealed \in Seq(Bytes)
  BY <1>1, DecryptInvertsEncrypt
<1> HIDE DEF data
<1>3. Len(sealed) = 8
  <2> DEFINE p == Padded(data)
  <2>1. p \in Seq(Bytes) /\ Len(p) = 4 + FillOf(data) /\ Len(p) % 4 = 0 /\ FillOf(data) \in 1..4
    BY <1>1, PaddedIs DEF Block
  <2>2. Len(p) = 8 /\ DOMAIN p = 1..8
    BY <2>1, LenProperties
  <2> HIDE DEF p
  <2>3. sealed = [i \in 1..8 |-> (p[i] + key) % 256]
    BY <2>2 DEF encrypt, Shifted, p
  <2> QED BY <2>3
<1> HIDE DEF sealed
<1>4. Encodes(body, sealed)
  BY <1>2, EncodedIs
<1>5. CharCount(8) = 11 /\ FillCount(8) = 1
  BY DEF CharCount, FillCount
<1>6. IsText(body) /\ Len(body) = 12
  <2> DEFINE E == {Base64Chars[j] : j \in 1..64} \cup {"="}
  <2>1. body \in Seq(E) /\ Len(body) = CharCount(Len(sealed)) + FillCount(Len(sealed))
    BY <1>4 DEF Encodes
  <2> HIDE DEF body, E
  <2> QED BY <1>3, <1>5, <2>1, SeqIsText
<1> QED BY <1>6 DEF body, sealed, data

(* The client has a start of the answer's text, and the answer tells it to *)
(* keep the connection only if it asks for that, and always if its request *)
(* arrived.                                                                *)
Answered ==
  /\ WellMade(answer)
  /\ Kept(answer) => Asks(asked)
  /\ Arrived /\ Asks(asked) => Kept(answer)
AnswerInv ==
  /\ pc # "done" => received = <<>>
  /\ pc = "receive" \/ received # <<>> => Answered
  /\ received # <<>> =>
       \E n \in 1..Len(toString(answer)) : received = SubSeq(toString(answer), 1, n)

(* Each answer of handleRequest(). *)
LEMMA MadeAnswers ==
  /\ WellMade(SimpleAnswer) /\ ~Kept(SimpleAnswer)
  /\ WellMade(LongAnswer) /\ ~Kept(LongAnswer)
  /\ \A type, word : WellMade(Response(404, type, <<word>>)) /\ ~Kept(Response(404, type, <<word>>))
<1>1. \A body : IsText(body) /\ Len(body) \in 0..12 =>
        WellMade(Json(200, body)) /\ ~Kept(Json(200, body))
  BY JsonIsMade
<1>2. \A word : IsText(<<word>>) /\ Len(<<word>>) \in 0..12
  <2> TAKE word
  <2>1. Len(<<word>>) \in 0..12
    OBVIOUS
  <2> QED BY <2>1, WordsAreText, Zenon
<1>3. \E word : SimpleAnswer = Json(200, <<word>>)
  BY Statuses, Zenon DEF SimpleAnswer
<1>4. \E a, b, c, d, e, f, g, h : LongAnswer = Json(200, <<a, b, c, d, e, f, g, h>>)
  BY Statuses, Zenon DEF LongAnswer
<1>5. \A a, b, c, d, e, f, g, h : IsText(<<a, b, c, d, e, f, g, h>>)
                                /\ Len(<<a, b, c, d, e, f, g, h>>) \in 0..12
  <2> TAKE a, b, c, d, e, f, g, h
  <2> DEFINE words == <<a, b, c, d, e, f, g, h>>
  <2>1. words \in Seq({a, b, c, d, e, f, g, h}) /\ Len(words) = 8
    OBVIOUS
  <2> HIDE DEF words
  <2>2. IsText(words) /\ Len(words) \in 0..12
    BY <2>1, SeqIsText
  <2> QED BY <2>2 DEF words
<1>6. \A type, word : WellMade(Response(404, type, <<word>>)) /\ ~Kept(Response(404, type, <<word>>))
  <2> TAKE type, word
  <2> DEFINE body == <<word>>
  <2>1. IsText(body) /\ Len(body) \in 0..12
    BY <1>2, Zenon
  <2> HIDE DEF body
  <2>2. WellMade(Response(404, type, body)) /\ ~Kept(Response(404, type, body))
    BY <2>1, NotFoundIsMade
  <2> QED BY <2>2 DEF body
<1>7. WellMade(SimpleAnswer) /\ ~Kept(SimpleAnswer)
  BY <1>1, <1>2, <1>3, Zenon
<1>8. WellMade(LongAnswer) /\ ~Kept(LongAnswer)
  <2>1. PICK a, b, c, d, e, f, g, h : LongAnswer = Json(200, <<a, b, c, d, e, f, g, h>>)
    BY <1>4
  <2> DEFINE words == <<a, b, c, d, e, f, g, h>>
  <2>2. IsText(words) /\ Len(words) \in 0..12
    BY <1>5, Zenon
  <2>3. LongAnswer = Json(200, words)
    BY <2>1
  <2> HIDE DEF words
  <2> QED BY <1>1, <2>2, <2>3, Zenon
<1> QED BY <1>6, <1>7, <1>8

(* The secret handler's answers are well made, and keep no connection. *)
LEMMA SecretIsMade ==
  ASSUME NEW r, NEW file \in ServerFiles, NEW s \in [message : Bytes, createdAt : Bytes, id : Bytes]
  PROVE  WellMade(SecretAnswer(r, file, s)) /\ ~Kept(SecretAnswer(r, file, s))
<1>1. \A body : IsText(body) /\ Len(body) \in 0..12 =>
        /\ WellMade(Json(200, body)) /\ ~Kept(Json(200, body))
        /\ WellMade(Json(400, body)) /\ ~Kept(Json(400, body))
  BY JsonIsMade
<1>2. \A word : IsText(<<word>>) /\ Len(<<word>>) \in 0..12
  <2> TAKE word
  <2>1. Len(<<word>>) \in 0..12
    OBVIOUS
  <2> QED BY <2>1, WordsAreText, Zenon
<1> DEFINE sealed == base64Encode(encrypt(Cipher(file), to_json(s)))
<1>3. IsText(sealed) /\ Len(sealed) \in 0..12
  <2>1. IsText(sealed) /\ Len(sealed) = 12
    BY CipherIsNumber, SealedIs
  <2> HIDE DEF sealed
  <2> QED BY <2>1
<1>4. SecretAnswer(r, file, s) = Json(200, sealed)
        \/ \E word : SecretAnswer(r, file, s) = Json(400, <<word>>)
  BY Statuses, Zenon DEF SecretAnswer
<1> DEFINE made == SecretAnswer(r, file, s)
<1> HIDE DEF sealed, made
<1>5. CASE made = Json(200, sealed)
  BY <1>1, <1>3, <1>5 DEF made
<1>6. CASE \E word : made = Json(400, <<word>>)
  <2>1. PICK word : made = Json(400, <<word>>)
    BY <1>6
  <2> QED BY <1>1, <1>2, <2>1 DEF made
<1> QED BY <1>4, <1>5, <1>6 DEF made

(* Initially nothing has been answered. *)
LEMMA AnswerInvInit == Init => AnswerInv
BY DEF Init, AnswerInv

(* handleRequest() makes the answer, sendResponse() sends a start of it. *)
LEMMA AnswerInvStep ==
  ASSUME RouteInv, SecretInv', AnswerInv, [Next]_vars
  PROVE  AnswerInv'
<1>1. CASE Handle
  <2> DEFINE handler == getHandler(handlers, request.mMethod, request.mPath)
             made == CASE handler = "simple" -> SimpleAnswer
                       [] handler = "secret" -> SecretAnswer(request, keyFile', secret')
                       [] handler = "long" -> LongAnswer
                       [] OTHER -> Response(HttpResponseStatus.NOT_FOUND, "text/plain",
                                            <<"Not Found">>)
             kept == addHeader(made, "Connection", "keep-alive")
  <2>1. /\ pc = "handle" /\ pc' = "receive"
        /\ UNCHANGED <<handlers, asked, text, request, received>>
    BY <1>1 DEF Handle
  <2>2. PICK value \in HeaderValues(request, <<"Connection">>) :
          answer' = IF KeepAlive(value) THEN kept ELSE made
    BY <1>1 DEF Handle, AnswerOf
  <2>3. WellMade(made) /\ ~Kept(made)
    <3>1. CASE handler = "simple"
      BY <3>1, MadeAnswers
    <3>2. CASE handler = "secret"
      <4>1. made = SecretAnswer(request, keyFile', secret')
        BY <3>2
      <4>2. keyFile' \in ServerFiles
        BY <1>1, <3>2 DEF Handle
      <4>3. secret' \in [message : Bytes, createdAt : Bytes, id : Bytes]
        BY DEF SecretInv
      <4> HIDE DEF made
      <4> QED BY <4>1, <4>2, <4>3, SecretIsMade
    <3>3. CASE handler = "long"
      BY <3>3, MadeAnswers
    <3>4. CASE handler \notin {"simple", "secret", "long"}
      <4>1. made = Response(HttpResponseStatus.NOT_FOUND, "text/plain", <<"Not Found">>)
        BY <3>4
      <4>2. \E type, word : made = Response(404, type, <<word>>)
        BY <4>1, Statuses, ZenonT(30)
      <4> HIDE DEF made
      <4> QED BY <4>2, MadeAnswers
    <3> HIDE DEF made, handler
    <3> QED BY <3>1, <3>2, <3>3, <3>4
  <2> HIDE DEF made
  <2>4. WellMade(kept) /\ Kept(kept)
    BY <2>3, HeaderKeepsMade
  <2> HIDE DEF kept
  <2>5. asked \in Requests /\ request = ParseHttpRequest(text)
    BY <2>1 DEF RouteInv, TextInv
  <2>6. PICK n \in 1..Len(RequestText(asked)) : text = SubSeq(RequestText(asked), 1, n)
    BY <2>1 DEF RouteInv, TextInv
  <2>7. request.mHeaders = Headers(text)
    BY <2>5 DEF ParseHttpRequest
  <2>8. /\ KeepAlive(value) => Asks(asked)
        /\ n = Len(RequestText(asked)) /\ Asks(asked) => KeepAlive(value)
    BY <2>5, <2>6, <2>7, KeepAliveIs
  <2>9. Arrived => n = Len(RequestText(asked))
    <3>1. IsText(RequestText(asked))
      BY <2>5, RequestOpens DEF Opens
    <3> DEFINE t == RequestText(asked)
    <3> HIDE DEF t
    <3>2. IsText(t) /\ n \in 0..Len(t) /\ text = SubSeq(t, 1, n)
      <4>1. Len(t) \in Nat
        BY <3>1, TextLength DEF t
      <4> QED BY <2>6, <3>1, <4>1 DEF t
    <3>3. Len(text) = n
      BY <3>2, StartIs
    <3> QED BY <3>3 DEF Arrived
  <2>10. Answered'
    <3>1. Arrived' <=> Arrived
      BY <2>1 DEF Arrived
    <3>2. Asks(asked') <=> Asks(asked)
      BY <2>1
    <3>3. WellMade(answer') /\ (Kept(answer') <=> KeepAlive(value))
      BY <2>2, <2>3, <2>4
    <3> QED BY <2>8, <2>9, <3>1, <3>2, <3>3 DEF Answered
  <2> QED BY <2>1, <2>10 DEF AnswerInv
<1>2. CASE Receive
  <2>1. PICK n \in 0..Len(toString(answer)) : received' = SubSeq(toString(answer), 1, n)
    BY <1>2 DEF Receive
  <2>2. pc = "receive" /\ pc' = "done" /\ UNCHANGED <<asked, text, answer>>
    BY <1>2 DEF Receive
  <2>3. Answered'
    BY <2>2 DEF AnswerInv, Answered, Arrived
  <2>4. received' # <<>> => n # 0
    BY <2>1, CutNothing
  <2>5. received' # <<>> =>
          \E k \in 1..Len(toString(answer')) : received' = SubSeq(toString(answer'), 1, k)
    BY <2>1, <2>2, <2>4
  <2> QED BY <2>2, <2>3, <2>5 DEF AnswerInv
<1>3. CASE Register \/ Connect
  BY <1>3 DEF Register, Connect, exchangeVars, AnswerInv, Answered, Arrived
<1>4. CASE Send
  BY <1>4 DEF Send, AnswerInv
<1>5. CASE Parse
  BY <1>5 DEF Parse, AnswerInv
<1>6. CASE UNCHANGED vars
  BY <1>6 DEF vars, exchangeVars, AnswerInv, Answered, Arrived
<1> QED BY <1>1, <1>2, <1>3, <1>4, <1>5, <1>6 DEF Next

(* What the client reads in a start of an answer's text: once the blank    *)
(* line has arrived, the length the head states is the length of the body  *)
(* exactly when all of it has.                                             *)
LEMMA AnswerIsRead ==
  ASSUME NEW r, WellMade(r), NEW n \in 1..Len(toString(r)), NEW t, t = SubSeq(toString(r), 1, n)
  PROVE  LET H == Headers(t)
             blank == Find(t, Crlf \o Crlf, 1)
             body == From(t, blank + 4)
         IN /\ blank # 0 =>
                 /\ <<"Content-Length">> \in DOMAIN H
                 /\ t[3] = ToString(r.mStatusCode)
                 /\ (<<"Connection">> \in DOMAIN H <=> Kept(r))
                 /\ Trim(H[<<"Content-Length">>]) = <<ToString(Len(body))>> => body = r.mBody
            /\ n = Len(toString(r)) =>
                 /\ blank # 0
                 /\ Trim(H[<<"Content-Length">>]) = <<ToString(Len(body))>>
<1> DEFINE H == Headers(t)
           blank == Find(t, Crlf \o Crlf, 1)
           body == From(t, blank + 4)
           h == AnswerHead(r)
           e == r.mBody
           m == Len(h)
           c == n - m - 2
           whole == Len(toString(r))
           length == ToString(Len(e))
           status == ToString(r.mStatusCode)
           CL == "Content-Length"
           C == "Connection"
<1>1. PICK F : /\ HeadOf(h, F)
               /\ DOMAIN F = {CL} \cup CorsNames \cup DOMAIN r.mHeaders
               /\ F[CL] = <<length>>
  BY AnswerHeadIs
<1>2. h[3] = status
  BY AnswerHeadIs
<1>3. IsText(h) /\ IsText(e) /\ Lined(h) /\ m >= 3 /\ Len(e) \in 0..12
  BY <1>1 DEF HeadOf, Lined, WellMade
<1>4. Cut(t, h, e, n) /\ whole = m + 2 + Len(e)
  <2>1. toString(r) = h \o Crlf \o e
    BY AnswerTextIs
  <2> HIDE DEF h, e
  <2>2. n \in 1..Len(h \o Crlf \o e) /\ t = SubSeq(h \o Crlf \o e, 1, n)
    BY <2>1
  <2>3. /\ Len(h \o Crlf \o e) = Len(h) + 2 + Len(e)
        /\ Cut(SubSeq(h \o Crlf \o e, 1, n), h, e, n)
    BY <1>3, <2>2, CutOfMessage
  <2> QED BY <2>1, <2>2, <2>3
<1> HIDE DEF h, e, whole, length, status
<1>5. m \in Nat /\ n \in Nat /\ n <= whole /\ Len(e) \in Nat
  BY <1>3, <1>4, TextLength DEF whole
<1>6. blank = IF n >= m + 2 THEN m - 1 ELSE 0
  BY <1>3, <1>4, BlankLineIs
<1>7. blank # 0 <=> n >= m + 2
  <2> HIDE DEF blank, m
  <2> QED BY <1>3, <1>5, <1>6
<1>8. n = whole => blank # 0 /\ c = Len(e)
  <2> HIDE DEF blank, m
  <2> QED BY <1>4, <1>5, <1>7
<1> SUFFICES ASSUME blank # 0
             PROVE  /\ <<CL>> \in DOMAIN H
                    /\ t[3] = status
                    /\ (<<C>> \in DOMAIN H <=> Kept(r))
                    /\ Trim(H[<<CL>>]) = <<ToString(Len(body))>> => body = e
                    /\ n = whole => Trim(H[<<CL>>]) = <<ToString(Len(body))>>
  BY <1>8 DEF e, whole, status
<1>9. n >= m + 2 /\ n >= m
  <2> HIDE DEF blank, m
  <2> QED BY <1>5, <1>7
<1>10. c \in 0..Len(e) /\ body = SubSeq(e, 1, c)
  <2>1. n >= Len(h) + 2
    BY <1>9
  <2>2. /\ n - Len(h) - 2 \in 0..Len(e)
        /\ From(t, Find(t, Crlf \o Crlf, 1) + 4) = SubSeq(e, 1, n - Len(h) - 2)
    BY <1>3, <1>4, <2>1, ArrivedBody
  <2> QED BY <2>2
<1>11. IsText(body) /\ Len(body) = c
  <2> HIDE DEF body, c
  <2> QED BY <1>3, <1>10, StartIs
<1>12. DOMAIN H = {<<x>> : x \in DOMAIN F} /\ \A x \in DOMAIN F : H[<<x>>] = Sent(F[x])
  <2>1. n >= Len(h)
    BY <1>9
  <2>2. Reads(Headers(t), F)
    BY <1>1, <1>4, <2>1, HeadersOfHead
  <2> QED BY <2>2 DEF Reads
<1>13. <<CL>> \in DOMAIN H /\ H[<<CL>>] = Sent(<<length>>)
  <2> HIDE DEF H, CL
  <2> QED BY <1>1, <1>12
<1>14. <<C>> \in DOMAIN H <=> Kept(r)
  <2>1. C \in DOMAIN F <=> C \in DOMAIN r.mHeaders
    BY <1>1, WordsOfAnswer
  <2> HIDE DEF H
  <2>2. <<C>> \in DOMAIN H <=> C \in DOMAIN F
    <3>1. \A u, v : <<u>> = <<v>> <=> u = v
      OBVIOUS
    <3> HIDE DEF C
    <3> QED BY <1>12, <3>1
  <2> QED BY <2>1, <2>2 DEF Kept
<1>15. t[3] = status
  <2>1. 3 \in 1..n /\ 3 <= Len(h)
    <3> HIDE DEF h, m
    <3>1. 3 <= m
      BY <1>3, <1>5
    <3> QED BY <1>3, <1>5, <1>9, <3>1 DEF m
  <2> QED BY <1>2, <1>4, <2>1 DEF Cut
<1>16. Trim(H[<<CL>>]) = <<length>>
  <2>1. length \notin White
    <3>1. \A k \in 0..505 : ToString(k) \notin White
      BY NumbersAssumption, Zenon
    <3>2. Len(e) \in 0..505
      <4>1. Len(e) \in 0..12 /\ 0..12 \subseteq 0..505
        BY <1>3
      <4> HIDE DEF e
      <4> QED BY <4>1, ZenonT(30)
    <3> HIDE DEF e
    <3> QED BY <3>1, <3>2, Zenon DEF length
  <2> HIDE DEF H
  <2> QED BY <1>13, <2>1, TrimOfSent
<1>17. <<length>> = <<ToString(Len(body))>> <=> c = Len(e)
  <2>1. Len(e) \in 0..505 /\ c \in 0..505
    <3>1. Len(e) \in 0..12
      BY <1>3
    <3>2. c \in 0..Len(e)
      BY <1>10
    <3>3. \A x \in 0..12, y \in Nat : y \in 0..x => x \in 0..505 /\ y \in 0..505
      OBVIOUS
    <3>4. c \in Nat
      BY <3>2
    <3> HIDE DEF c
    <3> QED BY <3>1, <3>2, <3>3, <3>4, ZenonT(30)
  <2>2. ToString(Len(e)) = ToString(c) <=> Len(e) = c
    BY <2>1, NumbersAssumption
  <2>3. \A u, v : <<u>> = <<v>> <=> u = v
    OBVIOUS
  <2> HIDE DEF c, body
  <2> QED BY <1>11, <2>2, <2>3 DEF length
<1>18. c = Len(e) => body = e
  <2> HIDE DEF body, c
  <2> QED BY <1>3, <1>10, CutWhole
<1> HIDE DEF body, c, H, CL, C, blank
<1> QED BY <1>8, <1>13, <1>14, <1>15, <1>16, <1>17, <1>18

(* HttpResponse::toString, HttpRequest::keepAlive, sendResponse: for any   *)
(* requests, messages and key files, a client that believes the stated     *)
(* length takes an answer for whole exactly when it is, reads the status   *)
(* and the body the handler returned in it, and is told to keep the        *)
(* connection only if it asked to, and always if its request arrived.      *)
THEOREM AnswersAreUnderstood == Spec => []AnswerIsUnderstood
<1>1. AnswerInv => AnswerIsUnderstood
  <2> SUFFICES ASSUME AnswerInv, pc = "done" PROVE AnswerIsUnderstood
    BY DEF AnswerIsUnderstood
  <2> DEFINE told == <<"Connection">> \in DOMAIN Headers(received)
             blank == Find(received, Crlf \o Crlf, 1)
             status == ToString(answer.mStatusCode)
             asks == asked.alive # ""
  <2>0. asks <=> Asks(asked)
    BY Zenon DEF Asks
  <2> SUFFICES /\ TakenForWhole => /\ ReceivedBody = answer.mBody
                                   /\ received[3] = status
                                   /\ told => asks
                                   /\ Arrived /\ asks => told
               /\ received # <<>> /\ received = toString(answer) => TakenForWhole
    BY Zenon DEF AnswerIsUnderstood
  <2> HIDE DEF asks, told
  <2>1. CASE received = <<>>
    <3>1. blank = 0
      <4>1. \A i \in 1..Len(<<>>) : ~Occurs(<<>>, Crlf \o Crlf, i)
        OBVIOUS
      <4> QED BY <2>1, <4>1, FindNone
    <3> QED BY <2>1, <3>1 DEF TakenForWhole
  <2>2. CASE received # <<>>
    <3>1. PICK n \in 1..Len(toString(answer)) : received = SubSeq(toString(answer), 1, n)
      BY <2>2 DEF AnswerInv
    <3>2. Answered
      BY <2>2 DEF AnswerInv
    <3>3. WellMade(answer)
      BY <3>2 DEF Answered
    <3>4. /\ blank # 0 =>
               /\ <<"Content-Length">> \in DOMAIN Headers(received)
               /\ received[3] = status
               /\ (told <=> Kept(answer))
               /\ Trim(StatedLength) = <<ToString(Len(ReceivedBody))>> => ReceivedBody = answer.mBody
          /\ n = Len(toString(answer)) =>
               /\ blank # 0
               /\ Trim(StatedLength) = <<ToString(Len(ReceivedBody))>>
      BY <3>1, <3>3, AnswerIsRead DEF StatedLength, ReceivedBody, told
    <3>5. received = toString(answer) => n = Len(toString(answer))
      <4> DEFINE s == toString(answer)
      <4>1. IsText(s)
        <5>1. s = AnswerHead(answer) \o Crlf \o answer.mBody
          BY AnswerTextIs
        <5>2. IsText(AnswerHead(answer)) /\ IsText(answer.mBody) /\ IsText(Crlf)
          BY <3>3, AnswerHeadIs, WordsAreText DEF HeadOf, Lined, WellMade, Crlf
        <5> HIDE DEF s
        <5> QED BY <5>1, <5>2, ConcatIsText
      <4> HIDE DEF s
      <4>2. n \in 0..Len(s) /\ received = SubSeq(s, 1, n)
        <5>1. Len(s) \in Nat
          BY <4>1, TextLength
        <5> QED BY <3>1, <5>1 DEF s
      <4>3. Len(received) = n
        BY <4>1, <4>2, StartIs
      <4> QED BY <4>3 DEF s
    <3>6. (Kept(answer) => asks) /\ (Arrived /\ asks => Kept(answer))
      BY <2>0, <3>2 DEF Answered
    <3>7. TakenForWhole <=> /\ blank # 0
                            /\ <<"Content-Length">> \in DOMAIN Headers(received)
                            /\ Trim(StatedLength) = <<ToString(Len(ReceivedBody))>>
      BY DEF TakenForWhole
    <3> HIDE DEF blank, status
    <3> QED BY <3>4, <3>5, <3>6, <3>7, Zenon
  <2> QED BY <2>1, <2>2
<1>2. Spec => []AnswerInv
  <2>1. RouteInv /\ SecretInv' /\ AnswerInv /\ [Next]_vars => AnswerInv'
    BY AnswerInvStep
  <2>2. Spec => []SecretInv
    BY SecretInvInit, SecretInvStep, PTL DEF Spec
  <2> QED BY <2>1, <2>2, AnswerInvInit, RouteInvIsInvariant, PTL DEF Spec
<1> QED BY <1>1, <1>2, PTL

-----------------------------------------------------------------------------
(* Where the parts of a flattened sequence are. *)

(* There are s[i] lexemes before part i of t. *)
Laid(t, seqs, s) ==
  /\ s \in [1..(Len(seqs) + 1) -> Nat] /\ s[1] = 0
  /\ \A i \in 1..Len(seqs) : s[i + 1] = s[i] + Len(seqs[i])
  /\ IsText(t) /\ Len(t) = s[Len(seqs) + 1]
  /\ \A i \in 1..Len(seqs) : \A k \in 1..Len(seqs[i]) : t[s[i] + k] = seqs[i][k]

Texts(seqs) == IsText(seqs) /\ \A i \in 1..Len(seqs) : IsText(seqs[i])

(* A sequence of texts has a length, and so has each of them. *)
LEMMA TextsAre ==
  ASSUME NEW seqs, Texts(seqs)
  PROVE  /\ Len(seqs) \in Nat /\ DOMAIN seqs = 1..Len(seqs)
         /\ \A i \in 1..Len(seqs) : Len(seqs[i]) \in Nat
<1>1. Len(seqs) \in Nat /\ DOMAIN seqs = 1..Len(seqs)
  BY TextLength DEF Texts
<1>2. \A i \in 1..Len(seqs) : Len(seqs[i]) \in Nat
  BY TextLength DEF Texts
<1> QED BY <1>1, <1>2

(* FlattenSeq() lays each part after those before it. *)
LEMMA FlattenIsLaid ==
  ASSUME NEW seqs, Texts(seqs)
  PROVE  \E s : Laid(FlattenSeq(seqs), seqs, s)
<1> DEFINE n == Len(seqs)
           t == FlattenSeq(seqs)
<1>1. n \in Nat /\ \A i \in 1..n : IsText(seqs[i]) /\ Len(seqs[i]) \in Nat
  BY TextsAre DEF Texts
<1>2. PICK f : Flattens(f, seqs, n) /\ t = IF n = 0 THEN <<>> ELSE f[n]
  BY FlattenIs DEF Texts
<1> DEFINE s == [i \in 1..(n + 1) |-> IF i = 1 THEN 0 ELSE Len(f[i - 1])]
           Good(m) == /\ IsText(f[m])
                      /\ \A i \in 1..m : \A k \in 1..Len(seqs[i]) : f[m][s[i] + k] = seqs[i][k]
                      /\ \A i \in 1..m : s[i] \in Nat /\ s[i] + Len(seqs[i]) <= Len(f[m])
                      /\ Len(f[m]) = s[m] + Len(seqs[m])
<1> HIDE DEF n, t
<1>3. /\ 1 \in 1..n => f[1] = seqs[1]
      /\ \A m \in 2..n : f[m] = f[m - 1] \o seqs[m]
  <2>1. 1 \in 1..n => f[1] = seqs[1]
    BY <1>2 DEF Flattens
  <2>2. ASSUME NEW m \in 2..n PROVE f[m] = f[m - 1] \o seqs[m]
    <3>1. m \in 1..n /\ m # 1
      BY <1>1
    <3>2. f = [i \in 1..n |-> IF i = 1 THEN seqs[i] ELSE f[i - 1] \o seqs[i]]
      BY <1>2 DEF Flattens
    <3> QED BY <3>1, <3>2
  <2> QED BY <2>1, <2>2
<1>4. /\ DOMAIN s = 1..(n + 1) /\ s[1] = 0
      /\ \A i \in 1..n : s[i + 1] = Len(f[i])
  <2>1. 1 \in 1..(n + 1)
    BY <1>1
  <2>2. ASSUME NEW i \in 1..n PROVE s[i + 1] = Len(f[i])
    BY <1>1
  <2> QED BY <2>1, <2>2
<1> HIDE DEF s
<1>5. \A m \in 1..n : Good(m)
  <2> SUFFICES ASSUME \E m \in 1..n : ~Good(m) PROVE FALSE
    OBVIOUS
  <2> DEFINE S == {m \in 1..n : ~Good(m)}
  <2>1. S \in SUBSET Nat /\ S # {}
    BY <1>1
  <2>2. PICK m \in S : \A x \in S : m <= x
    <3> HIDE DEF S
    <3> QED BY <2>1, SmallestNumber
  <2>3. m \in 1..n /\ ~Good(m)
    OBVIOUS
  <2>4. CASE m = 1
    <3>1. f[1] = seqs[1] /\ IsText(seqs[1]) /\ Len(seqs[1]) \in Nat
      BY <1>1, <1>3, <2>3, <2>4
    <3>2. \A i \in 1..1 : i = 1
      OBVIOUS
    <3>3. Good(1)
      BY <1>4, <3>1, <3>2
    <3> QED BY <2>3, <2>4, <3>3
  <2>5. CASE m # 1
    <3>1. m \in 2..n /\ m - 1 \in 1..n
      BY <1>1, <2>3, <2>5
    <3>2. Good(m - 1)
      <4>1. ~(m <= m - 1)
        BY <1>1, <2>3
      <4>2. m - 1 \notin S
        BY <2>2, <4>1
      <4> QED BY <3>1, <4>2
    <3>3. f[m] = f[m - 1] \o seqs[m]
      BY <1>3, <3>1
    <3> DEFINE g == f[m - 1]
               q == seqs[m]
    <3>4. IsText(g) /\ IsText(q) /\ Len(q) \in Nat
      BY <1>1, <2>3, <3>2
    <3>5. /\ IsText(f[m]) /\ Len(f[m]) = Len(g) + Len(q) /\ Len(g) \in Nat
          /\ \A i \in 1..Len(g) : f[m][i] = g[i]
          /\ \A i \in 1..Len(q) : f[m][Len(g) + i] = q[i]
      <4> HIDE DEF g, q
      <4>1. f[m] = g \o q
        BY <3>3 DEF g, q
      <4> QED BY <3>4, <4>1, JoinIs, TextLength
    <3>6. s[m] = Len(g)
      <4>1. s[(m - 1) + 1] = Len(f[m - 1]) /\ (m - 1) + 1 = m
        BY <1>1, <1>4, <3>1
      <4> QED BY <4>1
    <3>7. ASSUME NEW i \in 1..m
          PROVE  /\ \A k \in 1..Len(seqs[i]) : f[m][s[i] + k] = seqs[i][k]
                 /\ s[i] \in Nat /\ s[i] + Len(seqs[i]) <= Len(f[m])
      <4>1. CASE i = m
        <5> HIDE DEF g, q
        <5>1. \A k \in 1..Len(q) : f[m][s[m] + k] = q[k]
          BY <3>5, <3>6
        <5>2. s[m] \in Nat /\ s[m] + Len(q) <= Len(f[m])
          BY <3>4, <3>5, <3>6
        <5> QED BY <4>1, <5>1, <5>2 DEF q
      <4>2. CASE i # m
        <5>1. i \in 1..(m - 1) /\ i \in 1..n
          BY <1>1, <2>3, <4>2
        <5>2. /\ s[i] \in Nat /\ s[i] + Len(seqs[i]) <= Len(g) /\ Len(seqs[i]) \in Nat
              /\ \A k \in 1..Len(seqs[i]) : g[s[i] + k] = seqs[i][k]
          BY <1>1, <3>2, <5>1
        <5> HIDE DEF g, q
        <5>3. ASSUME NEW k \in 1..Len(seqs[i]) PROVE f[m][s[i] + k] = seqs[i][k]
          <6>1. s[i] + k \in 1..Len(g)
            <7>1. s[i] \in Nat /\ Len(seqs[i]) \in Nat /\ s[i] + Len(seqs[i]) <= Len(g)
                  /\ Len(g) \in Nat
              BY <3>5, <5>2
            <7> QED BY ONLY <7>1, <5>3
          <6> QED BY <3>5, <5>2, <6>1
        <5>4. s[i] + Len(seqs[i]) <= Len(f[m])
          BY <3>4, <3>5, <5>2
        <5> QED BY <5>2, <5>3, <5>4
      <4> QED BY <4>1, <4>2
    <3>8. Len(f[m]) = s[m] + Len(seqs[m])
      BY <3>5, <3>6
    <3>9. Good(m)
      BY <3>5, <3>7, <3>8
    <3> QED BY <2>3, <3>9
  <2> QED BY <2>4, <2>5
<1>6. \A i \in 1..n : s[i + 1] = s[i] + Len(seqs[i]) /\ s[i] \in Nat /\ s[i + 1] \in Nat
  <2> TAKE i \in 1..n
  <2>1. Good(i) /\ i \in 1..i
    <3>1. Good(i)
      BY <1>5
    <3> HIDE DEF Good
    <3> QED BY <1>1, <3>1
  <2>2. Len(f[i]) = s[i] + Len(seqs[i]) /\ s[i] \in Nat
    BY <2>1
  <2> QED BY <1>1, <1>4, <2>2
<1>7. s \in [1..(n + 1) -> Nat]
  <2>1. ASSUME NEW i \in 1..(n + 1) PROVE s[i] \in Nat
    <3>1. CASE i = 1
      BY <1>4, <3>1
    <3>2. CASE i # 1
      <4>1. i - 1 \in 1..n /\ (i - 1) + 1 = i
        BY <1>1, <3>2
      <4> QED BY <1>6, <4>1
    <3> QED BY <3>1, <3>2
  <2>2. s = [i \in 1..(n + 1) |-> s[i]]
    BY <1>4 DEF s
  <2> QED BY <2>1, <2>2
<1>8. IsText(t) /\ Len(t) = s[n + 1]
      /\ \A i \in 1..n : \A k \in 1..Len(seqs[i]) : t[s[i] + k] = seqs[i][k]
  <2>1. CASE n = 0
    <3>1. t = <<>> /\ n + 1 = 1
      BY <1>2, <2>1
    <3>2. IsText(<<>>) /\ Len(<<>>) = 0
      BY WordsAreText
    <3>3. IsText(t) /\ Len(t) = s[n + 1]
      BY <1>4, <3>1, <3>2
    <3>4. \A i \in 1..n : FALSE
      BY <2>1
    <3> QED BY <3>3, <3>4
  <2>2. CASE n # 0
    <3>1. n \in 1..n /\ t = f[n]
      BY <1>1, <1>2, <2>2
    <3>2. Good(n) /\ s[n + 1] = Len(f[n])
      BY <1>4, <1>5, <3>1
    <3> QED BY <3>1, <3>2
  <2> QED BY <2>1, <2>2
<1>9. Laid(t, seqs, s)
  BY <1>4, <1>6, <1>7, <1>8 DEF Laid, n
<1> QED BY <1>9 DEF t

(* A part begins after the parts before it, *)
LEMMA LaidInOrder ==
  ASSUME NEW t, NEW seqs, NEW s, Texts(seqs), Laid(t, seqs, s),
         NEW i \in 1..Len(seqs), NEW j \in 1..(Len(seqs) + 1), i < j
  PROVE  s[i] + Len(seqs[i]) <= s[j]
<1> DEFINE n == Len(seqs)
           S == {x \in 1..(n + 1) : i < x /\ ~(s[i] + Len(seqs[i]) <= s[x])}
<1>1. n \in Nat /\ \A x \in 1..n : Len(seqs[x]) \in Nat
  BY TextsAre
<1>2. /\ s \in [1..(n + 1) -> Nat]
      /\ \A x \in 1..n : s[x + 1] = s[x] + Len(seqs[x])
  BY DEF Laid
<1> HIDE DEF n
<1> SUFFICES ASSUME S # {} PROVE FALSE
  BY DEF n
<1>3. S \in SUBSET Nat
  BY <1>1
<1>4. PICK m \in S : \A x \in S : m <= x
  <2> HIDE DEF S
  <2> QED BY <1>3, SmallestNumber
<1>5. i \in 1..n
  BY DEF n
<1>6. m - 1 \in 1..n /\ (m - 1) + 1 = m /\ m - 1 \in 1..(n + 1) /\ i <= m - 1
      /\ ~(m <= m - 1) /\ i \in 1..(n + 1)
  BY <1>1, <1>5
<1>7. s[m] = s[m - 1] + Len(seqs[m - 1]) /\ s[m - 1] \in Nat /\ s[i] \in Nat
      /\ Len(seqs[m - 1]) \in Nat /\ Len(seqs[i]) \in Nat
  BY <1>1, <1>2, <1>5, <1>6
<1>8. CASE m - 1 = i
  <2>1. s[i] + Len(seqs[i]) <= s[m]
    BY <1>7, <1>8
  <2> QED BY <2>1
<1>9. CASE m - 1 # i
  <2>1. i < m - 1
    BY <1>6, <1>9, <1>1, <1>5
  <2>2. s[i] + Len(seqs[i]) <= s[m - 1]
    <3>1. m - 1 \notin S
      BY <1>4, <1>6
    <3> QED BY <1>6, <2>1, <3>1
  <2>3. s[i] + Len(seqs[i]) <= s[m]
    BY ONLY <1>7, <2>2
  <2> QED BY <2>3
<1> QED BY <1>8, <1>9

(* and every lexeme is in one. *)
LEMMA LaidIsAll ==
  ASSUME NEW t, NEW seqs, NEW s, Texts(seqs), Laid(t, seqs, s), NEW p \in 1..Len(t)
  PROVE  \E i \in 1..Len(seqs) : \E k \in 1..Len(seqs[i]) :
           p = s[i] + k /\ t[p] = seqs[i][k]
<1> DEFINE n == Len(seqs)
           S == {i \in 1..(n + 1) : s[i] < p}
<1>1. n \in Nat /\ \A i \in 1..n : Len(seqs[i]) \in Nat
  BY TextsAre
<1>2. /\ s \in [1..(n + 1) -> Nat] /\ s[1] = 0 /\ Len(t) = s[n + 1]
      /\ \A i \in 1..n : s[i + 1] = s[i] + Len(seqs[i])
      /\ \A i \in 1..n : \A k \in 1..Len(seqs[i]) : t[s[i] + k] = seqs[i][k]
  BY DEF Laid
<1> HIDE DEF n
<1>3. p \in Nat /\ p >= 1 /\ ~(s[n + 1] < p)
  BY <1>1, <1>2
<1>4. 1 \in S /\ S \in SUBSET (0..(n + 1)) /\ n + 1 \in Nat /\ n + 1 \notin S
  BY <1>1, <1>2, <1>3
<1>5. Max(S) \in S /\ \A x \in S : x <= Max(S)
  <2> HIDE DEF S
  <2>1. S # {}
    BY <1>4
  <2> QED BY <1>4, <2>1, GreatestNumber
<1> DEFINE m == Max(S)
<1>6. m \in S /\ \A x \in S : x <= m
  BY <1>5
<1> HIDE DEF m
<1>7. m \in 1..n /\ m + 1 \in 1..(n + 1) /\ ~(m + 1 <= m)
  BY <1>1, <1>4, <1>6
<1>8. ~(s[m + 1] < p) /\ s[m] < p
  BY <1>6, <1>7
<1>9. s[m] \in Nat /\ Len(seqs[m]) \in Nat /\ s[m + 1] = s[m] + Len(seqs[m])
  BY <1>1, <1>2, <1>7
<1>10. p - s[m] \in 1..Len(seqs[m]) /\ p = s[m] + (p - s[m])
  BY <1>3, <1>8, <1>9
<1>11. t[p] = seqs[m][p - s[m]]
  BY <1>2, <1>7, <1>10
<1> QED BY <1>7, <1>10, <1>11 DEF n

(* A map assigned at other positions in the same order is the same. *)
Moved(I, pos, n, key, value, name, said) ==
  /\ n \in Nat /\ I \in SUBSET (0..n) /\ \A i \in I : pos[i] \in 0..n
  /\ \A i, j \in I : i < j => pos[i] < pos[j]
  /\ DOMAIN key = {pos[i] : i \in I} /\ DOMAIN name = I
  /\ \A i \in I : key[pos[i]] = name[i] /\ value[pos[i]] = said[i]

(* Assigned() depends on the order of the positions only. *)
LEMMA AssignedMoves ==
  ASSUME NEW I, NEW pos, NEW n, NEW key, NEW value, NEW name, NEW said,
         Moved(I, pos, n, key, value, name, said)
  PROVE  Assigned(key, value) = Assigned(name, said)
<1> USE DEF Moved
<1>1. Range(key) = Range(name)
  BY DEF Range
<1> DEFINE S(k) == {p \in DOMAIN key : key[p] = k}
           T(k) == {i \in DOMAIN name : name[i] = k}
<1>2. ASSUME NEW k \in Range(name) PROVE value[Max(S(k))] = said[Max(T(k))]
  <2>1. T(k) \in SUBSET (0..n) /\ T(k) # {}
    BY <1>2 DEF Range
  <2>2. S(k) \in SUBSET (0..n) /\ S(k) # {}
    BY <1>1, <1>2 DEF Range
  <2> DEFINE m == Max(T(k))
             p == Max(S(k))
  <2>3. m \in T(k) /\ \A x \in T(k) : x <= m
    <3> DEFINE R == T(k)
    <3> HIDE DEF R
    <3>1. Max(R) \in R /\ \A x \in R : x <= Max(R)
      BY <2>1, GreatestNumber DEF R
    <3> QED BY <3>1 DEF R
  <2>4. p \in S(k) /\ \A x \in S(k) : x <= p
    <3> DEFINE R == S(k)
    <3> HIDE DEF R
    <3>1. Max(R) \in R /\ \A x \in R : x <= Max(R)
      BY <2>2, GreatestNumber DEF R
    <3> QED BY <3>1 DEF R
  <2> HIDE DEF m, p
  <2>5. PICK j \in I : p = pos[j]
    BY <2>4
  <2>6. j \in T(k) /\ j <= m /\ m \in I /\ name[m] = k
    BY <2>3, <2>4, <2>5
  <2>7. pos[m] \in S(k) /\ pos[m] <= pos[j]
    BY <2>4, <2>5, <2>6
  <2>8. j = m
    <3>1. ~(j < m)
      <4>1. pos[m] \in 0..n /\ pos[j] \in 0..n
        BY <2>6
      <4>2. ~(pos[j] < pos[m])
        BY <2>7, <4>1
      <4> QED BY <2>6, <4>2
    <3>2. j \in Nat /\ m \in Nat
      BY <2>6
    <3> QED BY <2>6, <3>1, <3>2
  <2>9. value[p] = said[m]
    BY <2>5, <2>8
  <2> QED BY <2>9 DEF m, p
<1> HIDE DEF S, T
<1>3. [k \in Range(key) |-> value[Max(S(k))]] = [k \in Range(name) |-> said[Max(T(k))]]
  BY ONLY <1>1, <1>2
<1> QED BY <1>3 DEF Assigned, S, T

(* A map assigned nothing is empty. *)
LEMMA AssignedNothing ==
  ASSUME NEW key, NEW value, DOMAIN key = {}
  PROVE  Assigned(key, value) = NoMap
<1>1. Range(key) = {}
  BY DEF Range
<1> QED BY <1>1 DEF Assigned, NoMap

(* What is trimmed. *)
LEMMA TrimRightIs ==
  ASSUME NEW s, IsText(s), NEW set, NEW b \in 1..Len(s), s[b] \notin set,
         \A i \in (b + 1)..Len(s) : s[i] \in set
  PROVE  TrimRight(s, set) = SubSeq(s, 1, b)
<1>1. Len(s) \in Nat /\ DOMAIN s = 1..Len(s)
  BY TextLength
<1> DEFINE kept == {i \in DOMAIN s : s[i] \notin set}
<1>2. kept \in SUBSET (0..Len(s)) /\ b \in kept
  BY <1>1
<1>3. \A i \in kept : i <= b
  <2> TAKE i \in kept
  <2>1. i \in 1..Len(s) /\ i \notin (b + 1)..Len(s)
    BY <1>1
  <2> QED BY <1>1, <2>1
<1> HIDE DEF kept
<1>4. Max(kept) \in kept /\ \A x \in kept : x <= Max(kept)
  BY <1>1, <1>2, GreatestNumber
<1>5. Max(kept) = b
  <2>1. Max(kept) <= b /\ b <= Max(kept)
    <3>1. Max(kept) <= b
      BY <1>3, <1>4, Zenon
    <3>2. b <= Max(kept)
      BY <1>2, <1>4, Zenon
    <3> QED BY <3>1, <3>2
  <2>2. Max(kept) \in Nat
    <3>1. \A i \in kept : i \in Nat
      BY <1>1, <1>2
    <3> QED BY ONLY <1>4, <3>1
  <2> QED BY <2>1, <2>2
<1>6. kept # {}
  BY <1>2
<1> QED BY <1>5, <1>6 DEF TrimRight, kept

(* What separates is white, and different from what it separates. *)
LEMMA Blanks ==
  /\ Space \in Blank /\ Blank \subseteq White /\ CR \in White /\ LF \in White
  /\ Space # "=" /\ Space # ";" /\ "=" # ";" /\ CR # ";" /\ CR # "="
BY Zenon DEF White, Blank, Space, CR, LF

(* One cookie. *)
PairText(q, x, y) ==
  /\ IsText(q) /\ Len(q) \in 4..5
  /\ q[1] = Space /\ q[2] = x /\ q[3] = "=" /\ q[4] = y /\ (Len(q) = 5 => q[5] = CR)
  /\ x \notin White \cup {";", "="} /\ y \notin White \cup {";", "="}

(* The name and the value trimmed out of a cookie's piece. *)
LEMMA PairIsRead ==
  ASSUME NEW q, NEW x, NEW y, PairText(q, x, y)
  PROVE  /\ Contains(q, "=")
         /\ TrimRight(TrimLeft(Before(q, "="), Blank), Blank) = <<x>>
         /\ TrimRight(TrimLeft(After(q, "="), Blank), Blank \cup {CR}) = <<y>>
<1>1. /\ IsText(q) /\ Len(q) \in 4..5
      /\ q[1] = Space /\ q[2] = x /\ q[3] = "=" /\ q[4] = y /\ (Len(q) = 5 => q[5] = CR)
      /\ x \notin Blank /\ y \notin Blank /\ x # "=" /\ y # "=" /\ y # CR
  BY Blanks DEF PairText
<1>2. Contains(q, "=")
  <2>1. 3 \in 1..Len(q)
    BY <1>1
  <2> QED BY <1>1, <2>1 DEF Contains
<1> DEFINE l == SubSeq(q, 1, 2)
           r == SubSeq(q, 4, Len(q))
<1>3. Before(q, "=") = l /\ After(q, "=") = r
  <2>1. 3 \in 1..Len(q) /\ \A i \in 1..(3 - 1) : q[i] # "="
    <3>1. \A i \in 1..(3 - 1) : i = 1 \/ i = 2
      OBVIOUS
    <3>2. q[1] # "=" /\ q[2] # "="
      BY <1>1, Blanks
    <3>3. 3 \in 1..Len(q)
      BY <1>1
    <3> QED BY ONLY <3>1, <3>2, <3>3
  <2>2. Before(q, "=") = SubSeq(q, 1, 3 - 1) /\ After(q, "=") = SubSeq(q, 3 + 1, Len(q))
    BY <1>1, <2>1, SplitAt
  <2>3. 3 - 1 = 2 /\ 3 + 1 = 4
    OBVIOUS
  <2> QED BY <2>2, <2>3
<1>4. IsText(l) /\ Len(l) = 2 /\ l[1] = Space /\ l[2] = x
  <2>1. 2 \in 0..Len(q)
    BY <1>1
  <2>2. IsText(l) /\ Len(l) = 2 /\ \A i \in 1..2 : l[i] = q[i]
    BY <1>1, <2>1, StartIs
  <2> HIDE DEF l
  <2> QED BY <1>1, <2>2
<1>5. IsText(r) /\ Len(r) = Len(q) - 3 /\ r[1] = y /\ (Len(r) = 2 => r[2] = CR)
  <2>1. 4 \in 1..(Len(q) + 1) /\ Len(q) - 4 + 1 = Len(q) - 3 /\ 4 + 1 - 1 = 4 /\ 4 + 2 - 1 = 5
    BY <1>1
  <2>2. r = From(q, 4)
    BY DEF From
  <2> HIDE DEF r
  <2>3. IsText(r) /\ Len(r) = Len(q) - 4 + 1 /\ \A k \in 1..(Len(q) - 4 + 1) : r[k] = q[4 + k - 1]
    <3>1. IsText(q) /\ 4 \in 1..(Len(q) + 1)
      BY <1>1, <2>1
    <3>2. /\ IsText(From(q, 4)) /\ Len(From(q, 4)) = Len(q) - 4 + 1
          /\ \A k \in 1..(Len(q) - 4 + 1) : From(q, 4)[k] = q[4 + k - 1]
      BY ONLY <3>1, FromIs
    <3> QED BY <2>2, <3>2
  <2>4. 1 \in 1..(Len(q) - 3) /\ (Len(q) - 3 = 2 => 2 \in 1..(Len(q) - 3) /\ Len(q) = 5)
    BY <1>1
  <2> QED BY <1>1, <2>1, <2>3, <2>4
<1> HIDE DEF l, r
<1>6. TrimRight(TrimLeft(l, Blank), Blank) = <<x>>
  <2> DEFINE u == TrimLeft(l, Blank)
  <2>1. IsText(u) /\ Len(u) = 1 /\ u[1] = x
    <3> DEFINE b == 2
    <3>1. l[1] \in Blank /\ l[b] \notin Blank /\ Len(l) = b
      BY <1>1, <1>4, Blanks
    <3>2. \A i \in 1..(b - 1) : i = 1
      OBVIOUS
    <3>3. b \in 1..b /\ b - b + 1 = 1 /\ 1 \in 1..1 /\ b + 1 - 1 = b
      OBVIOUS
    <3> HIDE DEF b
    <3>4. b \in 1..Len(l) /\ \A i \in 1..(b - 1) : l[i] \in Blank
      BY <3>1, <3>2, <3>3
    <3>5. /\ IsText(u) /\ Len(u) = Len(l) - b + 1
          /\ \A i \in 1..(Len(l) - b + 1) : u[i] = l[b + i - 1]
      BY <1>4, <3>1, <3>4, TrimLeftCuts
    <3> HIDE DEF u
    <3>6. Len(u) = 1 /\ u[1] = l[b]
      BY <3>1, <3>3, <3>5
    <3> QED BY <1>4, <3>5, <3>6 DEF b
  <2> HIDE DEF u
  <2>2. 1 \in 1..Len(u) /\ u[1] \notin Blank /\ \A i \in (1 + 1)..Len(u) : u[i] \in Blank
    BY <1>1, <2>1
  <2>3. TrimRight(u, Blank) = SubSeq(u, 1, 1)
    BY <2>1, <2>2, TrimRightIs
  <2> QED BY <2>1, <2>3, OneWord DEF u
<1>7. TrimRight(TrimLeft(r, Blank), Blank \cup {CR}) = <<y>>
  <2> DEFINE u == TrimLeft(r, Blank)
  <2>0. Len(r) \in 1..2
    BY <1>1, <1>5
  <2>1. IsText(u) /\ Len(u) = Len(r) /\ u[1] = y /\ (Len(u) = 2 => u[2] = CR)
    <3>1. 1 \in 1..Len(r) /\ r[1] \notin Blank /\ \A i \in 1..(1 - 1) : r[i] \in Blank
      BY <1>1, <1>5, <2>0
    <3>2. /\ IsText(u) /\ Len(u) = Len(r) - 1 + 1
          /\ \A i \in 1..(Len(r) - 1 + 1) : u[i] = r[1 + i - 1]
      BY <1>5, <3>1, TrimLeftCuts
    <3> HIDE DEF u
    <3>3. Len(r) - 1 + 1 = Len(r) /\ 1 + 1 - 1 = 1 /\ 1 + 2 - 1 = 2
      BY <2>0
    <3> QED BY <1>5, <2>0, <3>2, <3>3
  <2> HIDE DEF u
  <2>2. 1 \in 1..Len(u) /\ u[1] \notin Blank \cup {CR}
    BY <1>1, <2>0, <2>1
  <2>3. \A i \in (1 + 1)..Len(u) : u[i] \in Blank \cup {CR}
    <3>1. \A i \in (1 + 1)..Len(u) : i = 2 /\ Len(u) = 2
      BY <2>0, <2>1
    <3> QED BY <2>1, <3>1
  <2>4. TrimRight(u, Blank \cup {CR}) = SubSeq(u, 1, 1)
    BY <2>1, <2>2, <2>3, TrimRightIs
  <2>5. SubSeq(u, 1, 1) = <<u[1]>>
    BY <2>0, <2>1, OneWord
  <2> QED BY <2>1, <2>4, <2>5 DEF u
<1> QED BY <1>2, <1>3, <1>6, <1>7

(* The value of a cookie header, as it arrives: five lexemes a cookie. *)
CookieLayout(w, cookies) ==
  /\ IsText(w) /\ Len(w) = 5 * Len(cookies)
  /\ \A i \in 1..Len(cookies) :
       /\ w[5 * i - 4] = Space /\ w[5 * i - 3] = cookies[i][1]
       /\ w[5 * i - 2] = "=" /\ w[5 * i - 1] = cookies[i][2]
       /\ w[5 * i] = IF i = Len(cookies) THEN CR ELSE ";"

CookiePart(cookies, i) ==
  (IF i = 1 THEN <<>> ELSE <<";", " ">>) \o <<cookies[i][1], "=", cookies[i][2]>>

CookieAt(q, i, x, y) ==
  /\ IsText(q)
  /\ i = 1 => Len(q) = 3 /\ q[1] = x /\ q[2] = "=" /\ q[3] = y
  /\ i # 1 => Len(q) = 5 /\ q[1] = ";" /\ q[2] = Space /\ q[3] = x /\ q[4] = "=" /\ q[5] = y

(* The lexemes of one cookie, with the separator of all but the first. *)
LEMMA CookiePartIs ==
  ASSUME NEW cookies, NEW i
  PROVE  CookieAt(CookiePart(cookies, i), i, cookies[i][1], cookies[i][2])
<1> DEFINE q == CookiePart(cookies, i)
           x == cookies[i][1]
           y == cookies[i][2]
           p == <<x, "=", y>>
           g == <<";", Space>>
<1>1. IsText(p) /\ Len(p) = 3 /\ p[1] = x /\ p[2] = "=" /\ p[3] = y
  <2>1. IsText(p)
    BY WordsAreText
  <2> QED BY <2>1
<1>2. IsText(g) /\ Len(g) = 2 /\ g[1] = ";" /\ g[2] = Space
  <2>1. IsText(g)
    BY WordsAreText
  <2> QED BY <2>1
<1>3. q = (IF i = 1 THEN <<>> ELSE g) \o p
  BY Zenon DEF CookiePart, Space
<1> HIDE DEF p, g
<1>4. CASE i = 1
  <2>1. q = <<>> \o p
    BY <1>3, <1>4
  <2>2. q = p
    BY <1>1, <2>1, JoinEmpty
  <2> HIDE DEF q, x, y
  <2> QED BY <1>1, <1>4, <2>2 DEF CookieAt, q, x, y
<1>5. CASE i # 1
  <2>1. q = g \o p
    BY <1>3, <1>5
  <2>2. /\ IsText(q) /\ Len(q) = Len(g) + Len(p)
        /\ \A k \in 1..Len(g) : q[k] = g[k]
        /\ \A k \in 1..Len(p) : q[Len(g) + k] = p[k]
    <3>1. IsText(g) /\ IsText(p)
      BY <1>1, <1>2
    <3>2. /\ IsText(g \o p) /\ Len(g \o p) = Len(g) + Len(p)
          /\ \A k \in 1..Len(g) : (g \o p)[k] = g[k]
          /\ \A k \in 1..Len(p) : (g \o p)[Len(g) + k] = p[k]
      BY <3>1, JoinIs
    <3> HIDE DEF q
    <3> QED BY <2>1, <3>2
  <2> HIDE DEF q, x, y
  <2>3. /\ Len(q) = 5 /\ q[1] = ";" /\ q[2] = Space /\ q[3] = x /\ q[4] = "=" /\ q[5] = y
    <3>1. 1 \in 1..2 /\ 2 \in 1..2 /\ 1 \in 1..3 /\ 2 \in 1..3 /\ 3 \in 1..3
          /\ 2 + 1 = 3 /\ 2 + 2 = 4 /\ 2 + 3 = 5
      OBVIOUS
    <3>2. Len(q) = 5 /\ q[1] = g[1] /\ q[2] = g[2]
      BY <1>1, <1>2, <2>2, <3>1
    <3>3. q[3] = p[1] /\ q[4] = p[2] /\ q[5] = p[3]
      BY <1>1, <1>2, <2>2, <3>1
    <3> QED BY <1>1, <1>2, <3>2, <3>3
  <2> QED BY <1>5, <2>2, <2>3 DEF CookieAt, q, x, y
<1> QED BY <1>4, <1>5

(* Cookie i of the header's value is at 5 * i - 4, after a blank. *)
LEMMA CookiesAreLaid ==
  ASSUME NEW cookies, IsText(cookies), cookies # <<>>
  PROVE  CookieLayout(Sent(CookieValue(cookies)), cookies)
<1> DEFINE n == Len(cookies)
           seqs == [i \in DOMAIN cookies |-> CookiePart(cookies, i)]
           t == CookieValue(cookies)
           w == Sent(t)
<1>1. n \in Nat /\ DOMAIN cookies = 1..n /\ n >= 1
  <2>1. n \in Nat /\ DOMAIN cookies = 1..n
    BY TextLength
  <2>2. n # 0
    BY LenProperties DEF IsText
  <2> QED BY <2>1, <2>2
<1>2. Texts(seqs) /\ Len(seqs) = n
  <2>1. IsText(seqs) /\ Len(seqs) = n
    <3>1. DOMAIN seqs = 1..n /\ seqs = [i \in 1..n |-> seqs[i]]
      BY <1>1
    <3> HIDE DEF seqs
    <3>2. IsText(seqs)
      BY <1>1, <3>1, MapIsText
    <3>3. DOMAIN seqs = 1..Len(seqs) /\ Len(seqs) \in Nat
      BY <3>2, TextLength
    <3> QED BY <1>1, <3>1, <3>2, <3>3
  <2>2. \A i \in 1..n : IsText(seqs[i])
    BY <1>1, CookiePartIs DEF CookieAt
  <2> HIDE DEF seqs, n
  <2> QED BY <2>1, <2>2 DEF Texts
<1>3. t = FlattenSeq(seqs)
  BY Zenon DEF CookieValue, CookiePart
<1>4. \A i \in 1..n : CookieAt(seqs[i], i, cookies[i][1], cookies[i][2])
  <2> TAKE i \in 1..n
  <2>1. seqs[i] = CookiePart(cookies, i)
    BY <1>1
  <2> HIDE DEF seqs
  <2> QED BY <2>1, CookiePartIs
<1> HIDE DEF n, seqs, t
<1>5. PICK s : Laid(t, seqs, s)
  BY <1>2, <1>3, FlattenIsLaid
<1>6. /\ s \in [1..(n + 1) -> Nat] /\ s[1] = 0 /\ IsText(t) /\ Len(t) = s[n + 1]
      /\ \A i \in 1..n : s[i + 1] = s[i] + Len(seqs[i])
      /\ \A i \in 1..n : \A k \in 1..Len(seqs[i]) : t[s[i] + k] = seqs[i][k]
  BY <1>2, <1>5 DEF Laid
<1>7. \A i \in 1..n : /\ i = 1 => Len(seqs[i]) = 3
                      /\ i # 1 => Len(seqs[i]) = 5
  BY <1>4 DEF CookieAt
<1>8. \A i \in 1..n : s[i + 1] = 5 * i - 2
  <2> DEFINE S == {i \in 1..n : s[i + 1] # 5 * i - 2}
  <2> SUFFICES ASSUME S # {} PROVE FALSE
    OBVIOUS
  <2>1. S \in SUBSET Nat
    BY <1>1
  <2>2. PICK m \in S : \A x \in S : m <= x
    <3> HIDE DEF S
    <3> QED BY <2>1, SmallestNumber
  <2>3. m \in 1..n /\ s[m + 1] # 5 * m - 2 /\ s[m + 1] = s[m] + Len(seqs[m])
    BY <1>6
  <2>4. CASE m = 1
    <3>1. s[1 + 1] = 0 + 3
      BY <1>6, <1>7, <2>3, <2>4
    <3>2. 0 + 3 = 5 * 1 - 2
      OBVIOUS
    <3> QED BY <2>3, <2>4, <3>1, <3>2
  <2>5. CASE m # 1
    <3>1. m - 1 \in 1..n /\ ~(m <= m - 1) /\ (m - 1) + 1 = m
      BY <1>1, <2>3, <2>5
    <3>2. m - 1 \notin S
      BY <2>2, <3>1
    <3>3. s[m] = 5 * (m - 1) - 2
      BY <3>1, <3>2
    <3>4. Len(seqs[m]) = 5
      BY <1>7, <2>3, <2>5
    <3> QED BY <2>3, <3>3, <3>4
  <2> QED BY <2>4, <2>5
<1>9. /\ IsText(w) /\ Len(w) = Len(t) + 2 /\ w[1] = Space
      /\ \A k \in 1..Len(t) : w[1 + k] = t[k]
      /\ w[Len(t) + 2] = CR
  BY <1>6, SentIs
<1> HIDE DEF w
<1>10. Len(t) = 5 * n - 2 /\ Len(w) = 5 * n
  <2>1. n \in 1..n
    BY <1>1
  <2>2. s[n + 1] = 5 * n - 2
    BY <1>8, <2>1
  <2> QED BY <1>1, <1>6, <1>9, <2>2
\* The lexemes of part i, in w.
<1>11. \A i \in 1..n : \A k \in 1..5 :
         i # 1 => w[5 * (i - 1) - 1 + k] = seqs[i][k]
  <2> SUFFICES ASSUME NEW i \in 1..n, NEW k \in 1..5, i # 1
               PROVE  w[5 * (i - 1) - 1 + k] = seqs[i][k]
    OBVIOUS
  <2>1. s[i] = 5 * (i - 1) - 2
    <3>1. i - 1 \in 1..n /\ (i - 1) + 1 = i
      BY <1>1
    <3> QED BY <1>8, <3>1
  <2>2. t[5 * (i - 1) - 2 + k] = seqs[i][k]
    BY <1>6, <1>7, <2>1
  <2>3. 5 * (i - 1) - 2 + k \in 1..Len(t)
        /\ 1 + (5 * (i - 1) - 2 + k) = 5 * (i - 1) - 1 + k
    BY <1>1, <1>10
  <2> QED BY <1>9, <2>2, <2>3
<1>12. \A k \in 1..3 : w[1 + k] = seqs[1][k]
  <2> TAKE k \in 1..3
  <2>1. 1 \in 1..n /\ Len(seqs[1]) = 3
    BY <1>1, <1>7
  <2>2. t[0 + k] = seqs[1][k]
    BY <1>6, <2>1
  <2>3. 0 + k = k /\ k \in 1..Len(t)
    BY <1>1, <1>10
  <2> QED BY <1>9, <2>2, <2>3
<1>13. ASSUME NEW i \in 1..n
       PROVE  /\ w[5 * i - 4] = Space /\ w[5 * i - 3] = cookies[i][1]
              /\ w[5 * i - 2] = "=" /\ w[5 * i - 1] = cookies[i][2]
  <2>1. CASE i = 1
    <3>1. w[2] = seqs[1][1] /\ w[3] = seqs[1][2] /\ w[4] = seqs[1][3]
      <4>1. 1 \in 1..3 /\ 2 \in 1..3 /\ 3 \in 1..3 /\ 1 + 1 = 2 /\ 1 + 2 = 3 /\ 1 + 3 = 4
        OBVIOUS
      <4> QED BY <1>12, <4>1
    <3>2. seqs[1][1] = cookies[1][1] /\ seqs[1][2] = "=" /\ seqs[1][3] = cookies[1][2]
      BY <1>1, <1>4, <2>1 DEF CookieAt
    <3>3. 5 * i - 4 = 1 /\ 5 * i - 3 = 2 /\ 5 * i - 2 = 3 /\ 5 * i - 1 = 4
      BY <2>1
    <3> QED BY <1>9, <2>1, <3>1, <3>2, <3>3
  <2>2. CASE i # 1
    <3>1. /\ seqs[i][2] = Space /\ seqs[i][3] = cookies[i][1] /\ seqs[i][4] = "="
          /\ seqs[i][5] = cookies[i][2]
      BY <1>4, <2>2 DEF CookieAt
    <3>2. /\ 5 * (i - 1) - 1 + 2 = 5 * i - 4 /\ 5 * (i - 1) - 1 + 3 = 5 * i - 3
          /\ 5 * (i - 1) - 1 + 4 = 5 * i - 2 /\ 5 * (i - 1) - 1 + 5 = 5 * i - 1
      BY <1>1
    <3>3. /\ w[5 * (i - 1) - 1 + 2] = seqs[i][2] /\ w[5 * (i - 1) - 1 + 3] = seqs[i][3]
          /\ w[5 * (i - 1) - 1 + 4] = seqs[i][4] /\ w[5 * (i - 1) - 1 + 5] = seqs[i][5]
      BY <1>11, <2>2
    <3> QED BY <3>1, <3>2, <3>3
  <2> QED BY <2>1, <2>2
<1>14. ASSUME NEW i \in 1..n PROVE w[5 * i] = IF i = n THEN CR ELSE ";"
  <2>1. CASE i = n
    <3>1. Len(t) + 2 = 5 * i
      BY <1>1, <1>10, <2>1
    <3> QED BY <1>9, <2>1, <3>1
  <2>2. CASE i # n
    <3>1. i + 1 \in 1..n /\ i + 1 # 1 /\ 5 * ((i + 1) - 1) - 1 + 1 = 5 * i /\ 1 \in 1..5
      BY <1>1, <2>2
    <3>2. w[5 * ((i + 1) - 1) - 1 + 1] = seqs[i + 1][1]
      BY <1>11, <3>1
    <3>3. seqs[i + 1][1] = ";"
      BY <1>4, <3>1 DEF CookieAt
    <3> QED BY <2>2, <3>1, <3>2, <3>3
  <2> QED BY <2>1, <2>2
<1>15. CookieLayout(w, cookies)
  BY <1>9, <1>10, <1>13, <1>14 DEF CookieLayout, n
<1> QED BY <1>15 DEF w, t

(* The pieces of a cookie header are the cookies. *)
CookieWords(cookies) ==
  \A i \in DOMAIN cookies, k \in 1..2 : cookies[i][k] \notin White \cup {";", "="}

Semi == ";"
(* The words around a cookie differ. *)
LEMMA Semis ==
  /\ CR \in White /\ Space # "=" /\ Space # Semi /\ "=" # Semi /\ CR # Semi /\ CR # "="
BY Blanks, Zenon DEF Semi

(* Each piece of the value holds one cookie. *)
LEMMA CookiePieces ==
  ASSUME NEW cookies, NEW w, IsText(cookies), cookies # <<>>, CookieLayout(w, cookies),
         CookieWords(cookies)
  PROVE  /\ Starts(w, Semi) = {5 * i - 4 : i \in 1..Len(cookies)}
         /\ \A i \in 1..Len(cookies) :
              PairText(Piece(w, 5 * i - 4, Semi), cookies[i][1], cookies[i][2])
<1> DEFINE n == Len(cookies)
<1>1. n \in Nat /\ DOMAIN cookies = 1..n /\ n >= 1
  <2>1. n \in Nat /\ DOMAIN cookies = 1..n
    BY TextLength
  <2>2. n # 0
    BY LenProperties DEF IsText
  <2> QED BY <2>1, <2>2
<1>2. /\ IsText(w) /\ Len(w) = 5 * n /\ DOMAIN w = 1..(5 * n)
      /\ \A i \in 1..n :
           /\ w[5 * i - 4] = Space /\ w[5 * i - 3] = cookies[i][1]
           /\ w[5 * i - 2] = "=" /\ w[5 * i - 1] = cookies[i][2]
           /\ w[5 * i] = IF i = n THEN CR ELSE Semi
  <2>1. /\ IsText(w) /\ Len(w) = 5 * n
        /\ \A i \in 1..n :
             /\ w[5 * i - 4] = Space /\ w[5 * i - 3] = cookies[i][1]
             /\ w[5 * i - 2] = "=" /\ w[5 * i - 1] = cookies[i][2]
             /\ w[5 * i] = IF i = n THEN CR ELSE Semi
    BY Zenon DEF CookieLayout, Semi
  <2>2. DOMAIN w = 1..Len(w)
    BY <2>1, TextLength
  <2> QED BY <2>1, <2>2
<1>3. \A i \in 1..n : /\ cookies[i][1] \notin White \cup {Semi, "="}
                      /\ cookies[i][2] \notin White \cup {Semi, "="}
  <2>1. 1 \in 1..2 /\ 2 \in 1..2
    OBVIOUS
  <2> QED BY <1>1, <2>1, Zenon DEF CookieWords, Semi
<1> HIDE DEF n
\* The only lexemes that end a piece.
<1>4. \A i \in 1..n : /\ w[5 * i - 4] # Semi /\ w[5 * i - 3] # Semi /\ w[5 * i - 2] # Semi
                      /\ w[5 * i - 1] # Semi /\ (w[5 * i] = Semi <=> i # n)
  <2> TAKE i \in 1..n
  <2>1. /\ w[5 * i - 4] = Space /\ w[5 * i - 3] = cookies[i][1]
        /\ w[5 * i - 2] = "=" /\ w[5 * i - 1] = cookies[i][2]
    BY <1>2
  <2>2. w[5 * i] = IF i = n THEN CR ELSE Semi
    BY <1>2
  <2>3. cookies[i][1] # Semi /\ cookies[i][2] # Semi
    BY <1>3
  <2>4. Space # Semi /\ "=" # Semi /\ CR # Semi
    BY Semis
  <2>5. w[5 * i] = Semi <=> i # n
    BY <2>2, <2>4
  <2> QED BY <2>1, <2>3, <2>4, <2>5
<1>5. \A p \in 1..(5 * n) : \E i \in 1..n :
        p = 5 * i - 4 \/ p = 5 * i - 3 \/ p = 5 * i - 2 \/ p = 5 * i - 1 \/ p = 5 * i
  <2> TAKE p \in 1..(5 * n)
  <2> DEFINE i == (p + 4) \div 5
  <2>1. i \in 1..n /\ (p = 5 * i - 4 \/ p = 5 * i - 3 \/ p = 5 * i - 2 \/ p = 5 * i - 1 \/ p = 5 * i)
    BY <1>1
  <2> QED BY <2>1
<1>6. Starts(w, Semi) = {5 * i - 4 : i \in 1..n}
  <2>1. ASSUME NEW p \in Starts(w, Semi) PROVE \E i \in 1..n : p = 5 * i - 4
    <3>1. p \in 1..(5 * n) /\ (p = 1 \/ w[p - 1] = Semi)
      BY <1>2 DEF Starts
    <3>2. CASE p = 1
      <4>1. 1 \in 1..n /\ 5 * 1 - 4 = 1
        BY <1>1
      <4> QED BY <3>2, <4>1
    <3>3. CASE p # 1
      <4>1. p - 1 \in 1..(5 * n) /\ w[p - 1] = Semi
        BY <1>1, <3>1, <3>3
      <4>2. PICK i \in 1..n : \/ p - 1 = 5 * i - 4 \/ p - 1 = 5 * i - 3 \/ p - 1 = 5 * i - 2
                              \/ p - 1 = 5 * i - 1 \/ p - 1 = 5 * i
        BY <1>5, <4>1
      <4>3. p - 1 = 5 * i /\ i # n
        BY <1>4, <4>1, <4>2
      <4>4. i + 1 \in 1..n /\ p = 5 * (i + 1) - 4
        BY <1>1, <3>1, <4>3
      <4> QED BY <4>4
    <3> QED BY <3>2, <3>3
  <2>2. ASSUME NEW i \in 1..n PROVE 5 * i - 4 \in Starts(w, Semi)
    <3>1. 5 * i - 4 \in DOMAIN w
      BY <1>1, <1>2
    <3>2. CASE i = 1
      <4>1. 5 * i - 4 = 1
        BY <3>2
      <4> QED BY <3>1, <4>1 DEF Starts
    <3>3. CASE i # 1
      <4>1. i - 1 \in 1..n /\ i - 1 # n /\ (5 * i - 4) - 1 = 5 * (i - 1)
        BY <1>1, <3>3
      <4>2. w[(5 * i - 4) - 1] = Semi
        BY <1>4, <4>1
      <4> QED BY <3>1, <4>2 DEF Starts
    <3> QED BY <3>2, <3>3
  <2> QED BY <2>1, <2>2
<1>7. ASSUME NEW i \in 1..n
      PROVE  PairText(Piece(w, 5 * i - 4, Semi), cookies[i][1], cookies[i][2])
  <2> DEFINE b == 5 * i - 4
             r == From(w, b)
             m == 5 * n - b + 1
             x == cookies[i][1]
             y == cookies[i][2]
  <2>1. b \in 1..(5 * n) /\ m \in Nat /\ m >= 5 /\ (i = n => m = 5)
        /\ b + 1 - 1 = b /\ b + 2 - 1 = 5 * i - 3 /\ b + 3 - 1 = 5 * i - 2
        /\ b + 4 - 1 = 5 * i - 1 /\ b + 5 - 1 = 5 * i
    BY <1>1
  <2>2. IsText(r) /\ Len(r) = m /\ \A k \in 1..m : r[k] = w[b + k - 1]
    <3>1. b \in 1..(Len(w) + 1) /\ Len(w) - b + 1 = m
      BY <1>1, <1>2, <2>1
    <3> HIDE DEF b, m
    <3>2. /\ IsText(From(w, b)) /\ Len(From(w, b)) = Len(w) - b + 1
          /\ \A k \in 1..(Len(w) - b + 1) : From(w, b)[k] = w[b + k - 1]
      BY <1>2, <3>1, FromIs
    <3> QED BY <3>1, <3>2
  <2>3. w[b] = Space /\ w[5 * i - 3] = x /\ w[5 * i - 2] = "=" /\ w[5 * i - 1] = y
        /\ w[5 * i] = IF i = n THEN CR ELSE Semi
    BY <1>2
  <2> HIDE DEF r, b, m, x, y
  <2>4. r[1] = Space /\ r[2] = x /\ r[3] = "=" /\ r[4] = y
        /\ r[5] = IF i = n THEN CR ELSE Semi
    <3>1. 1 \in 1..m /\ 2 \in 1..m /\ 3 \in 1..m /\ 4 \in 1..m /\ 5 \in 1..m
      BY <2>1
    <3>2. /\ r[1] = w[b + 1 - 1] /\ r[2] = w[b + 2 - 1] /\ r[3] = w[b + 3 - 1]
          /\ r[4] = w[b + 4 - 1] /\ r[5] = w[b + 5 - 1]
      BY <2>2, <3>1
    <3> QED BY <2>1, <2>3, <3>2
  <2>5. x \notin White \cup {Semi, "="} /\ y \notin White \cup {Semi, "="}
    BY <1>3 DEF x, y
  <2>6. \A k \in 1..4 : r[k] # Semi
    <3>1. \A k \in 1..4 : k = 1 \/ k = 2 \/ k = 3 \/ k = 4
      OBVIOUS
    <3>2. r[1] # Semi /\ r[2] # Semi /\ r[3] # Semi /\ r[4] # Semi
      BY <2>4, <2>5, Semis
    <3> QED BY ONLY <3>1, <3>2
  <2>7. CASE i = n
    <3>1. r[5] = CR /\ Len(r) = 5
      BY <2>1, <2>2, <2>4, <2>7
    <3>2. \A k \in 1..5 : r[k] # Semi
      <4>1. \A k \in 1..5 : k = 5 \/ k \in 1..4
        OBVIOUS
      <4> QED BY <2>6, <3>1, <4>1, Semis
    <3>3. Before(r, Semi) = r
      BY <2>2, <3>1, <3>2, SplitNone
    <3>4. PairText(r, x, y)
      <4>1. Len(r) \in 4..5
        BY <3>1
      <4>2. r[1] = Space /\ r[2] = x /\ r[3] = "=" /\ r[4] = y
        BY <2>4
      <4> QED BY <2>2, <2>5, <3>1, <4>1, <4>2, Zenon DEF PairText, Semi
    <3> QED BY <3>3, <3>4 DEF Piece, r, b, x, y
  <2>8. CASE i # n
    <3>1. r[5] = Semi /\ 5 \in 1..Len(r)
      BY <2>1, <2>2, <2>4, <2>8
    <3> DEFINE q == SubSeq(r, 1, 4)
    <3>2. Before(r, Semi) = q
      <4>1. \A k \in 1..(5 - 1) : r[k] # Semi
        BY <2>6
      <4>2. Before(r, Semi) = SubSeq(r, 1, 5 - 1)
        BY <2>2, <3>1, <4>1, SplitAt
      <4>3. 5 - 1 = 4
        OBVIOUS
      <4> QED BY <4>2, <4>3
    <3>3. IsText(q) /\ Len(q) = 4 /\ \A k \in 1..4 : q[k] = r[k]
      <4>1. 4 \in 0..Len(r)
        BY <2>1, <2>2
      <4> QED BY <2>2, <4>1, StartIs
    <3> HIDE DEF q
    <3>4. PairText(q, x, y)
      <4>1. q[1] = Space /\ q[2] = x /\ q[3] = "=" /\ q[4] = y
        BY <2>4, <3>3
      <4>2. Len(q) \in 4..5 /\ Len(q) # 5
        BY <3>3
      <4> QED BY <2>5, <3>3, <4>1, <4>2, Zenon DEF PairText, Semi
    <3> QED BY <3>2, <3>4 DEF Piece, r, b, x, y
  <2> QED BY <2>7, <2>8
<1> QED BY <1>6, <1>7 DEF n

(* The parser's cookies are the client's. *)
CookieNames(a) == [i \in DOMAIN a.cookies |-> <<a.cookies[i][1]>>]
CookieValues(a) == [i \in DOMAIN a.cookies |-> <<a.cookies[i][2]>>]
(* The map of cookies is the client's, the last of a name winning. *)
LEMMA CookiesAre ==
  ASSUME NEW a \in Requests, NEW H, Reads(H, Fields(a))
  PROVE  Cookies(H) = Assigned(CookieNames(a), CookieValues(a))
<1> DEFINE cookies == a.cookies
           none == cookies = <<>>
           F == Fields(a)
<1>1. Cookie \in DOMAIN H <=> ~none
  <2>1. "Cookie" \in DOMAIN F <=> ~none
    BY FieldSets
  <2> HIDE DEF F, none
  <2>2. <<"Cookie">> \in DOMAIN H <=> "Cookie" \in DOMAIN F
    BY DEF Reads, F
  <2> QED BY <2>1, <2>2 DEF Cookie
<1>2. CASE none
  <2>1. Cookies(H) = NoMap
    BY <1>1, <1>2, Zenon DEF Cookies
  <2>2. DOMAIN CookieNames(a) = {}
    BY <1>2 DEF CookieNames
  <2> QED BY <2>1, <2>2, AssignedNothing
<1>3. CASE ~none
  <2> DEFINE w == Sent(CookieValue(cookies))
             n == Len(cookies)
             pair(p) == Piece(w, p, ";")
             pairs == {p \in Starts(w, ";") : Contains(pair(p), "=")}
             key == [p \in pairs |-> TrimRight(TrimLeft(Before(pair(p), "="), Blank), Blank)]
             value == [p \in pairs |-> TrimRight(TrimLeft(After(pair(p), "="), Blank),
                                                 Blank \cup {CR})]
             pos == [i \in 1..n |-> 5 * i - 4]
  <2>1. H[Cookie] = w
    <3>1. "Cookie" \in DOMAIN F /\ F["Cookie"] = CookieValue(cookies)
      BY <1>3, FieldSets, FieldsValues
    <3> HIDE DEF F, w, cookies
    <3>2. H[<<"Cookie">>] = Sent(F["Cookie"])
      BY <3>1 DEF Reads, F
    <3> QED BY <3>1, <3>2 DEF Cookie, w
  <2>2. Cookies(H) = Assigned(key, value)
    BY <1>1, <1>3, <2>1, Zenon DEF Cookies
  <2>3. IsText(cookies) /\ cookies # <<>> /\ CookieWords(cookies)
    BY <1>3, RequestsAssumption, Zenon DEF CookieWords
  <2>4. n \in Nat /\ DOMAIN cookies = 1..n
    BY <2>3, TextLength
  <2> HIDE DEF w, cookies, none
  <2>5. CookieLayout(w, cookies)
    BY <2>3, CookiesAreLaid DEF w
  <2>6. /\ Starts(w, ";") = {5 * i - 4 : i \in 1..n}
        /\ \A i \in 1..n : PairText(pair(5 * i - 4), cookies[i][1], cookies[i][2])
    BY <2>3, <2>5, CookiePieces, Zenon DEF Semi
  <2> HIDE DEF pair
  <2>7. ASSUME NEW i \in 1..n
        PROVE  /\ Contains(pair(5 * i - 4), "=")
               /\ TrimRight(TrimLeft(Before(pair(5 * i - 4), "="), Blank), Blank) = <<cookies[i][1]>>
               /\ TrimRight(TrimLeft(After(pair(5 * i - 4), "="), Blank), Blank \cup {CR})
                    = <<cookies[i][2]>>
    BY <2>6, PairIsRead
  <2>8. pairs = {5 * i - 4 : i \in 1..n}
    BY <2>6, <2>7
  <2>9. ASSUME NEW i \in 1..n
        PROVE  key[5 * i - 4] = <<cookies[i][1]>> /\ value[5 * i - 4] = <<cookies[i][2]>>
    <3>1. 5 * i - 4 \in pairs
      BY <2>8
    <3> HIDE DEF pairs
    <3> QED BY <2>7, <3>1
  <2>10. DOMAIN key = {5 * i - 4 : i \in 1..n}
    BY <2>8
  <2> HIDE DEF pairs, key, value
  <2>11. /\ DOMAIN CookieNames(a) = 1..n
         /\ \A i \in 1..n : CookieNames(a)[i] = <<cookies[i][1]>>
                            /\ CookieValues(a)[i] = <<cookies[i][2]>>
    BY <2>4 DEF CookieNames, CookieValues, cookies
  <2>12. Moved(1..n, pos, 5 * n, key, value, CookieNames(a), CookieValues(a))
    <3>1. \A i \in 1..n : pos[i] = 5 * i - 4 /\ pos[i] \in 0..(5 * n)
      BY <2>4
    <3>2. \A i, j \in 1..n : i < j => pos[i] < pos[j]
      BY <2>4
    <3>3. 5 * n \in Nat /\ 1..n \in SUBSET (0..(5 * n))
      BY <2>4
    <3> HIDE DEF pos
    <3>4. DOMAIN key = {pos[i] : i \in 1..n}
      BY <2>10, <3>1
    <3>5. \A i \in 1..n : key[pos[i]] = CookieNames(a)[i] /\ value[pos[i]] = CookieValues(a)[i]
      BY <2>9, <2>11, <3>1
    <3> HIDE DEF n
    <3> QED BY <2>11, <3>1, <3>2, <3>3, <3>4, <3>5 DEF Moved
  <2> QED BY <2>2, <2>12, AssignedMoves
<1> QED BY <1>2, <1>3

-----------------------------------------------------------------------------
(* The text of a form. *)
Dash == "--"
Mark == "XX"
Disposition == "Content-Disposition: form-data; "
NameIs == "name=\""
Quote == "\""
Then == "; "
FileWord == "file"
FrameWords == {Mark, Disposition, NameIs, Quote, Then, FileWord}

(* The words that frame a form differ from each other. *)
LEMMA FramesDiffer ==
  /\ \A x \in FrameWords : x # Dash /\ x # CR /\ x # LF /\ x # End
  /\ CR # LF /\ Dash # CR /\ Dash # LF /\ Dash # End /\ CR # End /\ LF # End
  /\ Disposition # NameIs /\ Quote # NameIs /\ Then # NameIs /\ FileWord # NameIs
  /\ Disposition # FileWord
BY Zenon DEF FrameWords, Dash, Mark, Disposition, NameIs, Quote, Then, FileWord, CR, LF, End

\* A word of a form is no part of its frame.
Plain(x) == x # CR /\ x # LF /\ x # Dash /\ x # Quote /\ x # NameIs /\ x # End

(* The words of a form are not those that frame it. *)
LEMMA FormWords ==
  ASSUME NEW a \in Requests, NEW i \in DOMAIN a.form
  PROVE  /\ IsText(a.form[i].lines) /\ a.form[i].lines # <<>>
         /\ Plain(a.form[i].name) /\ Plain(a.form[i].file)
         /\ \A k \in DOMAIN a.form[i].lines : Plain(a.form[i].lines[k])
<1> DEFINE f == a.form[i]
<1>1. IsText(f.lines)
  BY RequestsAssumption, Zenon
<1>2. /\ f.lines # <<>>
      /\ \A word \in {f.name, f.file} \cup ToSet(f.lines) :
           word \notin White \cup {"--", "\"", "name=\"", "end"}
  BY FormsAssumption, Zenon
<1> HIDE DEF f
<1>3. ASSUME NEW word \in {f.name, f.file} \cup ToSet(f.lines) PROVE Plain(word)
  <2>1. word \notin White \cup {"--", "\"", "name=\"", "end"}
    BY <1>2, Zenon
  <2> QED BY <2>1, Blanks, Zenon DEF Plain, Dash, Quote, NameIs, End
<1>4. \A k \in DOMAIN f.lines : f.lines[k] \in ToSet(f.lines)
  BY Zenon DEF ToSet
<1> QED BY <1>1, <1>2, <1>3, <1>4, Zenon DEF f

(* The lines of a part: the first, and then either nothing or a line break. *)
LinesText(t, line) ==
  /\ IsText(t) /\ (Len(t) = 1 \/ Len(t) >= 4) /\ t[1] = line
  /\ Len(t) >= 4 => t[2] = CR /\ t[3] = LF
  /\ Free(t, {Dash, End})

(* The first line comes first, and only line breaks may follow it. *)
LEMMA JoinedIs ==
  ASSUME NEW lines, IsText(lines), lines # <<>>, \A k \in DOMAIN lines : Plain(lines[k])
  PROVE  LinesText(Joined(lines), lines[1])
<1> DEFINE n == Len(lines)
           part(i) == IF i = 1 THEN <<lines[i]>> ELSE Crlf \o <<lines[i]>>
           seqs == [i \in DOMAIN lines |-> part(i)]
           t == Joined(lines)
<1>1. n \in Nat /\ DOMAIN lines = 1..n /\ n >= 1
  <2>1. n \in Nat /\ DOMAIN lines = 1..n
    BY TextLength
  <2>2. n # 0
    BY LenProperties DEF IsText
  <2> QED BY <2>1, <2>2
<1>2. \A i \in 1..n : /\ i = 1 => IsText(part(i)) /\ Len(part(i)) = 1 /\ part(i)[1] = lines[1]
                      /\ i # 1 => /\ IsText(part(i)) /\ Len(part(i)) = 3
                                  /\ part(i)[1] = CR /\ part(i)[2] = LF
                      /\ Free(part(i), {Dash, End})
  <2> TAKE i \in 1..n
  <2> DEFINE w == <<lines[i]>>
  <2>1. IsText(w) /\ Len(w) = 1 /\ w[1] = lines[i]
    BY WordsAreText
  <2>2. IsText(Crlf) /\ Len(Crlf) = 2 /\ Crlf[1] = CR /\ Crlf[2] = LF
    BY WordsAreText DEF Crlf
  <2>3. Free(w, {Dash, End}) /\ Free(Crlf, {Dash, End})
    <3>1. lines[i] \notin {Dash, End} /\ CR \notin {Dash, End} /\ LF \notin {Dash, End}
      BY <1>1, FramesDiffer DEF Plain
    <3> QED BY <3>1, WordsAreFree DEF Crlf
  <2> HIDE DEF w
  <2>4. /\ IsText(Crlf \o w) /\ Len(Crlf \o w) = 3
        /\ (Crlf \o w)[1] = CR /\ (Crlf \o w)[2] = LF /\ Free(Crlf \o w, {Dash, End})
    <3>1. /\ IsText(Crlf \o w) /\ Len(Crlf \o w) = Len(Crlf) + Len(w)
          /\ \A k \in 1..Len(Crlf) : (Crlf \o w)[k] = Crlf[k]
      BY <2>1, <2>2, JoinIs
    <3>2. 1 \in 1..2 /\ 2 \in 1..2
      OBVIOUS
    <3>3. Free(Crlf \o w, {Dash, End})
      BY <2>1, <2>2, <2>3, JoinIsFree
    <3> QED BY <2>1, <2>2, <3>1, <3>2, <3>3
  <2>5. CASE i = 1
    <3>1. part(i) = w
      BY <2>5 DEF w
    <3> HIDE DEF part
    <3> QED BY <2>1, <2>3, <2>5, <3>1
  <2>6. CASE i # 1
    <3>1. part(i) = Crlf \o w
      BY <2>6 DEF w
    <3> HIDE DEF part
    <3> QED BY <2>4, <2>6, <3>1
  <2> QED BY <2>5, <2>6
<1>3. t = FlattenSeq(seqs)
  BY Zenon DEF Joined
<1> HIDE DEF part
<1>4. IsText(seqs) /\ Len(seqs) = n /\ \A i \in 1..n : seqs[i] = part(i)
  <2>1. DOMAIN seqs = 1..n /\ seqs = [i \in 1..n |-> seqs[i]]
    BY <1>1
  <2>2. \A i \in 1..n : seqs[i] = part(i)
    BY <1>1
  <2> HIDE DEF seqs
  <2>3. IsText(seqs)
    BY <1>1, <2>1, MapIsText
  <2>4. DOMAIN seqs = 1..Len(seqs) /\ Len(seqs) \in Nat
    BY <2>3, TextLength
  <2> QED BY <1>1, <2>1, <2>2, <2>3, <2>4
<1> HIDE DEF seqs, n, t
<1>5. Texts(seqs)
  BY <1>2, <1>4 DEF Texts
<1>6. PICK s : Laid(t, seqs, s)
  BY <1>3, <1>5, FlattenIsLaid
<1>7. /\ s[1] = 0 /\ IsText(t) /\ Len(t) = s[n + 1]
      /\ \A i \in 1..n : s[i + 1] = s[i] + Len(seqs[i])
      /\ \A i \in 1..n : \A k \in 1..Len(seqs[i]) : t[s[i] + k] = seqs[i][k]
  BY <1>4, <1>6 DEF Laid
<1>8. 1 \in 1..n /\ Len(seqs[1]) = 1 /\ seqs[1][1] = lines[1]
  BY <1>1, <1>2, <1>4
<1>9. s[2] = 1 /\ t[1] = lines[1]
  <2>1. s[1 + 1] = 0 + 1 /\ 1 \in 1..1 /\ 0 + 1 = 1 /\ 1 + 1 = 2
    BY <1>7, <1>8
  <2>2. t[0 + 1] = lines[1]
    BY <1>7, <1>8, <2>1
  <2> QED BY <2>1, <2>2
<1>10. Free(t, {Dash, End})
  <2>1. \A i \in DOMAIN seqs : IsText(seqs[i]) /\ Free(seqs[i], {Dash, End})
    <3>1. DOMAIN seqs = 1..n
      BY <1>4, TextLength
    <3> QED BY <1>2, <1>4, <3>1
  <2> QED BY <1>3, <1>4, <2>1, FlattenIsFree
<1>11. CASE n = 1
  <2>1. Len(t) = 1
    BY <1>7, <1>9, <1>11
  <2>2. ~(Len(t) >= 4)
    BY <2>1
  <2> QED BY <1>7, <1>9, <1>10, <2>1, <2>2, Zenon DEF LinesText, t
<1>12. CASE n # 1
  <2>1. 2 \in 1..n /\ 2 # 1
    BY <1>1, <1>12
  <2>2. Len(seqs[2]) = 3 /\ seqs[2][1] = CR /\ seqs[2][2] = LF
    BY <1>2, <1>4, <2>1
  <2>3. s[2] + Len(seqs[2]) <= s[n + 1]
    <3>1. n + 1 \in 1..(n + 1) /\ 2 < n + 1
      BY <1>1, <2>1
    <3> QED BY <1>4, <1>5, <1>6, <2>1, <3>1, LaidInOrder
  <2>4. Len(t) >= 4
    <3>1. Len(t) \in Nat /\ 1 + 3 <= Len(t)
      BY <1>7, <1>9, <2>2, <2>3, TextLength
    <3> QED BY <3>1
  <2>5. t[2] = CR /\ t[3] = LF
    <3>1. 1 \in 1..3 /\ 2 \in 1..3 /\ 1 + 1 = 2 /\ 1 + 2 = 3
      OBVIOUS
    <3>2. t[1 + 1] = CR /\ t[1 + 2] = LF
      BY <1>7, <1>9, <2>1, <2>2, <3>1
    <3> QED BY <3>1, <3>2
  <2> QED BY <1>7, <1>9, <1>10, <2>4, <2>5, Zenon DEF LinesText, t
<1> QED BY <1>11, <1>12

(* What is framed holds the mark of a part at its start only. *)
Frame(g) == /\ IsText(g) /\ Len(g) >= 1 /\ g[1] = Dash
            /\ \A k \in 2..Len(g) : g[k] \notin {Dash, End}
Grown(h, g, t) == /\ Frame(h) /\ Len(h) = Len(g) + Len(t)
                  /\ \A k \in 1..Len(g) : h[k] = g[k]
                  /\ \A k \in 1..Len(t) : h[Len(g) + k] = t[k]

(* Words put after a frame that hold no mark leave it a frame. *)
LEMMA FrameGrows ==
  ASSUME NEW g, NEW t, Frame(g), IsText(t), Free(t, {Dash, End})
  PROVE  Grown(g \o t, g, t)
<1> DEFINE h == g \o t
<1>1. IsText(g) /\ Len(g) >= 1 /\ g[1] = Dash /\ \A k \in 2..Len(g) : g[k] \notin {Dash, End}
  BY DEF Frame
<1>2. /\ IsText(h) /\ Len(h) = Len(g) + Len(t)
      /\ \A k \in 1..Len(g) : h[k] = g[k]
      /\ \A k \in 1..Len(t) : h[Len(g) + k] = t[k]
  BY <1>1, JoinIs
<1>3. Len(g) \in Nat /\ Len(t) \in Nat
  BY <1>1, TextLength
<1> HIDE DEF h
<1>4. ASSUME NEW k \in 2..Len(h) PROVE h[k] \notin {Dash, End}
  <2>1. CASE k <= Len(g)
    <3>1. k \in 2..Len(g) /\ k \in 1..Len(g)
      BY <1>3, <2>1
    <3> QED BY <1>1, <1>2, <3>1
  <2>2. CASE ~(k <= Len(g))
    <3>1. k - Len(g) \in 1..Len(t) /\ Len(g) + (k - Len(g)) = k
      BY <1>2, <1>3, <2>2
    <3>2. h[k] = t[k - Len(g)]
      BY <1>2, <3>1
    <3> QED BY <3>1, <3>2 DEF Free
  <2> QED BY <2>1, <2>2
<1>5. 1 \in 1..Len(g) /\ Len(h) >= 1
  BY <1>1, <1>2, <1>3
<1>6. Frame(h)
  <2>1. h[1] = Dash
    BY <1>1, <1>2, <1>5
  <2> QED BY <1>2, <1>4, <1>5, <2>1, Zenon DEF Frame
<1> QED BY <1>2, <1>6, Zenon DEF Grown, h

(* The text of a part: what frames it, its name, its file's name and its     *)
(* first line.                                                               *)
HasFile(f) == f.file # ""
HeadSize(f) == IF HasFile(f) THEN 10 ELSE 5
FieldWords(f) == <<Disposition, NameIs, f.name, Quote>>
FileWords(f) == <<Then, FileWord, NameIs, f.file, Quote>>
PartLayout(q, f, m) ==
  /\ Frame(q) /\ (Len(q) = m + 10 \/ Len(q) >= m + 12)
  /\ q[2] = Mark /\ q[3] = CR
  /\ q[4] = LF /\ q[5] = Disposition /\ q[6] = NameIs /\ q[7] = f.name /\ q[8] = Quote
  /\ HasFile(f) => /\ q[9] = Then /\ q[10] = FileWord /\ q[11] = NameIs
                   /\ q[12] = f.file /\ q[13] = Quote
  /\ q[m + 4] = CR /\ q[m + 5] = LF /\ q[m + 6] = CR /\ q[m + 7] = LF
  /\ q[m + 8] = f.lines[1] /\ q[m + 9] = CR /\ q[m + 10] = LF

(* The words of a part's head hold no mark. *)
LEMMA WordsOfForm ==
  ASSUME NEW f, Plain(f.name), Plain(f.file)
  PROVE  /\ IsText(FieldWords(f)) /\ Len(FieldWords(f)) = 4 /\ Free(FieldWords(f), {Dash, End})
         /\ IsText(FileWords(f)) /\ Len(FileWords(f)) = 5 /\ Free(FileWords(f), {Dash, End})
         /\ IsText(Crlf) /\ Len(Crlf) = 2 /\ Crlf[1] = CR /\ Crlf[2] = LF
         /\ Free(Crlf, {Dash, End})
<1>1. /\ f.name \notin {Dash, End} /\ f.file \notin {Dash, End}
      /\ CR \notin {Dash, End} /\ LF \notin {Dash, End}
      /\ \A x \in FrameWords : x \notin {Dash, End}
  BY FramesDiffer DEF Plain
<1>2. /\ Disposition \in FrameWords /\ NameIs \in FrameWords /\ Quote \in FrameWords
      /\ Then \in FrameWords /\ FileWord \in FrameWords
  BY Zenon DEF FrameWords
<1> DEFINE x == f.name
           y == f.file
           u == <<Disposition, NameIs, x, Quote>>
           v == <<Then, FileWord, NameIs, y, Quote>>
<1> HIDE DEF x, y
<1>3. IsText(u) /\ Len(u) = 4 /\ \A k \in 1..4 : u[k] \in {Disposition, NameIs, x, Quote}
  <2>1. u \in Seq({Disposition, NameIs, x, Quote})
    OBVIOUS
  <2>2. IsText(u)
    <3> HIDE DEF u
    <3> QED BY <2>1, SeqIsText
  <2> QED BY <2>2
<1>4. IsText(v) /\ Len(v) = 5 /\ \A k \in 1..5 : v[k] \in {Then, FileWord, NameIs, y, Quote}
  <2>1. v \in Seq({Then, FileWord, NameIs, y, Quote})
    OBVIOUS
  <2>2. IsText(v)
    <3> HIDE DEF v
    <3> QED BY <2>1, SeqIsText
  <2> QED BY <2>2
<1>5. Free(u, {Dash, End}) /\ Free(v, {Dash, End})
  <2>1. \A k \in 1..4 : u[k] \notin {Dash, End}
    <3> HIDE DEF u
    <3> QED BY <1>1, <1>2, <1>3 DEF x
  <2>2. \A k \in 1..5 : v[k] \notin {Dash, End}
    <3> HIDE DEF v
    <3> QED BY <1>1, <1>2, <1>4 DEF y
  <2> HIDE DEF u, v
  <2> QED BY <1>3, <1>4, <2>1, <2>2 DEF Free
<1>6. /\ IsText(Crlf) /\ Len(Crlf) = 2 /\ Crlf[1] = CR /\ Crlf[2] = LF
      /\ Free(Crlf, {Dash, End})
  BY <1>1, WordsAreText, WordsAreFree DEF Crlf
<1> HIDE DEF u, v
<1> QED BY <1>3, <1>4, <1>5, <1>6 DEF FieldWords, FileWords, u, v, x, y

(* What FormPart() writes, lexeme by lexeme. *)
LEMMA FormPartIs ==
  ASSUME NEW f, Plain(f.name), Plain(f.file), IsText(f.lines), f.lines # <<>>,
         \A k \in DOMAIN f.lines : Plain(f.lines[k])
  PROVE  PartLayout(FormPart(f), f, HeadSize(f))
<1> DEFINE g0 == <<Dash, Mark>>
           words == FieldWords(f)
           more == IF HasFile(f) THEN FileWords(f) ELSE <<>>
           lines == Joined(f.lines)
           line == f.lines[1]
           g1 == g0 \o Crlf
           g2 == g1 \o words
           g3 == g2 \o more
           g4 == g3 \o Crlf
           g5 == g4 \o Crlf
           g6 == g5 \o lines
           q == g6 \o Crlf
           m == HeadSize(f)
<1>1. FormPart(f) = q
  BY Zenon DEF FormPart, HasFile, FieldWords, FileWords, Dash, Mark, Disposition, NameIs, Quote,
               Then, FileWord
<1>2. /\ IsText(words) /\ Len(words) = 4 /\ Free(words, {Dash, End})
      /\ IsText(Crlf) /\ Len(Crlf) = 2 /\ Crlf[1] = CR /\ Crlf[2] = LF
      /\ Free(Crlf, {Dash, End})
  BY WordsOfForm
<1>3. /\ words[1] = Disposition /\ words[2] = NameIs /\ words[3] = f.name /\ words[4] = Quote
  BY DEF FieldWords
<1>4. /\ IsText(more) /\ Free(more, {Dash, End}) /\ Len(more) = m - 5 /\ m \in {5, 10}
      /\ HasFile(f) => /\ m = 10 /\ more[1] = Then /\ more[2] = FileWord /\ more[3] = NameIs
                       /\ more[4] = f.file /\ more[5] = Quote
  <2>1. CASE HasFile(f)
    <3>1. more = FileWords(f) /\ m = 10
      BY <2>1 DEF HeadSize
    <3>2. /\ FileWords(f)[1] = Then /\ FileWords(f)[2] = FileWord /\ FileWords(f)[3] = NameIs
          /\ FileWords(f)[4] = f.file /\ FileWords(f)[5] = Quote
      BY DEF FileWords
    <3>3. IsText(FileWords(f)) /\ Len(FileWords(f)) = 5 /\ Free(FileWords(f), {Dash, End})
      BY WordsOfForm
    <3> HIDE DEF more, m
    <3> QED BY <3>1, <3>2, <3>3
  <2>2. CASE ~HasFile(f)
    <3>1. more = <<>> /\ m = 5
      BY <2>2 DEF HeadSize
    <3>2. IsText(<<>>) /\ Len(<<>>) = 0 /\ Free(<<>>, {Dash, End})
      BY WordsAreText, WordsAreFree
    <3> HIDE DEF more, m
    <3> QED BY <2>2, <3>1, <3>2
  <2> QED BY <2>1, <2>2
<1>5. LinesText(lines, line)
  BY JoinedIs
<1>6. /\ IsText(lines) /\ (Len(lines) = 1 \/ Len(lines) >= 4) /\ lines[1] = line
      /\ Len(lines) >= 4 => lines[2] = CR /\ lines[3] = LF
      /\ Free(lines, {Dash, End})
  BY <1>5, Zenon DEF LinesText
<1>7. Frame(g0) /\ Len(g0) = 2 /\ g0[1] = Dash /\ g0[2] = Mark
  <2>1. IsText(g0) /\ Len(g0) = 2 /\ g0[1] = Dash /\ g0[2] = Mark
    BY WordsAreText
  <2>2. Mark \notin {Dash, End}
    BY FramesDiffer, Zenon DEF FrameWords
  <2>3. \A k \in 2..2 : k = 2
    OBVIOUS
  <2> HIDE DEF g0
  <2> QED BY <2>1, <2>2, <2>3 DEF Frame
<1> HIDE DEF words, more, lines, line, m, g0
<1>8. Grown(g1, g0, Crlf)
  BY <1>2, <1>7, FrameGrows
<1> HIDE DEF g1
<1>9. Grown(g2, g1, words)
  <2>1. Frame(g1)
    BY <1>8 DEF Grown
  <2> QED BY <1>2, <2>1, FrameGrows
<1> HIDE DEF g2
<1>10. Grown(g3, g2, more)
  <2>1. Frame(g2)
    BY <1>9 DEF Grown
  <2> QED BY <1>4, <2>1, FrameGrows
<1> HIDE DEF g3
<1>11. Grown(g4, g3, Crlf)
  <2>1. Frame(g3)
    BY <1>10 DEF Grown
  <2> QED BY <1>2, <2>1, FrameGrows
<1> HIDE DEF g4
<1>12. Grown(g5, g4, Crlf)
  <2>1. Frame(g4)
    BY <1>11 DEF Grown
  <2> QED BY <1>2, <2>1, FrameGrows
<1> HIDE DEF g5
<1>13. Grown(g6, g5, lines)
  <2>1. Frame(g5)
    BY <1>12 DEF Grown
  <2> QED BY <1>6, <2>1, FrameGrows
<1> HIDE DEF g6
<1>14. Grown(q, g6, Crlf)
  <2>1. Frame(g6)
    BY <1>13 DEF Grown
  <2> QED BY <1>2, <2>1, FrameGrows
<1> HIDE DEF q
<1> DEFINE c == Len(lines)
<1>15. /\ Len(g0) = 2 /\ Len(g1) = 4 /\ Len(g2) = 8 /\ Len(g3) = m + 3 /\ Len(g4) = m + 5
       /\ Len(g5) = m + 7 /\ Len(g6) = m + 7 + c /\ Len(q) = m + 9 + c
       /\ c \in Nat /\ m \in {5, 10} /\ (c = 1 \/ c >= 4)
  <2>1. Len(g1) = 2 + 2 /\ Len(g2) = Len(g1) + 4 /\ Len(g3) = Len(g2) + (m - 5)
        /\ Len(g4) = Len(g3) + 2 /\ Len(g5) = Len(g4) + 2 /\ Len(g6) = Len(g5) + c
        /\ Len(q) = Len(g6) + 2
    BY <1>2, <1>4, <1>7, <1>8, <1>9, <1>10, <1>11, <1>12, <1>13, <1>14 DEF Grown
  <2>2. c \in Nat
    BY <1>6, TextLength
  <2> HIDE DEF c
  <2>3. m \in {5, 10}
    BY <1>4
  <2> QED BY <1>6, <1>7, <2>1, <2>2, <2>3 DEF c
<1> HIDE DEF c
\* What a part of the chain holds, the whole holds.
<1>16. /\ \A k \in 1..(m + 7 + c) : q[k] = g6[k]
       /\ \A k \in 1..(m + 7) : g6[k] = g5[k]
       /\ \A k \in 1..(m + 5) : g5[k] = g4[k]
       /\ \A k \in 1..(m + 3) : g4[k] = g3[k]
       /\ \A k \in 1..8 : g3[k] = g2[k]
       /\ \A k \in 1..4 : g2[k] = g1[k]
       /\ \A k \in 1..2 : g1[k] = g0[k]
  BY <1>8, <1>9, <1>10, <1>11, <1>12, <1>13, <1>14, <1>15 DEF Grown
<1>17. /\ g1[2 + 1] = CR /\ g1[2 + 2] = LF
       /\ \A k \in 1..4 : g2[4 + k] = words[k]
       /\ \A k \in 1..(m - 5) : g3[8 + k] = more[k]
       /\ g4[m + 3 + 1] = CR /\ g4[m + 3 + 2] = LF
       /\ g5[m + 5 + 1] = CR /\ g5[m + 5 + 2] = LF
       /\ \A k \in 1..c : g6[m + 7 + k] = lines[k]
       /\ q[m + 7 + c + 1] = CR /\ q[m + 7 + c + 2] = LF
  <2>1. 1 \in 1..2 /\ 2 \in 1..2
    OBVIOUS
  <2>2. g1[2 + 1] = CR /\ g1[2 + 2] = LF
    BY <1>2, <1>8, <1>15, <2>1 DEF Grown
  <2>3. \A k \in 1..4 : g2[4 + k] = words[k]
    BY <1>2, <1>9, <1>15 DEF Grown
  <2>4. \A k \in 1..(m - 5) : g3[8 + k] = more[k]
    BY <1>4, <1>10, <1>15 DEF Grown
  <2>5. g4[m + 3 + 1] = CR /\ g4[m + 3 + 2] = LF
    BY <1>2, <1>11, <1>15, <2>1 DEF Grown
  <2>6. g5[m + 5 + 1] = CR /\ g5[m + 5 + 2] = LF
    BY <1>2, <1>12, <1>15, <2>1 DEF Grown
  <2>7. \A k \in 1..c : g6[m + 7 + k] = lines[k]
    BY <1>13, <1>15 DEF Grown, c
  <2>8. q[m + 7 + c + 1] = CR /\ q[m + 7 + c + 2] = LF
    BY <1>2, <1>14, <1>15, <2>1 DEF Grown
  <2> QED BY <2>2, <2>3, <2>4, <2>5, <2>6, <2>7, <2>8
<1>18. q[2] = Mark /\ q[3] = CR /\ q[4] = LF
  <2>1. /\ \A k \in 1..4 : k \in 1..(m + 7 + c) /\ k \in 1..(m + 7) /\ k \in 1..(m + 5)
                           /\ k \in 1..(m + 3) /\ k \in 1..8
        /\ 2 \in 1..2 /\ 2 \in 1..4 /\ 3 \in 1..4 /\ 4 \in 1..4 /\ 2 + 1 = 3 /\ 2 + 2 = 4
    BY <1>15
  <2>2. \A k \in 1..4 : q[k] = g1[k]
    BY <1>16, <2>1
  <2> QED BY <1>7, <1>16, <1>17, <2>1, <2>2
<1>19. q[5] = Disposition /\ q[6] = NameIs /\ q[7] = f.name /\ q[8] = Quote
  <2>1. \A k \in 5..8 : k \in 1..(m + 7 + c) /\ k \in 1..(m + 7) /\ k \in 1..(m + 5)
                        /\ k \in 1..(m + 3) /\ k \in 1..8
    BY <1>15
  <2>2. \A k \in 5..8 : q[k] = g2[k]
    BY <1>16, <2>1
  <2>3. /\ 1 \in 1..4 /\ 2 \in 1..4 /\ 3 \in 1..4 /\ 4 \in 1..4
        /\ 4 + 1 = 5 /\ 4 + 2 = 6 /\ 4 + 3 = 7 /\ 4 + 4 = 8
        /\ 5 \in 5..8 /\ 6 \in 5..8 /\ 7 \in 5..8 /\ 8 \in 5..8
    OBVIOUS
  <2>4. g2[4 + 1] = words[1] /\ g2[4 + 2] = words[2] /\ g2[4 + 3] = words[3] /\ g2[4 + 4] = words[4]
    BY <1>17, <2>3
  <2> QED BY <1>3, <2>2, <2>3, <2>4
<1>20. HasFile(f) => /\ q[9] = Then /\ q[10] = FileWord /\ q[11] = NameIs
                     /\ q[12] = f.file /\ q[13] = Quote
  <2> SUFFICES ASSUME HasFile(f) PROVE /\ q[9] = Then /\ q[10] = FileWord /\ q[11] = NameIs
                                       /\ q[12] = f.file /\ q[13] = Quote
    OBVIOUS
  <2>0. m = 10
    BY <1>4
  <2>1. \A k \in 9..13 : k \in 1..(m + 7 + c) /\ k \in 1..(m + 7) /\ k \in 1..(m + 5)
                         /\ k \in 1..(m + 3)
    BY <1>15, <2>0
  <2>2. \A k \in 9..13 : q[k] = g3[k]
    BY <1>16, <2>1
  <2>3. /\ 1 \in 1..(m - 5) /\ 2 \in 1..(m - 5) /\ 3 \in 1..(m - 5) /\ 4 \in 1..(m - 5)
        /\ 5 \in 1..(m - 5)
        /\ 8 + 1 = 9 /\ 8 + 2 = 10 /\ 8 + 3 = 11 /\ 8 + 4 = 12 /\ 8 + 5 = 13
        /\ 9 \in 9..13 /\ 10 \in 9..13 /\ 11 \in 9..13 /\ 12 \in 9..13 /\ 13 \in 9..13
    BY <2>0
  <2>4. /\ g3[8 + 1] = more[1] /\ g3[8 + 2] = more[2] /\ g3[8 + 3] = more[3]
        /\ g3[8 + 4] = more[4] /\ g3[8 + 5] = more[5]
    BY <1>17, <2>3
  <2> QED BY <1>4, <2>2, <2>3, <2>4
<1>21. q[m + 4] = CR /\ q[m + 5] = LF /\ q[m + 6] = CR /\ q[m + 7] = LF
  <2>1. /\ m + 3 + 1 = m + 4 /\ m + 3 + 2 = m + 5 /\ m + 5 + 1 = m + 6 /\ m + 5 + 2 = m + 7
        /\ m + 4 \in 1..(m + 5) /\ m + 5 \in 1..(m + 5)
        /\ \A k \in (m + 4)..(m + 7) : k \in 1..(m + 7) /\ k \in 1..(m + 7 + c)
        /\ m + 4 \in (m + 4)..(m + 7) /\ m + 5 \in (m + 4)..(m + 7)
        /\ m + 6 \in (m + 4)..(m + 7) /\ m + 7 \in (m + 4)..(m + 7)
    BY <1>15
  <2>2. \A k \in (m + 4)..(m + 7) : q[k] = g5[k]
    BY <1>16, <2>1
  <2>3. g5[m + 4] = CR /\ g5[m + 5] = LF
    BY <1>16, <1>17, <2>1
  <2> QED BY <1>17, <2>1, <2>2, <2>3
<1>22. q[m + 8] = line /\ q[m + 9] = CR /\ q[m + 10] = LF
  <2>1. \A k \in 1..c : q[m + 7 + k] = lines[k]
    <3> TAKE k \in 1..c
    <3>1. m + 7 + k \in 1..(m + 7 + c)
      BY <1>15
    <3> QED BY <1>16, <1>17, <3>1
  <2>2. 1 \in 1..c /\ m + 7 + 1 = m + 8 /\ m + 7 + 2 = m + 9 /\ m + 7 + 3 = m + 10
    BY <1>15
  <2>3. CASE c = 1
    <3>1. m + 7 + c + 1 = m + 9 /\ m + 7 + c + 2 = m + 10
      BY <1>15, <2>3
    <3> QED BY <1>6, <1>17, <2>1, <2>2, <3>1
  <2>4. CASE c # 1
    <3>1. 2 \in 1..c /\ 3 \in 1..c /\ c >= 4
      BY <1>15, <2>4
    <3> QED BY <1>6, <2>1, <2>2, <3>1 DEF c
  <2> QED BY <2>3, <2>4
<1>23. Frame(q) /\ (Len(q) = m + 10 \/ Len(q) >= m + 12)
  BY <1>14, <1>15 DEF Grown
<1>24. PartLayout(q, f, m)
  BY <1>18, <1>19, <1>20, <1>21, <1>22, <1>23, Zenon DEF PartLayout, line
<1> QED BY <1>1, <1>24 DEF m

(* Two characters occur where both stand. *)
LEMMA OccursTwo ==
  ASSUME NEW s, IsText(s), NEW c, NEW d, NEW i \in 1..Len(s)
  PROVE  Occurs(s, <<c, d>>, i) <=> i + 1 <= Len(s) /\ s[i] = c /\ s[i + 1] = d
<1>1. Len(s) \in Nat
  BY TextLength
<1> DEFINE p == <<c, d>>
<1>2. Len(p) = 2 /\ p[1] = c /\ p[2] = d
  OBVIOUS
<1> HIDE DEF p
<1>3. Occurs(s, p, i) <=> i + 2 - 1 <= Len(s) /\ \A k \in 1..2 : s[i + k - 1] = p[k]
  BY <1>2 DEF Occurs
<1>4. (\A k \in 1..2 : s[i + k - 1] = p[k]) <=> s[i + 1 - 1] = p[1] /\ s[i + 2 - 1] = p[2]
  <2>1. 1..2 = {1, 2}
    OBVIOUS
  <2> QED BY <2>1
<1>5. i + 1 - 1 = i /\ i + 2 - 1 = i + 1
  OBVIOUS
<1>6. Occurs(s, p, i) <=> i + 1 <= Len(s) /\ s[i] = c /\ s[i + 1] = d
  BY <1>2, <1>3, <1>4, <1>5
<1> QED BY <1>6 DEF p

(* A part, as handleMultipartFormData() cuts it out of the body. *)
PartText(p, f, m) ==
  /\ IsText(p) /\ m \in 5..10 /\ (Len(p) = m + 5 \/ Len(p) >= m + 7)
  /\ p[1] = LF /\ p[2] = Disposition /\ p[3] = NameIs /\ p[4] = f.name /\ p[5] = Quote
  /\ HasFile(f) => /\ p[6] = Then /\ p[7] = FileWord /\ p[8] = NameIs
                   /\ p[9] = f.file /\ p[10] = Quote
  /\ p[m + 1] = CR /\ p[m + 2] = LF /\ p[m + 3] = CR /\ p[m + 4] = LF
  /\ p[m + 5] = f.lines[1] /\ (Len(p) >= m + 7 => p[m + 6] = CR /\ p[m + 7] = LF)
  /\ Plain(f.name) /\ Plain(f.file) /\ Plain(f.lines[1])

\* Its first line, from the break to the carriage return.
PartWords(h, f) ==
  /\ IsText(h) /\ Len(h) = IF HasFile(f) THEN 10 ELSE 5
  /\ h[1] = LF /\ h[2] = Disposition /\ h[3] = NameIs /\ h[4] = f.name /\ h[5] = Quote
  /\ HasFile(f) => /\ h[6] = Then /\ h[7] = FileWord /\ h[8] = NameIs
                   /\ h[9] = f.file /\ h[10] = Quote

(* No word of a part's head breaks a line. *)
LEMMA HeadWordsAre ==
  ASSUME NEW p, NEW f, PartText(p, f, HeadSize(f))
  PROVE  LET m == HeadSize(f)
         IN /\ m \in {5, 10} /\ (HasFile(f) <=> m = 10)
            /\ \A k \in 2..m : p[k] # CR /\ p[k] # LF
<1> DEFINE m == HeadSize(f)
<1>1. m \in {5, 10} /\ (HasFile(f) <=> m = 10)
  BY DEF HeadSize
<1>2. \A x \in FrameWords : x # CR /\ x # LF
  BY FramesDiffer, Zenon
<1>3. /\ Disposition \in FrameWords /\ NameIs \in FrameWords /\ Quote \in FrameWords
      /\ Then \in FrameWords /\ FileWord \in FrameWords
  BY Zenon DEF FrameWords
<1> HIDE DEF m
<1>4. ASSUME NEW k \in 2..m PROVE p[k] # CR /\ p[k] # LF
  <2>1. p[2] # CR /\ p[3] # CR /\ p[4] # CR /\ p[5] # CR
        /\ p[2] # LF /\ p[3] # LF /\ p[4] # LF /\ p[5] # LF
    BY <1>2, <1>3, Zenon DEF PartText, Plain
  <2>2. m = 10 => /\ p[6] # CR /\ p[7] # CR /\ p[8] # CR /\ p[9] # CR /\ p[10] # CR
                  /\ p[6] # LF /\ p[7] # LF /\ p[8] # LF /\ p[9] # LF /\ p[10] # LF
    BY <1>1, <1>2, <1>3, Zenon DEF PartText, Plain
  <2>3. k \in 2..5 \/ (m = 10 /\ k \in 6..10)
    BY <1>1
  <2>4. \A x \in 2..5 : x = 2 \/ x = 3 \/ x = 4 \/ x = 5
    OBVIOUS
  <2>5. \A x \in 6..10 : x = 6 \/ x = 7 \/ x = 8 \/ x = 9 \/ x = 10
    OBVIOUS
  <2>6. CASE k \in 2..5
    BY <2>1, <2>4, <2>6, Zenon
  <2>7. CASE m = 10 /\ k \in 6..10
    BY <2>2, <2>5, <2>7, Zenon
  <2> QED BY <2>3, <2>6, <2>7, Zenon
<1> QED BY <1>1, <1>4 DEF m

(* The first empty line of a part is the one after its head. *)
LEMMA BlankOfPart ==
  ASSUME NEW p, NEW f, PartText(p, f, HeadSize(f))
  PROVE  Find(p, Crlf \o Crlf, 1) = HeadSize(f) + 1
<1> DEFINE m == HeadSize(f)
           blank == Crlf \o Crlf
<1>1. m \in {5, 10} /\ \A k \in 2..m : p[k] # CR
  BY HeadWordsAre
<1>2. IsText(p) /\ Len(p) >= m + 5 /\ Len(p) \in Nat
  <2>1. IsText(p) /\ (Len(p) = m + 5 \/ Len(p) >= m + 7)
    BY DEF PartText
  <2>2. Len(p) \in Nat
    BY <2>1, TextLength
  <2> HIDE DEF m
  <2> QED BY <1>1, <2>1, <2>2
<1>3. p[1] = LF /\ p[m + 1] = CR /\ p[m + 2] = LF /\ p[m + 3] = CR /\ p[m + 4] = LF
  BY DEF PartText
<1> HIDE DEF m, blank
<1>4. m + 1 \in 1..Len(p) /\ m + 1 + 3 <= Len(p) /\ m + 1 + 1 = m + 2 /\ m + 1 + 2 = m + 3
      /\ m + 1 + 3 = m + 4
  BY <1>1, <1>2
<1>5. Occurs(p, blank, m + 1)
  BY <1>2, <1>3, <1>4, OccursBlank DEF blank
<1>6. ASSUME NEW i \in 1..((m + 1) - 1) PROVE ~Occurs(p, blank, i)
  <2>1. i \in 1..Len(p) /\ (i = 1 \/ i \in 2..m)
    BY <1>1, <1>2
  <2>2. p[i] # CR
    BY <1>1, <1>3, <2>1, FramesDiffer
  <2> QED BY <1>2, <2>1, <2>2, OccursBlank DEF blank
<1>7. 1 \in Nat \ {0}
  OBVIOUS
<1>8. Find(p, blank, 1) = m + 1
  BY <1>2, <1>4, <1>5, <1>6, <1>7, FindIs
<1> QED BY <1>8 DEF m, blank

(* Its content is its first line, *)
LEMMA PartBodyIs ==
  ASSUME NEW p, NEW f, PartText(p, f, HeadSize(f))
  PROVE  PartBody(p) = <<f.lines[1]>>
<1> DEFINE m == HeadSize(f)
           blank == Find(p, Crlf \o Crlf, 1)
           rest == From(p, blank + 4)
           end == Find(rest, Crlf, 1)
           line == f.lines[1]
<1>1. blank = m + 1 /\ m \in {5, 10}
  BY BlankOfPart, HeadWordsAre
<1>2. /\ IsText(p) /\ (Len(p) = m + 5 \/ Len(p) >= m + 7) /\ Len(p) \in Nat
      /\ p[m + 5] = line /\ (Len(p) >= m + 7 => p[m + 6] = CR /\ p[m + 7] = LF)
      /\ line # CR
  <2>1. IsText(p)
    BY DEF PartText
  <2> QED BY <2>1, TextLength DEF PartText, Plain
<1>3. PartBody(p) = IF end = 0 THEN rest ELSE SubSeq(rest, 1, end - 1)
  <2>1. blank # 0
    <3> HIDE DEF m, blank
    <3> QED BY <1>1
  <2> QED BY <2>1, Zenon DEF PartBody
<1> HIDE DEF m, blank, line
<1> DEFINE n == Len(p) - (m + 5) + 1
<1>4. blank + 4 = m + 5 /\ m + 5 \in 1..(Len(p) + 1) /\ n \in Nat /\ (n = 1 \/ n >= 3)
      /\ (n >= 3 <=> Len(p) >= m + 7)
      /\ m + 5 + 1 - 1 = m + 5 /\ m + 5 + 2 - 1 = m + 6 /\ m + 5 + 3 - 1 = m + 7
  BY <1>1, <1>2
<1>5. IsText(rest) /\ Len(rest) = n /\ \A k \in 1..n : rest[k] = p[m + 5 + k - 1]
  <2>1. rest = From(p, m + 5)
    BY <1>4
  <2> HIDE DEF rest
  <2>2. /\ IsText(rest) /\ Len(rest) = Len(p) - (m + 5) + 1
        /\ \A k \in 1..(Len(p) - (m + 5) + 1) : rest[k] = p[m + 5 + k - 1]
    BY ONLY <1>2, <1>4, <2>1, FromIs
  <2> QED BY <2>2
<1> HIDE DEF rest, n
<1>6. rest[1] = line
  <2>1. 1 \in 1..n
    BY <1>4
  <2> QED BY <1>2, <1>4, <1>5, <2>1
<1>7. SubSeq(rest, 1, 1) = <<line>>
  <2>1. Len(rest) >= 1
    BY <1>4, <1>5
  <2> QED BY <1>5, <1>6, <2>1, OneWord
<1> HIDE DEF end
<1>8. CASE n = 1
  <2>1. end = 0
    <3>1. \A i \in 1..Len(rest) : i = 1
      BY <1>5, <1>8
    <3>2. 1 \in 1..Len(rest)
      BY <1>5, <1>8
    <3>3. ~Occurs(rest, <<CR, LF>>, 1)
      BY <1>2, <1>5, <1>6, <3>2, OccursTwo
    <3>4. \A i \in 1..Len(rest) : ~Occurs(rest, Crlf, i)
      BY <3>1, <3>3, Zenon DEF Crlf
    <3> QED BY <3>4, FindNone DEF end
  <2>2. rest = SubSeq(rest, 1, 1)
    BY <1>5, <1>8, CutWhole
  <2> QED BY <1>3, <1>7, <2>1, <2>2 DEF line
<1>9. CASE n # 1
  <2>1. n >= 3 /\ 2 \in 1..n /\ 3 \in 1..n /\ 1 \in 1..n
    BY <1>4, <1>9
  <2>2. rest[2] = CR /\ rest[3] = LF
    BY <1>2, <1>4, <1>5, <2>1
  <2>3. end = 2
    <3>1. ~Occurs(rest, <<CR, LF>>, 1)
      BY <1>2, <1>5, <1>6, <2>1, OccursTwo
    <3>2. Occurs(rest, <<CR, LF>>, 2)
      <4>1. 2 + 1 = 3 /\ 2 + 1 <= Len(rest) /\ 2 \in 1..Len(rest)
        BY <1>5, <2>1
      <4> QED BY <1>5, <2>2, <4>1, OccursTwo
    <3>3. /\ \A i \in 1..(2 - 1) : i = 1
          /\ 1 \in Nat \ {0} /\ 2 \in 1..Len(rest)
      BY <1>5, <2>1
    <3>4. \A i \in 1..(2 - 1) : ~Occurs(rest, Crlf, i)
      BY <3>1, <3>3, Zenon DEF Crlf
    <3>5. Occurs(rest, Crlf, 2)
      BY <3>2, Zenon DEF Crlf
    <3> QED BY <1>5, <3>3, <3>4, <3>5, FindIs DEF end
  <2>4. end # 0 /\ end - 1 = 1
    BY <2>3
  <2> QED BY <1>3, <1>7, <2>4 DEF line
<1> QED BY <1>8, <1>9

(* and its header line the words of its head.                              *)
LEMMA PartHeadIs ==
  ASSUME NEW p, NEW f, PartText(p, f, HeadSize(f))
  PROVE  PartWords(PartHead(p), f)
<1> DEFINE m == HeadSize(f)
           s == SubSeq(p, 1, m)
<1>1. /\ m \in {5, 10} /\ (HasFile(f) <=> m = 10)
      /\ \A k \in 2..m : p[k] # CR /\ p[k] # LF
  BY HeadWordsAre
<1>2. Find(p, Crlf \o Crlf, 1) = m + 1
  BY BlankOfPart
<1>3. /\ IsText(p) /\ p[1] = LF
      /\ (Len(p) = m + 5 \/ Len(p) >= m + 7) /\ Len(p) \in Nat
  <2>1. IsText(p)
    BY DEF PartText
  <2> QED BY <2>1, TextLength DEF PartText
<1>4. PartHead(p) = Before(s, CR)
  <2> DEFINE blank == Find(p, Crlf \o Crlf, 1)
  <2>1. PartHead(p) = Before(IF blank = 0 THEN p ELSE SubSeq(p, 1, blank - 1), CR)
    BY Zenon DEF PartHead
  <2> HIDE DEF blank, m
  <2>2. blank # 0 /\ blank - 1 = m
    <3>1. blank = m + 1
      BY <1>2 DEF blank
    <3> QED BY <1>1, <3>1
  <2> QED BY <2>1, <2>2
<1> HIDE DEF m
<1>5. IsText(s) /\ Len(s) = m /\ \A k \in 1..m : s[k] = p[k]
  <2>1. m \in 0..Len(p)
    BY <1>1, <1>3
  <2> QED BY <1>3, <2>1, StartIs
<1> HIDE DEF s
<1>6. \A k \in 1..Len(s) : s[k] # CR
  <2> TAKE k \in 1..Len(s)
  <2>1. k \in 1..m /\ (k = 1 \/ k \in 2..m)
    BY <1>1, <1>5
  <2> QED BY <1>1, <1>3, <1>5, <2>1, FramesDiffer
<1>7. PartHead(p) = s
  BY <1>4, <1>5, <1>6, SplitNone
<1>8. /\ s[1] = p[1] /\ s[2] = p[2] /\ s[3] = p[3] /\ s[4] = p[4] /\ s[5] = p[5]
      /\ m = 10 => /\ s[6] = p[6] /\ s[7] = p[7] /\ s[8] = p[8] /\ s[9] = p[9] /\ s[10] = p[10]
  <2>1. 1 \in 1..m /\ 2 \in 1..m /\ 3 \in 1..m /\ 4 \in 1..m /\ 5 \in 1..m
    BY <1>1
  <2>2. m = 10 => 6 \in 1..m /\ 7 \in 1..m /\ 8 \in 1..m /\ 9 \in 1..m /\ 10 \in 1..m
    BY <1>1
  <2> QED BY <1>5, <2>1, <2>2
<1>9. Len(s) = IF HasFile(f) THEN 10 ELSE 5
  <2>1. m = IF m = 10 THEN 10 ELSE 5
    BY <1>1
  <2> QED BY <1>1, <1>5, <2>1
<1> QED BY <1>1, <1>5, <1>7, <1>8, <1>9, Zenon DEF PartWords, PartText, m

(* The word in quotes after a key. *)
LEMMA QuotedIs ==
  ASSUME NEW h, IsText(h), NEW key, NEW b, NEW c \in 1..Len(h), Find(h, key, 1) = b,
         b # 0, b + Len(key) = c, c + 1 <= Len(h), h[c + 1] = Quote, h[c] # Quote
  PROVE  Quoted(h, key) = <<h[c]>>
<1> DEFINE r == From(h, c)
           w == h[c]
<1>1. Quoted(h, key) = Before(r, Quote)
  <2>1. Quoted(h, key) = LET p == Find(h, key, 1)
                         IN IF p = 0 THEN <<"garbled">> ELSE Before(From(h, p + Len(key)), Quote)
    BY Zenon DEF Quoted, Quote
  <2> QED BY <2>1, Zenon
<1>2. Len(h) \in Nat
  BY TextLength
<1>3. /\ IsText(r) /\ Len(r) = Len(h) - c + 1
      /\ \A k \in 1..(Len(h) - c + 1) : r[k] = h[c + k - 1]
  <2>1. c \in 1..(Len(h) + 1)
    BY <1>2
  <2> QED BY <2>1, FromIs
<1> HIDE DEF r
<1>4. Len(r) >= 2 /\ r[1] = w /\ r[2] = Quote
  <2>1. 1 \in 1..(Len(h) - c + 1) /\ 2 \in 1..(Len(h) - c + 1) /\ c + 1 - 1 = c /\ c + 2 - 1 = c + 1
    BY <1>2
  <2> QED BY <1>3, <2>1
<1>5. Before(r, Quote) = SubSeq(r, 1, 1)
  <2>1. 2 \in 1..Len(r) /\ (\A i \in 1..(2 - 1) : i = 1) /\ 2 - 1 = 1
    BY <1>2, <1>3, <1>4
  <2>2. \A i \in 1..(2 - 1) : r[i] # Quote
    BY <1>4, <2>1
  <2>3. Before(r, Quote) = SubSeq(r, 1, 2 - 1)
    BY <1>3, <1>4, <2>1, <2>2, SplitAt
  <2> QED BY <2>1, <2>3
<1>6. SubSeq(r, 1, 1) = <<w>>
  <2>1. Len(r) >= 1
    BY <1>2, <1>3, <1>4
  <2> QED BY <1>3, <1>4, <2>1, OneWord
<1> QED BY <1>1, <1>5, <1>6

(* A part is read as it was meant, and never refused.                      *)
LEMMA PartIsRead ==
  ASSUME NEW p, NEW f, PartText(p, f, HeadSize(f))
  PROVE  /\ PartBody(p) = <<f.lines[1]>>
         /\ IsFile(p) <=> HasFile(f)
         /\ ~HasFile(f) => FieldName(p) = <<f.name>>
         /\ HasFile(f) => FileName(p) = <<f.file>>
         /\ ~PartThrows(p)
<1> DEFINE h == PartHead(p)
           field == <<NameIs>>
           key == <<FileWord, NameIs>>
<1>1. PartWords(h, f)
  BY PartHeadIs
<1>2. /\ IsText(h) /\ (HasFile(f) => Len(h) = 10) /\ (~HasFile(f) => Len(h) = 5)
      /\ h[1] = LF /\ h[2] = Disposition /\ h[3] = NameIs /\ h[4] = f.name /\ h[5] = Quote
      /\ HasFile(f) => /\ h[6] = Then /\ h[7] = FileWord /\ h[8] = NameIs
                       /\ h[9] = f.file /\ h[10] = Quote
  BY <1>1, Zenon DEF PartWords
<1>3. f.name # NameIs /\ f.name # Quote /\ f.file # Quote
  BY Zenon DEF PartText, Plain
<1>4. /\ IsFile(p) <=> Find(h, key, 1) # 0
      /\ FieldName(p) = Quoted(h, field) /\ FileName(p) = Quoted(h, key)
      /\ PartThrows(p) => Find(p, Crlf \o Crlf, 1) = 0 \/ Find(h, field, 1) = 0
  BY Zenon DEF IsFile, FieldName, FileName, NameIs, FileWord, PartThrows
<1> HIDE DEF h
<1>5. Len(field) = 1 /\ Len(key) = 2
  OBVIOUS
<1>6. /\ \A i \in 1..Len(h) : Occurs(h, field, i) <=> h[i] = NameIs
      /\ \A i \in 1..Len(h) :
           Occurs(h, key, i) <=> i + 1 <= Len(h) /\ h[i] = FileWord /\ h[i + 1] = NameIs
  BY <1>2, OccursOne, OccursTwo
<1> HIDE DEF key, field
<1>7. Find(h, field, 1) = 3
  <2>1. Len(h) >= 5
    BY <1>2
  <2>2. 3 \in 1..Len(h) /\ 2 \in 1..Len(h) /\ 1 \in 1..Len(h)
        /\ (\A i \in 1..(3 - 1) : i = 1 \/ i = 2) /\ 1 \in Nat \ {0}
    BY <1>2
  <2>3. Occurs(h, field, 3) /\ ~Occurs(h, field, 2) /\ ~Occurs(h, field, 1)
    <3>1. LF # NameIs /\ Disposition # NameIs
      BY FramesDiffer DEF FrameWords
    <3> QED BY <1>2, <1>6, <2>2, <3>1
  <2>4. \A i \in 1..(3 - 1) : ~Occurs(h, field, i)
    BY <2>2, <2>3, Zenon
  <2> QED BY <1>2, <2>2, <2>3, <2>4, FindIs
<1>8. ~PartThrows(p)
  <2>1. Find(p, Crlf \o Crlf, 1) # 0
    <3>1. HeadSize(f) + 1 # 0
      BY HeadWordsAre
    <3> QED BY <3>1, BlankOfPart
  <2>2. Find(h, field, 1) # 0
    BY <1>7
  <2> QED BY <1>4, <2>1, <2>2
<1>9. CASE ~HasFile(f)
  <2>1. Len(h) = 5
    BY <1>2, <1>9
  <2>3. Quoted(h, field) = <<f.name>>
    <3> DEFINE c == 4
               b == 3
    <3>1. c \in 1..Len(h) /\ c + 1 <= Len(h) /\ b # 0 /\ b + 1 = c /\ c + 1 = 5
      BY <2>1
    <3>2. h[c] = f.name /\ h[c + 1] = Quote /\ Find(h, field, 1) = b
      BY <1>2, <1>7, <3>1
    <3> HIDE DEF b, c
    <3> QED BY <1>2, <1>3, <1>5, <3>1, <3>2, QuotedIs
  <2>4. Find(h, key, 1) = 0
    <3>1. \A i \in 1..Len(h) : ~(i + 1 <= Len(h) /\ h[i] = FileWord /\ h[i + 1] = NameIs)
      <4> SUFFICES ASSUME NEW i \in 1..Len(h), i + 1 <= Len(h), h[i] = FileWord, h[i + 1] = NameIs
                   PROVE  FALSE
        OBVIOUS
      <4>1. i = 1 \/ i = 2 \/ i = 3 \/ i = 4
        BY <2>1
      <4>2. CASE i = 1
        <5>1. h[1] = FileWord
          BY <4>2
        <5> QED BY <1>2, <5>1, FramesDiffer DEF FrameWords
      <4>3. CASE i = 2
        BY <1>2, <4>3, FramesDiffer
      <4>4. CASE i = 3
        <5>1. h[4] = NameIs
          BY <4>4
        <5> QED BY <1>2, <1>3, <5>1
      <4>5. CASE i = 4
        <5>1. h[5] = NameIs
          BY <4>5
        <5> QED BY <1>2, <5>1, FramesDiffer
      <4> QED BY <4>1, <4>2, <4>3, <4>4, <4>5
    <3>2. \A i \in 1..Len(h) : ~Occurs(h, key, i)
      BY <1>6, <3>1
    <3> QED BY <3>2, FindNone
  <2> QED BY <1>4, <1>8, <1>9, <2>3, <2>4, PartBodyIs
<1>10. CASE HasFile(f)
  <2>1. Len(h) = 10
    BY <1>2, <1>10
  <2>2. Find(h, key, 1) = 7
    <3>1. 7 \in 1..Len(h) /\ 1 \in Nat \ {0} /\ 7 + 1 = 8 /\ 7 + 1 <= Len(h)
      BY <2>1
    <3>2. Occurs(h, key, 7)
      BY <1>2, <1>6, <1>10, <3>1
    <3>3. ASSUME NEW i \in 1..(7 - 1) PROVE ~Occurs(h, key, i)
      <4>1. i \in 1..Len(h) /\ (i = 1 \/ i = 2 \/ i = 3 \/ i = 4 \/ i = 5 \/ i = 6)
        BY <2>1
      <4>2. h[i] # FileWord \/ h[i + 1] # NameIs
        <5>1. CASE i = 1
          <6>1. h[i] = LF
            BY <1>2, <5>1
          <6> QED BY <6>1, FramesDiffer DEF FrameWords
        <5>2. CASE i = 2
          BY <1>2, <5>2, FramesDiffer
        <5>3. CASE i = 3
          BY <1>2, <5>3, FramesDiffer
        <5>4. CASE i = 4
          <6>1. h[i + 1] = Quote
            BY <1>2, <5>4
          <6> QED BY <6>1, FramesDiffer
        <5>5. CASE i = 5
          <6>1. h[i + 1] = Then
            BY <1>2, <1>10, <5>5
          <6> QED BY <6>1, FramesDiffer
        <5>6. CASE i = 6
          <6>1. h[i + 1] = FileWord
            BY <1>2, <1>10, <5>6
          <6> QED BY <6>1, FramesDiffer
        <5> QED BY <4>1, <5>1, <5>2, <5>3, <5>4, <5>5, <5>6
      <4> QED BY <1>6, <4>1, <4>2
    <3> QED BY <1>2, <3>1, <3>2, <3>3, FindIs
  <2>3. Quoted(h, key) = <<f.file>>
    <3> DEFINE c == 9
               b == 7
    <3>1. c \in 1..Len(h) /\ c + 1 <= Len(h) /\ b # 0 /\ b + 2 = c /\ c + 1 = 10
      BY <2>1
    <3>2. h[c] = f.file /\ h[c + 1] = Quote /\ Find(h, key, 1) = b
      BY <1>2, <1>10, <2>2, <3>1
    <3> HIDE DEF b, c
    <3> QED BY <1>2, <1>3, <1>5, <3>1, <3>2, QuotedIs
  <2>4. Find(h, key, 1) # 0
    BY <2>2
  <2> QED BY <1>4, <1>8, <1>10, <2>3, <2>4, PartBodyIs
<1> QED BY <1>9, <1>10

(* Three characters occur where all stand. *)
LEMMA OccursThree ==
  ASSUME NEW s, IsText(s), NEW c, NEW d, NEW e, NEW i \in 1..Len(s)
  PROVE  Occurs(s, <<c, d, e>>, i) <=>
           i + 2 <= Len(s) /\ s[i] = c /\ s[i + 1] = d /\ s[i + 2] = e
<1>1. Len(s) \in Nat
  BY TextLength
<1> DEFINE p == <<c, d, e>>
<1>2. Len(p) = 3 /\ p[1] = c /\ p[2] = d /\ p[3] = e
  OBVIOUS
<1> HIDE DEF p
<1>3. Occurs(s, p, i) <=> i + 3 - 1 <= Len(s) /\ \A k \in 1..3 : s[i + k - 1] = p[k]
  BY <1>2 DEF Occurs
<1>4. (\A k \in 1..3 : s[i + k - 1] = p[k]) <=>
        s[i + 1 - 1] = p[1] /\ s[i + 2 - 1] = p[2] /\ s[i + 3 - 1] = p[3]
  <2>1. 1..3 = {1, 2, 3}
    OBVIOUS
  <2> QED BY <2>1
<1>5. i + 1 - 1 = i /\ i + 2 - 1 = i + 1 /\ i + 3 - 1 = i + 2
  OBVIOUS
<1>6. Occurs(s, p, i) <=> i + 2 <= Len(s) /\ s[i] = c /\ s[i + 1] = d /\ s[i + 2] = e
  BY <1>2, <1>3, <1>4, <1>5
<1> QED BY <1>6 DEF p

(* The delimiter the parser makes of the client's header has the carriage    *)
(* return of the header's line in it.                                        *)
FormType == "multipart/form-data"
Boundary == "boundary="
DelimiterWords == <<Dash, Mark, CR>>
(* The value of the content type, as it arrives. *)
LEMMA FormTypeIs ==
  LET v == Sent(Multipart)
  IN /\ IsText(v) /\ Len(v) = 6 /\ v[2] = FormType /\ v[4] = Boundary /\ v[5] = Mark /\ v[6] = CR
     /\ \A k \in 1..3 : v[k] # Boundary
<1> DEFINE u == Multipart
           v == Sent(u)
<1>1. u = <<FormType, Then, Boundary, Mark>>
  BY Zenon DEF Multipart, FormType, Then, Boundary, Mark
<1>2. IsText(u) /\ Len(u) = 4 /\ u[1] = FormType /\ u[2] = Then /\ u[3] = Boundary /\ u[4] = Mark
  <2> DEFINE w == <<FormType, Then, Boundary, Mark>>
  <2>1. /\ w \in Seq({FormType, Then, Boundary, Mark})
        /\ Len(w) = 4 /\ w[1] = FormType /\ w[2] = Then /\ w[3] = Boundary /\ w[4] = Mark
    OBVIOUS
  <2> HIDE DEF w
  <2>2. IsText(w)
    BY <2>1, SeqIsText
  <2> QED BY <1>1, <2>1, <2>2 DEF w
<1> HIDE DEF u
<1>3. /\ IsText(v) /\ Len(v) = Len(u) + 2 /\ v[1] = Space
      /\ \A k \in 1..Len(u) : v[1 + k] = u[k]
      /\ v[Len(u) + 2] = CR
  BY <1>2, SentIs
<1> HIDE DEF v
<1>4. Len(v) = 6 /\ v[2] = FormType /\ v[3] = Then /\ v[4] = Boundary /\ v[5] = Mark /\ v[6] = CR
  <2>1. /\ 1 \in 1..4 /\ 2 \in 1..4 /\ 3 \in 1..4 /\ 4 \in 1..4 /\ 4 + 2 = 6
        /\ 1 + 1 = 2 /\ 1 + 2 = 3 /\ 1 + 3 = 4 /\ 1 + 4 = 5
    OBVIOUS
  <2> QED BY <1>2, <1>3, <2>1
<1>5. Space # Boundary /\ FormType # Boundary /\ Then # Boundary
  BY Zenon DEF Space, FormType, Then, Boundary
<1>6. \A k \in 1..3 : v[k] # Boundary
  <2>1. \A k \in 1..3 : k = 1 \/ k = 2 \/ k = 3
    OBVIOUS
  <2>2. v[1] # Boundary /\ v[2] # Boundary /\ v[3] # Boundary
    BY <1>3, <1>4, <1>5
  <2> QED BY <2>1, <2>2, Zenon
<1> QED BY <1>3, <1>4, <1>6 DEF u, v

(* A request is a form if it says so; its delimiter is the header's. *)
LEMMA FormDelimiter ==
  ASSUME NEW a \in Requests, NEW H, Reads(H, Fields(a))
  PROVE  /\ IsForm(H) <=> a.form # <<>>
         /\ IsForm(H) => Delimiter(H) = DelimiterWords
<1> DEFINE F == Fields(a)
           some == a.form # <<>>
           v == Sent(Multipart)
<1>1. ContentType \in DOMAIN H <=> some
  <2>1. "Content-Type" \in DOMAIN F <=> some
    BY FieldSets
  <2> HIDE DEF F, some
  <2>2. <<"Content-Type">> \in DOMAIN H <=> "Content-Type" \in DOMAIN F
    BY DEF Reads, F
  <2> QED BY <2>1, <2>2 DEF ContentType
<1>2. ASSUME some PROVE H[ContentType] = v
  <2>1. "Content-Type" \in DOMAIN F /\ F["Content-Type"] = Multipart
    BY <1>2, FieldSets, FieldsValues
  <2> HIDE DEF F, v
  <2>2. H[<<"Content-Type">>] = Sent(F["Content-Type"])
    BY <2>1 DEF Reads, F
  <2> QED BY <2>1, <2>2 DEF ContentType, v
<1>3. /\ IsText(v) /\ Len(v) = 6 /\ v[2] = FormType /\ v[4] = Boundary /\ v[5] = Mark /\ v[6] = CR
      /\ \A k \in 1..3 : v[k] # Boundary
  BY FormTypeIs
<1> HIDE DEF v
<1>4. Contains(v, FormType)
  <2>1. 2 \in 1..Len(v) /\ v[2] = FormType
    BY <1>3
  <2> QED BY <1>3, <2>1 DEF Contains
<1>5. IsForm(H) <=> some
  <2>1. IsForm(H) <=> ContentType \in DOMAIN H /\ Contains(H[ContentType], FormType)
    BY Zenon DEF IsForm, FormType
  <2> HIDE DEF some
  <2> QED BY <1>1, <1>2, <1>4, <2>1
<1>6. Find(v, <<Boundary>>, 1) = 4
  <2>1. 4 \in 1..Len(v) /\ 1 \in Nat \ {0} /\ \A i \in 1..(4 - 1) : i \in 1..3 /\ i \in 1..Len(v)
    BY <1>3
  <2>2. Occurs(v, <<Boundary>>, 4)
    BY <1>3, <2>1, OccursOne
  <2>3. \A i \in 1..(4 - 1) : ~Occurs(v, <<Boundary>>, i)
    BY <1>3, <2>1, OccursOne
  <2> QED BY <1>3, <2>1, <2>2, <2>3, FindIs
<1>7. ASSUME some PROVE Delimiter(H) = DelimiterWords
  <2> DEFINE p == Find(v, <<Boundary>>, 1)
             r == From(v, p + 1)
  <2>1. Delimiter(H) = <<Dash>> \o r
    <3>1. Delimiter(H) = LET b == Find(H[ContentType], <<Boundary>>, 1)
                         IN <<Dash>> \o (IF b = 0 THEN <<"rt/form-data", CR>>
                                                  ELSE From(H[ContentType], b + 1))
      BY Zenon DEF Delimiter, Dash, Boundary
    <3>2. p # 0
      BY <1>6
    <3> QED BY <1>2, <1>7, <3>1, <3>2, Zenon
  <2>2. r = From(v, 5)
    BY <1>6
  <2>3. IsText(r) /\ Len(r) = 2 /\ r[1] = Mark /\ r[2] = CR
    <3> HIDE DEF r
    <3> DEFINE c == 5
    <3>1. c \in 1..(Len(v) + 1) /\ Len(v) - c + 1 = 2 /\ c + 1 - 1 = 5 /\ c + 2 - 1 = 6
          /\ 1 \in 1..2 /\ 2 \in 1..2
      BY <1>3
    <3>2. r = From(v, c)
      BY <2>2
    <3> HIDE DEF c
    <3>3. IsText(r) /\ Len(r) = Len(v) - c + 1 /\ \A k \in 1..(Len(v) - c + 1) : r[k] = v[c + k - 1]
      BY <1>3, <3>1, <3>2, FromIs
    <3> QED BY <1>3, <3>1, <3>3
  <2> HIDE DEF r
  <2>4. <<Dash>> \o r = DelimiterWords
    <3> DEFINE d == <<Dash>>
               w == <<Dash, Mark, CR>>
               j == d \o r
    <3>1. IsText(d) /\ Len(d) = 1 /\ d[1] = Dash
      BY WordsAreText
    <3>2. IsText(w) /\ Len(w) = 3 /\ w[1] = Dash /\ w[2] = Mark /\ w[3] = CR
      BY WordsAreText
    <3> HIDE DEF d, w
    <3>3. /\ IsText(j) /\ Len(j) = Len(d) + Len(r)
          /\ \A k \in 1..Len(d) : j[k] = d[k]
          /\ \A k \in 1..Len(r) : j[Len(d) + k] = r[k]
      <4>1. IsText(d) /\ IsText(r)
        BY <2>3, <3>1
      <4>2. /\ IsText(d \o r) /\ Len(d \o r) = Len(d) + Len(r)
            /\ \A k \in 1..Len(d) : (d \o r)[k] = d[k]
            /\ \A k \in 1..Len(r) : (d \o r)[Len(d) + k] = r[k]
        BY ONLY <4>1, JoinIs
      <4> QED BY <4>2, Zenon
    <3> HIDE DEF j
    <3>4. j[1] = Dash /\ j[2] = Mark /\ j[3] = CR /\ Len(j) = 3
      <4>1. 1 \in 1..1 /\ 1 \in 1..2 /\ 2 \in 1..2 /\ 1 + 1 = 2 /\ 1 + 2 = 3
        OBVIOUS
      <4> QED BY <2>3, <3>1, <3>3, <4>1
    <3>5. \A k \in 1..3 : j[k] = w[k]
      <4>1. \A k \in 1..3 : k = 1 \/ k = 2 \/ k = 3
        OBVIOUS
      <4>2. j[1] = w[1] /\ j[2] = w[2] /\ j[3] = w[3]
        BY <3>2, <3>4
      <4> QED BY <4>1, <4>2, Zenon
    <3>6. j = w
      BY <3>2, <3>3, <3>4, <3>5, SameText
    <3> QED BY <3>6 DEF j, d, w, DelimiterWords
  <2> QED BY <2>1, <2>4
<1> QED BY <1>5, <1>7

(* The parts of a form, and what closes it. *)
FormParts(form) == [i \in DOMAIN form |-> FormPart(form[i])]
Closing == <<Dash, Mark, Dash>> \o Crlf
IsFormOf(form) ==
  /\ IsText(form) /\ form # <<>>
  /\ \A i \in 1..Len(form) :
       PartLayout(FormPart(form[i]), form[i], HeadSize(form[i]))
  /\ \A i \in 1..Len(form) :
       Plain(form[i].name) /\ Plain(form[i].file) /\ Plain(form[i].lines[1])

(* The form of a request is laid out as its parts are. *)
LEMMA RequestForm ==
  ASSUME NEW a \in Requests, a.form # <<>>
  PROVE  IsFormOf(a.form)
<1> DEFINE form == a.form
<1>1. IsText(form) /\ form # <<>>
  BY RequestsAssumption, Zenon
<1>2. DOMAIN form = 1..Len(form)
  BY <1>1, TextLength
<1>3. ASSUME NEW i \in 1..Len(form)
      PROVE  /\ PartLayout(FormPart(form[i]), form[i], HeadSize(form[i]))
             /\ Plain(form[i].name) /\ Plain(form[i].file) /\ Plain(form[i].lines[1])
  <2>1. i \in DOMAIN a.form
    BY <1>2
  <2>2. /\ IsText(form[i].lines) /\ form[i].lines # <<>>
        /\ Plain(form[i].name) /\ Plain(form[i].file)
        /\ \A k \in DOMAIN form[i].lines : Plain(form[i].lines[k])
    BY <2>1, FormWords
  <2> DEFINE f == form[i]
  <2> HIDE DEF f
  <2>3. 1 \in DOMAIN f.lines
    <3> DEFINE l == f.lines
    <3>1. IsText(l) /\ l # <<>>
      BY <2>2 DEF f
    <3> HIDE DEF l
    <3>2. Len(l) \in Nat /\ DOMAIN l = 1..Len(l) /\ Len(l) # 0
      <4>1. Len(l) \in Nat /\ DOMAIN l = 1..Len(l)
        BY <3>1, TextLength
      <4>2. Len(l) # 0
        BY <3>1, LenProperties DEF IsText
      <4> QED BY <4>1, <4>2
    <3>3. 1 \in DOMAIN l
      BY <3>2
    <3> QED BY <3>3 DEF l
  <2>4. PartLayout(FormPart(f), f, HeadSize(f))
    <3>1. /\ IsText(f.lines) /\ f.lines # <<>> /\ Plain(f.name) /\ Plain(f.file)
          /\ \A k \in DOMAIN f.lines : Plain(f.lines[k])
      BY <2>2 DEF f
    <3> QED BY ONLY <3>1, FormPartIs
  <2>5. Plain(f.name) /\ Plain(f.file) /\ Plain(f.lines[1])
    BY <2>2, <2>3 DEF f
  <2> QED BY <2>4, <2>5 DEF f
<1> HIDE DEF form
<1>4. IsFormOf(form)
  BY <1>1, <1>3, Zenon DEF IsFormOf
<1> QED BY <1>4 DEF form

(* Every part of a form is framed, and ends no gzip stream. *)
LEMMA FormPartsAre ==
  ASSUME NEW form, IsFormOf(form)
  PROVE  /\ Texts(FormParts(form)) /\ Len(FormParts(form)) = Len(form)
         /\ Len(form) \in Nat /\ Len(form) >= 1
         /\ \A i \in 1..Len(form) :
              /\ FormParts(form)[i] = FormPart(form[i])
              /\ Frame(FormPart(form[i])) /\ Free(FormPart(form[i]), {End})
<1> DEFINE n == Len(form)
           seqs == FormParts(form)
<1>1. IsText(form) /\ form # <<>>
  BY DEF IsFormOf
<1>2. n \in Nat /\ DOMAIN form = 1..n /\ n >= 1
  <2>1. n \in Nat /\ DOMAIN form = 1..n
    BY <1>1, TextLength
  <2>2. n # 0
    BY <1>1, LenProperties DEF IsText
  <2> QED BY <2>1, <2>2
<1>3. ASSUME NEW i \in 1..n
      PROVE  Frame(FormPart(form[i])) /\ Free(FormPart(form[i]), {End})
  <2> DEFINE q == FormPart(form[i])
  <2>1. Frame(q)
    BY DEF IsFormOf, PartLayout
  <2> HIDE DEF q
  <2>2. IsText(q) /\ Len(q) >= 1 /\ q[1] = Dash /\ \A k \in 2..Len(q) : q[k] \notin {Dash, End}
    BY <2>1 DEF Frame
  <2>3. \A k \in 1..Len(q) : q[k] \notin {End}
    <3> TAKE k \in 1..Len(q)
    <3>1. k = 1 \/ k \in 2..Len(q)
      BY <2>2, TextLength
    <3> QED BY <2>2, <3>1, FramesDiffer
  <2> QED BY <2>1, <2>3 DEF Free, q
<1>4. DOMAIN seqs = 1..n /\ seqs = [i \in 1..n |-> seqs[i]]
      /\ \A i \in 1..n : seqs[i] = FormPart(form[i])
  BY <1>2 DEF FormParts
<1> HIDE DEF seqs, n
<1>5. IsText(seqs) /\ Len(seqs) = n
  <2>1. IsText(seqs)
    BY <1>2, <1>4, MapIsText
  <2>2. DOMAIN seqs = 1..Len(seqs) /\ Len(seqs) \in Nat
    BY <2>1, TextLength
  <2> QED BY <1>2, <1>4, <2>1, <2>2
<1>6. Texts(seqs)
  <2>1. \A i \in 1..n : IsText(seqs[i])
    BY <1>3, <1>4 DEF Frame
  <2> QED BY <1>5, <2>1 DEF Texts
<1> QED BY <1>2, <1>3, <1>4, <1>5, <1>6 DEF seqs, n

(* Where the parts are in the text of a form. *)
FormText(body, form, s) ==
  /\ s \in [1..(Len(form) + 1) -> Nat] /\ s[1] = 0
  /\ IsText(body) /\ Len(body) = s[Len(form) + 1] + 5
  /\ \A i \in 1..Len(form) : s[i + 1] = s[i] + Len(FormPart(form[i]))
  /\ \A i \in 1..Len(form) : \A k \in 1..Len(FormPart(form[i])) :
       body[s[i] + k] = FormPart(form[i])[k]
  /\ \A i \in 1..Len(form) : \A j \in 1..(Len(form) + 1) :
       i < j => s[i] + Len(FormPart(form[i])) <= s[j]
  /\ \A p \in 1..s[Len(form) + 1] : \E i \in 1..Len(form) :
       \E k \in 1..Len(FormPart(form[i])) : p = s[i] + k
  /\ body[s[Len(form) + 1] + 1] = Dash /\ body[s[Len(form) + 1] + 2] = Mark
  /\ body[s[Len(form) + 1] + 3] = Dash /\ body[s[Len(form) + 1] + 4] = CR
  /\ body[s[Len(form) + 1] + 5] = LF

(* The payload of a form is its parts in order and the closing mark. *)
LEMMA FormIsLaid ==
  ASSUME NEW a \in Requests, a.form # <<>>
  PROVE  /\ \E s : FormText(Payload(a), a.form, s)
         /\ Free(Payload(a), {End})
<1> DEFINE form == a.form
           n == Len(form)
           seqs == FormParts(form)
           t == FlattenSeq(seqs)
           y == <<Dash, Mark, Dash>>
           u == t \o y
           body == u \o Crlf
<1>1. Payload(a) = body
  <2> DEFINE x == FlattenSeq([i \in DOMAIN a.form |-> FormPart(a.form[i])])
                  \o <<"--", "XX", "--">> \o Crlf
             sealed == base64Encode(encrypt(Cipher(ClientFile), a.secret))
  <2>1. Payload(a) = CASE a.form # <<>> -> x [] a.secret # <<>> -> sealed [] OTHER -> a.body
    BY Zenon DEF Payload
  <2>2. a.secret = <<>>
    BY RequestsAssumption, Zenon
  <2>3. x = body
    BY Zenon DEF FormParts, Dash, Mark
  <2> HIDE DEF x, sealed, body
  <2> QED BY <2>1, <2>2, <2>3
<1>2. IsFormOf(form)
  BY RequestForm
<1> HIDE DEF form
<1>3. /\ Texts(seqs) /\ Len(seqs) = n /\ n \in Nat /\ n >= 1
      /\ \A i \in 1..n : /\ seqs[i] = FormPart(form[i])
                         /\ Frame(FormPart(form[i])) /\ Free(FormPart(form[i]), {End})
  BY <1>2, FormPartsAre
<1> HIDE DEF seqs, t, n
<1>4. PICK s : Laid(t, seqs, s)
  BY <1>3, FlattenIsLaid DEF t
<1>5. /\ s \in [1..(n + 1) -> Nat] /\ s[1] = 0 /\ IsText(t) /\ Len(t) = s[n + 1]
      /\ \A i \in 1..n : s[i + 1] = s[i] + Len(seqs[i])
      /\ \A i \in 1..n : \A k \in 1..Len(seqs[i]) : t[s[i] + k] = seqs[i][k]
  BY <1>3, <1>4 DEF Laid
<1> DEFINE m == Len(t)
<1>6. m = s[n + 1] /\ m \in Nat
  BY <1>5, TextLength
<1>7. /\ IsText(y) /\ Len(y) = 3 /\ y[1] = Dash /\ y[2] = Mark /\ y[3] = Dash
      /\ IsText(Crlf) /\ Len(Crlf) = 2 /\ Crlf[1] = CR /\ Crlf[2] = LF
  BY WordsAreText DEF Crlf
<1>8. Free(t, {End})
  <2>1. DOMAIN seqs = 1..n /\ IsText(seqs)
    BY <1>3, TextsAre DEF Texts
  <2>2. \A i \in DOMAIN seqs : IsText(seqs[i]) /\ Free(seqs[i], {End})
    BY <1>3, <2>1 DEF Frame
  <2> QED BY <2>1, <2>2, FlattenIsFree DEF t
<1>9. Free(y, {End}) /\ Free(Crlf, {End})
  <2>1. Dash \notin {End} /\ Mark \notin {End} /\ CR \notin {End} /\ LF \notin {End}
    BY FramesDiffer, Zenon DEF FrameWords
  <2> QED BY <2>1, WordsAreFree DEF Crlf
<1> HIDE DEF y
<1>10. /\ IsText(u) /\ Len(u) = m + 3 /\ Free(u, {End})
       /\ \A k \in 1..m : u[k] = t[k]
       /\ u[m + 1] = Dash /\ u[m + 2] = Mark /\ u[m + 3] = Dash
  <2>1. /\ IsText(t \o y) /\ Len(t \o y) = Len(t) + Len(y)
        /\ \A k \in 1..Len(t) : (t \o y)[k] = t[k]
        /\ \A k \in 1..Len(y) : (t \o y)[Len(t) + k] = y[k]
    <3>1. IsText(t) /\ IsText(y)
      BY <1>5, <1>7
    <3> QED BY ONLY <3>1, JoinIs
  <2>2. Free(t \o y, {End})
    BY <1>5, <1>7, <1>8, <1>9, JoinIsFree
  <2>3. 1 \in 1..3 /\ 2 \in 1..3 /\ 3 \in 1..3
    OBVIOUS
  <2> HIDE DEF u
  <2>4. u = t \o y
    BY DEF u
  <2> QED BY <1>7, <2>1, <2>2, <2>3, <2>4
<1> HIDE DEF u
<1>11. /\ IsText(body) /\ Len(body) = m + 5 /\ Free(body, {End})
       /\ \A k \in 1..(m + 3) : body[k] = u[k]
       /\ body[m + 4] = CR /\ body[m + 5] = LF
  <2>1. /\ IsText(u \o Crlf) /\ Len(u \o Crlf) = Len(u) + Len(Crlf)
        /\ \A k \in 1..Len(u) : (u \o Crlf)[k] = u[k]
        /\ \A k \in 1..Len(Crlf) : (u \o Crlf)[Len(u) + k] = Crlf[k]
    <3>1. IsText(u) /\ IsText(Crlf)
      BY <1>7, <1>10
    <3> QED BY ONLY <3>1, JoinIs
  <2>2. Free(u \o Crlf, {End})
    BY <1>7, <1>9, <1>10, JoinIsFree
  <2>3. 1 \in 1..2 /\ 2 \in 1..2 /\ m + 3 + 1 = m + 4 /\ m + 3 + 2 = m + 5
    BY <1>6
  <2>4. body = u \o Crlf
    OBVIOUS
  <2> HIDE DEF body, m
  <2> QED BY <1>7, <1>10, <2>1, <2>2, <2>3, <2>4
<1> HIDE DEF body
<1>12. /\ \A k \in 1..m : body[k] = t[k]
       /\ body[m + 1] = Dash /\ body[m + 2] = Mark /\ body[m + 3] = Dash
  <2> HIDE DEF m
  <2>1. /\ \A k \in 1..m : k \in 1..(m + 3)
        /\ m + 1 \in 1..(m + 3) /\ m + 2 \in 1..(m + 3) /\ m + 3 \in 1..(m + 3)
    BY <1>6
  <2> QED BY <1>10, <1>11, <2>1
<1> DEFINE size(i) == Len(FormPart(form[i]))
<1>13. \A i \in 1..n : seqs[i] = FormPart(form[i]) /\ Len(seqs[i]) = size(i) /\ size(i) \in Nat
  <2> TAKE i \in 1..n
  <2>1. seqs[i] = FormPart(form[i])
    BY <1>3
  <2>2. Len(seqs[i]) \in Nat
    BY <1>3, TextsAre
  <2> QED BY <2>1, <2>2
<1>14. \A i \in 1..n : s[i + 1] = s[i] + size(i)
  BY <1>5, <1>13
<1>15. ASSUME NEW i \in 1..n, NEW j \in 1..(n + 1), i < j PROVE s[i] + size(i) <= s[j]
  <2>1. s[i] + Len(seqs[i]) <= s[j]
    BY <1>3, <1>4, <1>15, LaidInOrder
  <2> QED BY <1>13, <2>1
<1>16. ASSUME NEW i \in 1..n, NEW k \in 1..size(i) PROVE body[s[i] + k] = FormPart(form[i])[k]
  <2>1. s[i] + size(i) <= s[n + 1]
    <3>1. n + 1 \in 1..(n + 1) /\ i < n + 1
      BY <1>3
    <3> QED BY <1>15, <3>1
  <2>2. s[i] + k \in 1..m
    <3>1. s[i] \in Nat /\ size(i) \in Nat
      <4>1. i \in 1..(n + 1)
        BY <1>3
      <4> QED BY <1>5, <1>13, <4>1
    <3> HIDE DEF m, size
    <3> QED BY <1>6, <2>1, <3>1
  <2>3. t[s[i] + k] = seqs[i][k]
    BY <1>5, <1>13
  <2> QED BY <1>12, <1>13, <2>2, <2>3
<1>17. ASSUME NEW p \in 1..s[n + 1] PROVE \E i \in 1..n : \E k \in 1..size(i) : p = s[i] + k
  <2>1. p \in 1..Len(t)
    BY <1>5
  <2>2. \E i \in 1..Len(seqs) : \E k \in 1..Len(seqs[i]) : p = s[i] + k /\ t[p] = seqs[i][k]
    BY <1>3, <1>4, <2>1, LaidIsAll
  <2>3. \E i \in 1..n : \E k \in 1..Len(seqs[i]) : p = s[i] + k
    BY <1>3, <2>2
  <2> QED BY <1>13, <2>3
<1>18. FormText(body, form, s)
  <2> DEFINE T == s[n + 1]
  <2>1. /\ Len(body) = T + 5
        /\ body[T + 1] = Dash /\ body[T + 2] = Mark /\ body[T + 3] = Dash
        /\ body[T + 4] = CR /\ body[T + 5] = LF
    BY <1>6, <1>11, <1>12
  <2>2. IsText(body)
    BY <1>11
  <2>3. s \in [1..(n + 1) -> Nat] /\ s[1] = 0
    BY <1>5
  <2> QED BY <1>14, <1>15, <1>16, <1>17, <2>1, <2>2, <2>3, Zenon DEF FormText, n
<1>19. Free(body, {End})
  BY <1>11
<1> QED BY <1>1, <1>18, <1>19 DEF body, form

(* The delimiter stands where the parts start, and nowhere else: the closing *)
(* one has no carriage return after its mark.                                *)
LEMMA DelimitersAre ==
  ASSUME NEW body, NEW form, NEW s, FormText(body, form, s), IsFormOf(form),
         NEW p \in 1..Len(body)
  PROVE  Occurs(body, DelimiterWords, p) <=> \E i \in 1..Len(form) : p = s[i] + 1
<1> DEFINE n == Len(form)
           T == s[n + 1]
           q(i) == FormPart(form[i])
<1>1. n \in Nat /\ n >= 1
  BY FormPartsAre
<1>2. /\ s \in [1..(n + 1) -> Nat] /\ IsText(body) /\ Len(body) = T + 5
      /\ \A i \in 1..n : \A k \in 1..Len(q(i)) : body[s[i] + k] = q(i)[k]
      /\ body[T + 1] = Dash /\ body[T + 2] = Mark /\ body[T + 3] = Dash
      /\ body[T + 4] = CR /\ body[T + 5] = LF
  BY Zenon DEF FormText
<1>3. \A j \in 1..T : \E i \in 1..n : \E k \in 1..Len(q(i)) : j = s[i] + k
  BY Zenon DEF FormText
<1>4. \A i \in 1..n : \A j \in 1..(n + 1) : i < j => s[i] + Len(q(i)) <= s[j]
  BY Zenon DEF FormText
<1>5. ASSUME NEW i \in 1..n
      PROVE  /\ Len(q(i)) >= 15 /\ q(i)[1] = Dash /\ q(i)[2] = Mark /\ q(i)[3] = CR
             /\ Len(q(i)) \in Nat /\ \A k \in 2..Len(q(i)) : q(i)[k] # Dash
  <2> DEFINE u == q(i)
             m == HeadSize(form[i])
  <2>1. PartLayout(u, form[i], m)
    BY Zenon DEF IsFormOf
  <2>2. m \in {5, 10}
    BY DEF HeadSize
  <2> HIDE DEF u, m
  <2>3. /\ Frame(u) /\ (Len(u) = m + 10 \/ Len(u) >= m + 12) /\ u[2] = Mark /\ u[3] = CR
    BY <2>1, Zenon DEF PartLayout
  <2>4. IsText(u) /\ u[1] = Dash /\ \A k \in 2..Len(u) : u[k] # Dash
    BY <2>3 DEF Frame
  <2>5. Len(u) \in Nat
    BY <2>4, TextLength
  <2>6. Len(u) >= 15
    BY ONLY <2>2, <2>3, <2>5
  <2> QED BY <2>3, <2>4, <2>5, <2>6 DEF u
<1>6. T \in Nat
  BY <1>1, <1>2
<1> HIDE DEF n, T, q
<1>7. Occurs(body, DelimiterWords, p) <=>
        p + 2 <= Len(body) /\ body[p] = Dash /\ body[p + 1] = Mark /\ body[p + 2] = CR
  BY <1>2, OccursThree DEF DelimiterWords
<1>8. ASSUME NEW i \in 1..n, p = s[i] + 1 PROVE Occurs(body, DelimiterWords, p)
  <2>1. 1 \in 1..Len(q(i)) /\ 2 \in 1..Len(q(i)) /\ 3 \in 1..Len(q(i))
    BY <1>5
  <2>2. body[s[i] + 1] = Dash /\ body[s[i] + 2] = Mark /\ body[s[i] + 3] = CR
    <3>1. \A k \in 1..Len(q(i)) : body[s[i] + k] = q(i)[k]
      BY <1>2
    <3>2. q(i)[1] = Dash /\ q(i)[2] = Mark /\ q(i)[3] = CR
      BY <1>5
    <3> QED BY <2>1, <3>1, <3>2
  <2>3. s[i] \in Nat /\ s[i] + Len(q(i)) <= T
    <3>1. n + 1 \in 1..(n + 1) /\ i \in 1..(n + 1) /\ i < n + 1
      BY <1>1
    <3>2. s[i] \in Nat
      BY <1>2, <3>1
    <3> QED BY <1>4, <3>1, <3>2 DEF T
  <2>4. p + 1 = s[i] + 2 /\ p + 2 = s[i] + 3 /\ p + 2 <= Len(body)
    <3>1. Len(q(i)) >= 15 /\ Len(q(i)) \in Nat /\ Len(body) = T + 5
      BY <1>2, <1>5
    <3> QED BY ONLY <1>6, <1>8, <2>3, <3>1
  <2> QED BY <1>7, <1>8, <2>2, <2>4
<1>9. ASSUME Occurs(body, DelimiterWords, p) PROVE \E i \in 1..n : p = s[i] + 1
  <2>1. p + 2 <= T + 5 /\ body[p] = Dash /\ body[p + 1] = Mark /\ body[p + 2] = CR
    BY <1>2, <1>7, <1>9
  <2>2. CASE p <= T
    <3>1. p \in 1..T
      BY <1>6, <2>2
    <3>2. PICK i \in 1..n : \E k \in 1..Len(q(i)) : p = s[i] + k
      BY <1>3, <3>1
    <3>3. PICK k \in 1..Len(q(i)) : p = s[i] + k
      BY <3>2
    <3>4. q(i)[k] = Dash
      BY <1>2, <2>1, <3>3
    <3>5. k = 1
      <4>1. k = 1 \/ k \in 2..Len(q(i))
        BY <1>5
      <4> QED BY <1>5, <3>4, <4>1
    <3> QED BY <3>3, <3>5
  <2>3. CASE ~(p <= T)
    <3>1. p = T + 1 \/ p = T + 2 \/ p = T + 3
      BY <1>6, <2>1, <2>3
    <3>2. CASE p = T + 1
      <4>1. p + 2 = T + 3
        BY <1>6, <3>2
      <4> QED BY <1>2, <2>1, <4>1, FramesDiffer
    <3>3. CASE p = T + 2
      <4>1. Mark # Dash
        BY FramesDiffer, Zenon DEF FrameWords
      <4> QED BY <1>2, <2>1, <3>3, <4>1
    <3>4. CASE p = T + 3
      <4>1. p + 1 = T + 4
        BY <1>6, <3>4
      <4>2. Mark # CR
        BY FramesDiffer, Zenon DEF FrameWords
      <4> QED BY <1>2, <2>1, <4>1, <4>2
    <3> QED BY <3>1, <3>2, <3>3, <3>4
  <2> QED BY <2>2, <2>3
<1> QED BY <1>8, <1>9 DEF n

(* What follows a delimiter up to the next one, less a line break, is the    *)
(* part it starts; the last takes the closing delimiter along.               *)
LEMMA PartIsCut ==
  ASSUME NEW body, NEW form, NEW s, FormText(body, form, s), IsFormOf(form),
         NEW H, Delimiter(H) = DelimiterWords, NEW i \in 1..Len(form)
  PROVE  \E c : /\ c = Len(FormPart(form[i])) - 5 \/ c = Len(FormPart(form[i]))
                /\ Part(H, body, s[i] + 1) = SubSeq(body, s[i] + 4, s[i] + 3 + c)
                /\ s[i] + 3 + c <= Len(body)
<1> DEFINE n == Len(form)
           T == s[n + 1]
           b == s[i]
           d == Len(FormPart(form[i]))
           p == b + 1
           start == p + Len(Delimiter(H))
           hit == Find(body, Delimiter(H), start)
           next == IF hit = 0 THEN Len(body) + 1 ELSE hit
<1>1. n \in Nat /\ n >= 1
  BY FormPartsAre
<1>2. /\ s \in [1..(n + 1) -> Nat] /\ IsText(body) /\ Len(body) = T + 5
      /\ \A j \in 1..n : s[j + 1] = s[j] + Len(FormPart(form[j]))
  BY Zenon DEF FormText
<1>3. \A x \in 1..n : \A j \in 1..(n + 1) : x < j => s[x] + Len(FormPart(form[x])) <= s[j]
  BY Zenon DEF FormText
<1>4. Part(H, body, p) = IF next - start < 2 THEN From(body, start)
                         ELSE SubSeq(body, start, next - 3)
  BY Zenon DEF Part
<1>5. \A x \in 1..n : Len(FormPart(form[x])) \in Nat /\ Len(FormPart(form[x])) >= 15
  <2> TAKE x \in 1..n
  <2> DEFINE u == FormPart(form[x])
             m == HeadSize(form[x])
  <2>1. PartLayout(u, form[x], m)
    BY Zenon DEF IsFormOf
  <2>2. m \in {5, 10}
    BY DEF HeadSize
  <2> HIDE DEF u, m
  <2>3. Frame(u) /\ (Len(u) = m + 10 \/ Len(u) >= m + 12)
    BY <2>1, Zenon DEF PartLayout
  <2>4. Len(u) \in Nat
    BY <2>3, TextLength DEF Frame
  <2>5. Len(u) >= 15
    BY ONLY <2>2, <2>3, <2>4
  <2> QED BY <2>4, <2>5 DEF u
<1>6. i \in 1..n /\ i + 1 \in 1..(n + 1) /\ i \in 1..(n + 1) /\ n + 1 \in 1..(n + 1)
  BY <1>1
<1>7. start = b + 4
  <2>1. Len(DelimiterWords) = 3
    BY DEF DelimiterWords
  <2>2. b \in Nat
    BY <1>2, <1>6
  <2> HIDE DEF b
  <2> QED BY <2>1, <2>2
<1>8. b \in Nat /\ d \in Nat /\ d >= 15 /\ s[i + 1] = b + d /\ T \in Nat
  BY <1>2, <1>5, <1>6
<1>9. hit = Find(body, DelimiterWords, start)
  OBVIOUS
<1>10. \A x \in 1..Len(body) : Occurs(body, DelimiterWords, x) <=> \E j \in 1..n : x = s[j] + 1
  BY DelimitersAre
<1> HIDE DEF n, T, b, start, hit, next, p
\* A part that starts at the delimiter or before it starts before b + 4.
<1>11. \A j \in 1..n : j <= i => s[j] <= b
  <2> SUFFICES ASSUME NEW j \in 1..n, j <= i PROVE s[j] <= b
    OBVIOUS
  <2>1. CASE j = i
    BY <1>8, <2>1 DEF b
  <2>2. CASE j # i
    <3>1. j < i
      BY <1>6, <2>2
    <3>2. s[j] + Len(FormPart(form[j])) <= s[i]
      BY <1>3, <1>6, <3>1
    <3>3. s[j] \in Nat /\ Len(FormPart(form[j])) \in Nat
      <4>1. j \in 1..(n + 1)
        BY <1>1
      <4> QED BY <1>2, <1>5, <4>1
    <3>4. s[j] <= s[i]
      BY <1>8, <3>2, <3>3 DEF b
    <3> QED BY <3>4 DEF b
  <2> QED BY <2>1, <2>2
<1>12. CASE i = n
  <2>1. b + d = T /\ Len(body) = T + 5
    BY <1>2, <1>8, <1>12 DEF T
  <2>2. \A x \in start..Len(body) : ~Occurs(body, DelimiterWords, x)
    <3> SUFFICES ASSUME NEW x \in start..Len(body), Occurs(body, DelimiterWords, x) PROVE FALSE
      OBVIOUS
    <3>1. x \in 1..Len(body) /\ x >= b + 4 /\ x \in Nat
      BY <1>7, <1>8, <2>1
    <3>2. PICK j \in 1..n : x = s[j] + 1
      BY <1>10, <3>1
    <3>3. s[j] <= b
      <4>1. j <= i
        BY <1>1, <1>12
      <4> QED BY <1>11, <4>1
    <3>4. s[j] \in Nat
      <4>1. j \in 1..(n + 1)
        BY <1>1
      <4> QED BY <1>2, <4>1
    <3> QED BY ONLY <1>8, <3>1, <3>2, <3>3, <3>4
  <2>3. hit = 0
    BY <1>9, <2>2, FindNone
  <2>4. next = b + d + 6
    BY <1>8, <2>1, <2>3 DEF next
  <2>5. ~(next - start < 2) /\ next - 3 = b + 3 + d /\ b + 3 + d <= Len(body)
    BY <1>7, <1>8, <2>1, <2>4
  <2>6. Part(H, body, b + 1) = SubSeq(body, b + 4, b + 3 + d)
    BY <1>4, <1>7, <2>5 DEF p
  <2> QED BY <2>5, <2>6 DEF b
<1>13. CASE i # n
  <2>1. i + 1 \in 1..n /\ i < i + 1
    BY <1>1, <1>6, <1>13
  <2> DEFINE e == s[i + 1] + 1
  <2>2. b + d + 15 <= T /\ Len(body) = T + 5 /\ e = b + d + 1
    <3>1. s[i + 1] + Len(FormPart(form[i + 1])) <= T
      <4>1. i + 1 < n + 1
        BY <1>1, <2>1
      <4> QED BY <1>3, <1>6, <2>1, <4>1 DEF T
    <3>2. Len(FormPart(form[i + 1])) \in Nat /\ Len(FormPart(form[i + 1])) >= 15
      BY <1>5, <2>1
    <3>3. Len(body) = T + 5
      BY <1>2
    <3> QED BY <1>8, <3>1, <3>2, <3>3
  <2> HIDE DEF e
  <2>3. hit = e
    <3>1. e \in 1..Len(body) /\ e \in start..Len(body) /\ start \in Nat \ {0}
      BY <1>7, <1>8, <2>2
    <3>2. Occurs(body, DelimiterWords, e)
      BY <1>10, <2>1, <3>1 DEF e
    <3>3. ASSUME NEW x \in start..(e - 1) PROVE ~Occurs(body, DelimiterWords, x)
      <4> SUFFICES ASSUME Occurs(body, DelimiterWords, x) PROVE FALSE
        OBVIOUS
      <4>1. x \in 1..Len(body) /\ x >= b + 4 /\ x < e /\ x \in Nat
        BY <1>7, <1>8, <2>2
      <4>2. PICK j \in 1..n : x = s[j] + 1
        BY <1>10, <4>1
      <4>3. s[j] \in Nat
        <5>1. j \in 1..(n + 1)
          BY <1>1
        <5> QED BY <1>2, <5>1
      <4>4. CASE j <= i
        <5>1. s[j] <= b
          BY <1>11, <4>4
        <5> QED BY ONLY <1>8, <4>1, <4>2, <4>3, <5>1
      <4>5. CASE ~(j <= i)
        <5>1. s[j] >= s[i + 1]
          <6>1. CASE j = i + 1
            BY <4>3, <6>1
          <6>2. CASE j # i + 1
            <7>1. i + 1 < j /\ j \in 1..(n + 1)
              BY <1>1, <1>6, <4>5, <6>2
            <7>2. s[i + 1] + Len(FormPart(form[i + 1])) <= s[j]
              BY <1>3, <2>1, <7>1
            <7>3. s[i + 1] \in Nat /\ Len(FormPart(form[i + 1])) \in Nat
              BY <1>2, <1>5, <1>6, <2>1
            <7> QED BY ONLY <4>3, <7>2, <7>3
          <6> QED BY <6>1, <6>2
        <5>2. s[i + 1] + 1 = e /\ s[i + 1] \in Nat
          BY <1>8 DEF e
        <5> QED BY ONLY <4>1, <4>2, <4>3, <5>1, <5>2
      <4> QED BY <4>4, <4>5
    <3>4. Find(body, DelimiterWords, start) = e
      BY <1>2, <3>1, <3>2, <3>3, FindIs
    <3> QED BY <1>9, <3>4
  <2>4. next = b + d + 1
    BY <1>8, <2>2, <2>3 DEF next
  <2> DEFINE c == d - 5
  <2>5. ~(next - start < 2) /\ next - 3 = b + 3 + c /\ b + 3 + c <= Len(body)
    BY <1>7, <1>8, <2>2, <2>4
  <2>6. Part(H, body, b + 1) = SubSeq(body, b + 4, b + 3 + c)
    BY <1>4, <1>7, <2>5 DEF p
  <2> QED BY <2>5, <2>6 DEF b
<1> QED BY <1>12, <1>13

(* The part cut out at a delimiter reads as the client's part. *)
LEMMA PartTextIs ==
  ASSUME NEW body, NEW form, NEW s, FormText(body, form, s), IsFormOf(form),
         NEW H, Delimiter(H) = DelimiterWords, NEW i \in 1..Len(form)
  PROVE  PartText(Part(H, body, s[i] + 1), form[i], HeadSize(form[i]))
<1> DEFINE n == Len(form)
           b == s[i]
           f == form[i]
           m == HeadSize(f)
           q == FormPart(f)
           d == Len(q)
           r == Part(H, body, b + 1)
<1>1. PICK c : /\ c = d - 5 \/ c = d
               /\ r = SubSeq(body, b + 4, b + 3 + c)
               /\ b + 3 + c <= Len(body)
  BY PartIsCut
<1>2. PartLayout(q, f, m) /\ m \in {5, 10} /\ (HasFile(f) <=> m = 10)
  <2>1. PartLayout(q, f, m)
    BY Zenon DEF IsFormOf
  <2> QED BY <2>1 DEF HeadSize
<1>3. /\ IsText(body) /\ b \in Nat
      /\ \A k \in 1..d : body[b + k] = q[k]
  <2>1. n \in Nat /\ s \in [1..(n + 1) -> Nat] /\ i \in 1..n
    BY FormPartsAre DEF FormText
  <2>2. b \in Nat
    <3>1. i \in 1..(n + 1)
      BY <2>1
    <3> HIDE DEF n
    <3> QED BY <2>1, <3>1
  <2>3. \A k \in 1..d : body[b + k] = q[k]
    BY Zenon DEF FormText
  <2>4. IsText(body)
    BY DEF FormText
  <2> QED BY <2>2, <2>3, <2>4
<1>4. Plain(f.name) /\ Plain(f.file) /\ Plain(f.lines[1])
  BY Zenon DEF IsFormOf
<1> HIDE DEF n, b, f, m, q, d, r
<1>5. /\ Frame(q) /\ (d = m + 10 \/ d >= m + 12)
      /\ q[4] = LF /\ q[5] = Disposition /\ q[6] = NameIs /\ q[7] = f.name /\ q[8] = Quote
      /\ HasFile(f) => /\ q[9] = Then /\ q[10] = FileWord /\ q[11] = NameIs
                       /\ q[12] = f.file /\ q[13] = Quote
      /\ q[m + 4] = CR /\ q[m + 5] = LF /\ q[m + 6] = CR /\ q[m + 7] = LF
      /\ q[m + 8] = f.lines[1] /\ q[m + 9] = CR /\ q[m + 10] = LF
  BY <1>2, Zenon DEF PartLayout, d
<1>6. d \in Nat
  <2>1. IsText(q)
    BY <1>5 DEF Frame
  <2> QED BY <2>1, TextLength DEF d
<1>15. /\ c = d - 5 \/ c = d
       /\ b \in Nat /\ d \in Nat /\ m \in {5, 10} /\ (d = m + 10 \/ d >= m + 12)
  BY ONLY <1>1, <1>2, <1>3, <1>5, <1>6, Zenon
<1>7. /\ c \in Nat /\ (c = m + 5 \/ c >= m + 7) /\ b + 4 \in Nat \ {0}
      /\ b + 3 + c = (b + 4) + c - 1
  BY ONLY <1>15
<1>8. IsText(r) /\ Len(r) = c /\ \A k \in 1..c : r[k] = body[(b + 4) + k - 1]
  <2> DEFINE x == b + 4
             y == b + 3 + c
  <2>1. x \in Nat \ {0} /\ c \in Nat /\ y = x + c - 1 /\ y <= Len(body) /\ IsText(body)
    BY <1>1, <1>3, <1>7
  <2>2. r = SubSeq(body, x, y)
    BY <1>1
  <2> HIDE DEF x, y
  <2>3. /\ IsText(SubSeq(body, x, y)) /\ Len(SubSeq(body, x, y)) = c
        /\ \A k \in 1..c : SubSeq(body, x, y)[k] = body[x + k - 1]
    <3>1. Len(body) \in Nat
      BY <2>1, TextLength
    <3>2. x \in 1..(Len(body) + 1) /\ y \in 0..Len(body) /\ x <= y + 1 /\ y - x + 1 = c
      BY ONLY <2>1, <3>1
    <3>3. /\ IsText(SubSeq(body, x, y))
          /\ x <= y + 1 => Len(SubSeq(body, x, y)) = y - x + 1
          /\ \A k \in 1..(y - x + 1) : SubSeq(body, x, y)[k] = body[x + k - 1]
      BY ONLY <2>1, <3>2, CutIsText
    <3> QED BY <3>2, <3>3
  <2> QED BY <2>2, <2>3 DEF x
<1>9. ASSUME NEW k \in 1..c, 3 + k <= d PROVE r[k] = q[3 + k]
  <2>1. 3 + k \in 1..d /\ (b + 4) + k - 1 = b + (3 + k)
    BY ONLY <1>3, <1>6, <1>7, <1>9
  <2> QED BY <1>3, <1>8, <2>1
<1>10. /\ r[1] = q[4] /\ r[2] = q[5] /\ r[3] = q[6] /\ r[4] = q[7] /\ r[5] = q[8]
       /\ m = 10 => /\ r[6] = q[9] /\ r[7] = q[10] /\ r[8] = q[11] /\ r[9] = q[12] /\ r[10] = q[13]
  <2>1. /\ 3 + 1 = 4 /\ 3 + 2 = 5 /\ 3 + 3 = 6 /\ 3 + 4 = 7 /\ 3 + 5 = 8
        /\ 3 + 6 = 9 /\ 3 + 7 = 10 /\ 3 + 8 = 11 /\ 3 + 9 = 12 /\ 3 + 10 = 13
    OBVIOUS
  <2>2. /\ 1 \in 1..c /\ 2 \in 1..c /\ 3 \in 1..c /\ 4 \in 1..c /\ 5 \in 1..c
        /\ 4 <= d /\ 5 <= d /\ 6 <= d /\ 7 <= d /\ 8 <= d
    BY ONLY <1>15, <1>7
  <2>3. m = 10 => /\ 6 \in 1..c /\ 7 \in 1..c /\ 8 \in 1..c /\ 9 \in 1..c /\ 10 \in 1..c
                  /\ 9 <= d /\ 10 <= d /\ 11 <= d /\ 12 <= d /\ 13 <= d
    BY ONLY <1>15, <1>7
  <2>4. r[1] = q[4] /\ r[2] = q[5] /\ r[3] = q[6] /\ r[4] = q[7] /\ r[5] = q[8]
    BY <1>9, <2>1, <2>2
  <2>5. ASSUME m = 10
        PROVE  r[6] = q[9] /\ r[7] = q[10] /\ r[8] = q[11] /\ r[9] = q[12] /\ r[10] = q[13]
    BY <1>9, <2>1, <2>3, <2>5
  <2> QED BY <2>4, <2>5
<1>11. /\ r[m + 1] = q[m + 4] /\ r[m + 2] = q[m + 5] /\ r[m + 3] = q[m + 6]
       /\ r[m + 4] = q[m + 7] /\ r[m + 5] = q[m + 8]
  <2>1. /\ 3 + (m + 1) = m + 4 /\ 3 + (m + 2) = m + 5 /\ 3 + (m + 3) = m + 6
        /\ 3 + (m + 4) = m + 7 /\ 3 + (m + 5) = m + 8
        /\ m + 1 \in 1..c /\ m + 2 \in 1..c /\ m + 3 \in 1..c /\ m + 4 \in 1..c /\ m + 5 \in 1..c
        /\ m + 4 <= d /\ m + 5 <= d /\ m + 6 <= d /\ m + 7 <= d /\ m + 8 <= d
    BY ONLY <1>15, <1>7
  <2> QED BY <1>9, <2>1
<1>12. ASSUME c >= m + 7 PROVE r[m + 6] = q[m + 9] /\ r[m + 7] = q[m + 10]
  <2>1. /\ 3 + (m + 6) = m + 9 /\ 3 + (m + 7) = m + 10
        /\ m + 6 \in 1..c /\ m + 7 \in 1..c /\ m + 9 <= d /\ m + 10 <= d
    BY ONLY <1>15, <1>7, <1>12
  <2> QED BY <1>9, <2>1
<1>13. m \in 5..10
  BY <1>2
<1>14. PartText(r, f, m)
  <2>1. Len(r) = m + 5 \/ Len(r) >= m + 7
    BY <1>7, <1>8
  <2>2. Len(r) >= m + 7 => r[m + 6] = CR /\ r[m + 7] = LF
    BY <1>5, <1>8, <1>12
  <2>3. r[1] = LF /\ r[2] = Disposition /\ r[3] = NameIs /\ r[4] = f.name /\ r[5] = Quote
    BY <1>5, <1>10
  <2>4. HasFile(f) => /\ r[6] = Then /\ r[7] = FileWord /\ r[8] = NameIs
                      /\ r[9] = f.file /\ r[10] = Quote
    BY <1>2, <1>5, <1>10
  <2>5. /\ r[m + 1] = CR /\ r[m + 2] = LF /\ r[m + 3] = CR /\ r[m + 4] = LF
        /\ r[m + 5] = f.lines[1]
    BY <1>5, <1>11
  <2> QED BY <1>4, <1>8, <1>13, <2>1, <2>2, <2>3, <2>4, <2>5, Zenon DEF PartText
<1> QED BY <1>14 DEF b, f, m, r

(* The fields and the files of a form. *)
FilesOf(a) == {i \in DOMAIN a.form : HasFile(a.form[i])}
FieldsAsked(a) ==
  Assigned([i \in DOMAIN a.form \ FilesOf(a) |-> <<a.form[i].name>>],
           [i \in DOMAIN a.form \ FilesOf(a) |-> <<a.form[i].lines[1]>>])
UploadsAsked(a) ==
  Assigned([i \in FilesOf(a) |-> <<a.form[i].file>>],
           [i \in FilesOf(a) |-> <<a.form[i].lines[1]>>])

(* The fields and files the parser finds are the client's. *)
LEMMA FormIsRead ==
  ASSUME NEW a \in Requests, NEW H, Reads(H, Fields(a)), a.form # <<>>
  PROVE  /\ FormFields(H, Payload(a)) = FieldsAsked(a)
         /\ FileUploads(H, Payload(a)) = UploadsAsked(a)
<1>1. PICK s : FormText(Payload(a), a.form, s)
  BY FormIsLaid
<1>2. IsFormOf(a.form)
  BY RequestForm
<1>3. IsForm(H) /\ Delimiter(H) = DelimiterWords
  BY FormDelimiter
<1> DEFINE form == a.form
           n == Len(form)
           body == Payload(a)
           part(p) == Part(H, body, p)
           pos == [i \in 1..n |-> s[i] + 1]
           hits == Hits(H, body)
           fields == {p \in hits : ~IsFile(part(p))}
           files == {p \in hits : IsFile(part(p))}
           fieldKey == [p \in fields |-> FieldName(part(p))]
           fieldValue == [p \in fields |-> PartBody(part(p))]
           fileKey == [p \in files |-> FileName(part(p))]
           fileValue == [p \in files |-> PartBody(part(p))]
<1>4. /\ FormFields(H, body) = Assigned(fieldKey, fieldValue)
      /\ FileUploads(H, body) = Assigned(fileKey, fileValue)
  BY Zenon DEF FormFields, FileUploads
<1>5. /\ n \in Nat /\ n >= 1 /\ DOMAIN form = 1..n
      /\ s \in [1..(n + 1) -> Nat] /\ IsText(body) /\ Len(body) = s[n + 1] + 5
  <2>1. n \in Nat /\ n >= 1
    BY <1>2, FormPartsAre
  <2>2. DOMAIN form = 1..n
    BY <1>2, TextLength DEF IsFormOf
  <2>3. s \in [1..(n + 1) -> Nat] /\ IsText(body) /\ Len(body) = s[n + 1] + 5
    BY <1>1, Zenon DEF FormText
  <2> QED BY <2>1, <2>2, <2>3
<1>6. \A i \in 1..n : PartText(part(s[i] + 1), form[i], HeadSize(form[i]))
  BY <1>1, <1>2, <1>3, PartTextIs
<1>7. \A p \in 1..Len(body) : Occurs(body, DelimiterWords, p) <=> \E i \in 1..n : p = s[i] + 1
  BY <1>1, <1>2, DelimitersAre
<1>8. hits = {p \in DOMAIN body : Occurs(body, DelimiterWords, p)}
  BY <1>3, Zenon DEF Hits
<1>9. \A i \in 1..n : \A j \in 1..(n + 1) : i < j => s[i] + Len(FormPart(form[i])) <= s[j]
  BY <1>1, Zenon DEF FormText
<1>10. \A i \in 1..n : Len(FormPart(form[i])) \in Nat /\ Len(FormPart(form[i])) >= 1
  <2> TAKE i \in 1..n
  <2>1. Frame(FormPart(form[i]))
    BY <1>2, FormPartsAre
  <2> DEFINE q == FormPart(form[i])
  <2> HIDE DEF q
  <2>2. IsText(q) /\ Len(q) >= 1
    BY <2>1 DEF Frame, q
  <2>3. Len(q) \in Nat
    BY <2>2, TextLength
  <2> QED BY <2>2, <2>3 DEF q
<1>11. \A i \in 1..n : /\ PartBody(part(s[i] + 1)) = <<form[i].lines[1]>>
                       /\ IsFile(part(s[i] + 1)) <=> HasFile(form[i])
                       /\ ~HasFile(form[i]) => FieldName(part(s[i] + 1)) = <<form[i].name>>
                       /\ HasFile(form[i]) => FileName(part(s[i] + 1)) = <<form[i].file>>
  <2> TAKE i \in 1..n
  <2>1. PartText(part(s[i] + 1), form[i], HeadSize(form[i]))
    BY <1>6
  <2> HIDE DEF part
  <2> QED BY <2>1, PartIsRead
<1> HIDE DEF part, body, form, n, hits
<1>12. \A i \in 1..n : pos[i] = s[i] + 1 /\ s[i] \in Nat /\ s[i] + 1 \in 1..Len(body)
  <2> TAKE i \in 1..n
  <2>1. i \in 1..(n + 1) /\ n + 1 \in 1..(n + 1) /\ i < n + 1
    BY <1>5
  <2>2. s[i] \in Nat /\ s[n + 1] \in Nat /\ s[i] + Len(FormPart(form[i])) <= s[n + 1]
    BY <1>5, <1>9, <2>1
  <2>3. s[i] + 1 \in 1..Len(body)
    <3>1. Len(body) = s[n + 1] + 5 /\ Len(FormPart(form[i])) \in Nat
      BY <1>5, <1>10
    <3> QED BY ONLY <2>2, <3>1
  <2> QED BY <2>2, <2>3
<1>13. hits = {pos[i] : i \in 1..n}
  <2>1. DOMAIN body = 1..Len(body)
    BY <1>5, TextLength
  <2>2. ASSUME NEW p \in hits PROVE \E i \in 1..n : p = pos[i]
    BY <1>7, <1>8, <1>12, <2>1
  <2>3. ASSUME NEW i \in 1..n PROVE pos[i] \in hits
    <3>1. s[i] + 1 \in DOMAIN body /\ Occurs(body, DelimiterWords, s[i] + 1)
      BY <1>7, <1>12, <2>1
    <3> HIDE DEF pos
    <3> QED BY <1>8, <1>12, <3>1
  <2> HIDE DEF pos
  <2> QED BY <2>2, <2>3
<1>14. \A i, j \in 1..n : i < j => pos[i] < pos[j]
  <2> SUFFICES ASSUME NEW i \in 1..n, NEW j \in 1..n, i < j PROVE pos[i] < pos[j]
    OBVIOUS
  <2>1. j \in 1..(n + 1)
    BY <1>5
  <2>2. s[i] + Len(FormPart(form[i])) <= s[j]
    BY <1>9, <2>1
  <2>3. s[i] \in Nat /\ s[j] \in Nat /\ pos[i] = s[i] + 1 /\ pos[j] = s[j] + 1
    BY <1>12
  <2>4. Len(FormPart(form[i])) \in Nat /\ Len(FormPart(form[i])) >= 1
    BY <1>10
  <2> QED BY ONLY <2>2, <2>3, <2>4
<1>15. Len(body) + n \in Nat /\ (\A i \in 1..n : pos[i] \in 0..(Len(body) + n))
       /\ \A I \in SUBSET (1..n) : I \in SUBSET (0..(Len(body) + n))
  <2>1. Len(body) \in Nat
    BY <1>5, TextLength
  <2> QED BY <1>5, <1>12, <2>1
<1> DEFINE F == {i \in DOMAIN a.form : HasFile(a.form[i])}
           others == DOMAIN a.form \ F
           top == Len(body) + n
<1>16. F = {i \in 1..n : HasFile(form[i])} /\ others = {i \in 1..n : ~HasFile(form[i])}
  BY <1>5 DEF form
<1> HIDE DEF top, pos
<1>17. \A i \in 1..n : /\ PartBody(part(pos[i])) = <<form[i].lines[1]>>
                       /\ IsFile(part(pos[i])) <=> HasFile(form[i])
                       /\ ~HasFile(form[i]) => FieldName(part(pos[i])) = <<form[i].name>>
                       /\ HasFile(form[i]) => FileName(part(pos[i])) = <<form[i].file>>
  BY <1>11, <1>12
<1>18. fields = {pos[i] : i \in others} /\ files = {pos[i] : i \in F}
  BY <1>13, <1>16, <1>17
<1> DEFINE name == [i \in others |-> <<a.form[i].name>>]
           value == [i \in others |-> <<a.form[i].lines[1]>>]
           file == [i \in F |-> <<a.form[i].file>>]
           content == [i \in F |-> <<a.form[i].lines[1]>>]
<1>19. \A i \in others : name[i] = <<form[i].name>> /\ value[i] = <<form[i].lines[1]>>
  BY DEF form
<1>20. \A i \in F : file[i] = <<form[i].file>> /\ content[i] = <<form[i].lines[1]>>
  BY DEF form
<1>21. DOMAIN name = others /\ DOMAIN file = F
  OBVIOUS
<1>22. /\ DOMAIN fieldKey = fields
       /\ \A p \in fields : fieldKey[p] = FieldName(part(p)) /\ fieldValue[p] = PartBody(part(p))
       /\ DOMAIN fileKey = files
       /\ \A p \in files : fileKey[p] = FileName(part(p)) /\ fileValue[p] = PartBody(part(p))
  OBVIOUS
<1> HIDE DEF fields, files, fieldKey, fieldValue, fileKey, fileValue, F, others, name, value, file, content
<1>23. Moved(others, pos, top, fieldKey, fieldValue, name, value)
  <2>1. \A i \in others : i \in 1..n /\ ~HasFile(form[i]) /\ pos[i] \in fields
    BY <1>16, <1>18
  <2>2. top \in Nat /\ others \in SUBSET (0..top) /\ \A i \in others : pos[i] \in 0..top
    BY <1>15, <2>1 DEF top
  <2>3. \A i, j \in others : i < j => pos[i] < pos[j]
    BY <1>14, <2>1
  <2>4. DOMAIN fieldKey = {pos[i] : i \in others} /\ DOMAIN name = others
    BY <1>18, <1>21, <1>22
  <2>5. \A i \in others : fieldKey[pos[i]] = name[i] /\ fieldValue[pos[i]] = value[i]
    BY <1>17, <1>19, <1>22, <2>1
  <2> QED BY ONLY <2>2, <2>3, <2>4, <2>5 DEF Moved
<1>24. Moved(F, pos, top, fileKey, fileValue, file, content)
  <2>1. \A i \in F : i \in 1..n /\ HasFile(form[i]) /\ pos[i] \in files
    BY <1>16, <1>18
  <2>2. top \in Nat /\ F \in SUBSET (0..top) /\ \A i \in F : pos[i] \in 0..top
    BY <1>15, <2>1 DEF top
  <2>3. \A i, j \in F : i < j => pos[i] < pos[j]
    BY <1>14, <2>1
  <2>4. DOMAIN fileKey = {pos[i] : i \in F} /\ DOMAIN file = F
    BY <1>18, <1>21, <1>22
  <2>5. \A i \in F : fileKey[pos[i]] = file[i] /\ fileValue[pos[i]] = content[i]
    BY <1>17, <1>20, <1>22, <2>1
  <2> QED BY ONLY <2>2, <2>3, <2>4, <2>5 DEF Moved
<1>25. Assigned(fieldKey, fieldValue) = Assigned(name, value)
  BY <1>23, AssignedMoves
<1>26. Assigned(fileKey, fileValue) = Assigned(file, content)
  BY <1>24, AssignedMoves
<1>27. FieldsAsked(a) = Assigned(name, value) /\ UploadsAsked(a) = Assigned(file, content)
  BY Zenon DEF FieldsAsked, UploadsAsked, FilesOf, F, others, name, value, file, content
<1> QED BY <1>4, <1>25, <1>26, <1>27, Zenon DEF body

(* No payload of a request holds what ends a gzip stream. *)
LEMMA PayloadIsFree ==
  ASSUME NEW a \in Requests
  PROVE  Free(Payload(a), {End})
<1> DEFINE x == FlattenSeq([i \in DOMAIN a.form |-> FormPart(a.form[i])])
                \o <<"--", "XX", "--">> \o Crlf
           sealed == encrypt(Cipher(ClientFile), a.secret)
           sent == base64Encode(sealed)
           form == a.form # <<>>
           data == a.secret
           body == a.body
<1>1. Payload(a) = CASE form -> x [] data # <<>> -> sent [] OTHER -> body
  BY Zenon DEF Payload
<1>2. form => Free(Payload(a), {End})
  BY FormIsLaid
<1>3. Free(sent, {End})
  <2>1. IsText(data) /\ \A i \in DOMAIN data : data[i] \in 0..255
    BY RequestsAssumption, Zenon
  <2>2. Cipher(ClientFile) \in Nat
    BY CipherIsNumber
  <2> HIDE DEF data
  <2>3. data \in Seq(Bytes)
    <3>1. Len(data) \in Nat /\ DOMAIN data = 1..Len(data)
      BY <2>1, TextLength
    <3>2. data = [i \in 1..Len(data) |-> data[i]]
      BY <2>1, LenProperties DEF IsText
    <3>3. data \in [1..Len(data) -> Bytes]
      BY <2>1, <3>1, <3>2 DEF Bytes
    <3> QED BY <3>1, <3>3, SeqDef
  <2>4. sealed \in Seq(Bytes)
    BY <2>2, <2>3, DecryptInvertsEncrypt DEF data
  <2> HIDE DEF sealed
  <2> QED BY <2>4, EncodedIsFree
<1>4. Free(body, {End})
  <2>1. End \notin ToSet(a.body)
    BY FormsAssumption, Zenon DEF End
  <2>2. IsText(a.body)
    BY RequestsAssumption, Zenon
  <2>3. DOMAIN body = 1..Len(body)
    BY <2>2, TextLength
  <2> HIDE DEF form, x, sent
  <2> QED BY <2>1, <2>3 DEF Free, ToSet
<1> HIDE DEF form, x, sent, data, body
<1> QED BY <1>1, <1>2, <1>3, <1>4

(* A request that is not a form has no fields and no files. *)
LEMMA NothingIsRead ==
  ASSUME NEW a \in Requests, NEW H, Reads(H, Fields(a)), a.form = <<>>, NEW body
  PROVE  /\ FormFields(H, body) = FieldsAsked(a)
         /\ FileUploads(H, body) = UploadsAsked(a)
<1>1. ~IsForm(H)
  BY FormDelimiter
<1>2. Hits(H, body) = {}
  BY <1>1 DEF Hits
<1> DEFINE part(p) == Part(H, body, p)
           hits == Hits(H, body)
           fields == {p \in hits : ~IsFile(part(p))}
           files == {p \in hits : IsFile(part(p))}
<1>3. /\ FormFields(H, body) = Assigned([p \in fields |-> FieldName(part(p))],
                                        [p \in fields |-> PartBody(part(p))])
      /\ FileUploads(H, body) = Assigned([p \in files |-> FileName(part(p))],
                                         [p \in files |-> PartBody(part(p))])
  BY Zenon DEF FormFields, FileUploads
<1> HIDE DEF part, hits
<1>4. fields = {} /\ files = {}
  BY <1>2 DEF hits
<1> HIDE DEF fields, files
<1>5. FormFields(H, body) = NoMap /\ FileUploads(H, body) = NoMap
  BY <1>3, <1>4, AssignedNothing
<1> DEFINE F == {i \in DOMAIN a.form : HasFile(a.form[i])}
           others == DOMAIN a.form \ F
<1>6. /\ FieldsAsked(a) = Assigned([i \in others |-> <<a.form[i].name>>],
                                   [i \in others |-> <<a.form[i].lines[1]>>])
      /\ UploadsAsked(a) = Assigned([i \in F |-> <<a.form[i].file>>],
                                    [i \in F |-> <<a.form[i].lines[1]>>])
  BY Zenon DEF FieldsAsked, UploadsAsked, FilesOf
<1>7. DOMAIN a.form = {}
  OBVIOUS
<1>8. F = {} /\ others = {}
  BY <1>7
<1> HIDE DEF F, others
<1>9. FieldsAsked(a) = NoMap /\ UploadsAsked(a) = NoMap
  BY <1>6, <1>8, AssignedNothing
<1> QED BY <1>5, <1>9

(* What is parsed of a request that arrives whole. *)
LEMMA WholeRequest ==
  ASSUME NEW a \in Requests
  PROVE  LET r == ParseHttpRequest(RequestText(a))
         IN /\ Reads(Headers(RequestText(a)), Fields(a)) /\ Len(RequestText(a)) >= 1
            /\ r.mMethod = <<a.method>> /\ r.mPath = <<a.path>>
            /\ r.mCookies = Assigned(CookieNames(a), CookieValues(a))
            /\ a.encoding # "deflate" /\ Stated(a) =>
                 /\ r.mBody = Payload(a)
                 /\ r.mFormFields = FieldsAsked(a) /\ r.mFileUploads = UploadsAsked(a)
<1> DEFINE t == RequestText(a)
           H == Headers(t)
           r == ParseHttpRequest(t)
           h == HeadText(a)
           e == Encoded(a)
           n == Len(t)
           whole == a.encoding # "deflate" /\ Stated(a)
<1>1. IsText(h) /\ Len(h) >= 3 /\ IsText(e) /\ t = h \o Crlf \o e
  BY HeadOfRequest, PayloadIsText, RequestTextIs DEF HeadOf, Lined
<1>2. IsText(t) /\ n = Len(h) + 2 + Len(e) /\ Len(h) \in Nat /\ Len(e) \in Nat
  <2> HIDE DEF h, e, t, n
  <2>1. Len(h) \in Nat /\ Len(e) \in Nat
    BY <1>1, TextLength
  <2>2. IsText(Crlf) /\ Len(Crlf) = 2
    BY WordsAreText DEF Crlf
  <2>3. IsText(h \o Crlf) /\ Len(h \o Crlf) = Len(h) + Len(Crlf)
    BY <1>1, <2>2, JoinIs
  <2> DEFINE g == h \o Crlf
  <2> HIDE DEF g
  <2>4. IsText(g \o e) /\ Len(g \o e) = Len(g) + Len(e)
    BY <1>1, <2>3, JoinIs DEF g
  <2>5. t = g \o e
    BY <1>1 DEF g
  <2>6. IsText(t) /\ Len(t) = Len(h) + 2 + Len(e)
    BY <2>1, <2>2, <2>3, <2>4, <2>5 DEF g
  <2> QED BY <2>1, <2>6 DEF n
<1>3. n \in 1..n /\ n >= 4 /\ n >= Len(h) /\ t = SubSeq(t, 1, n)
  <2>1. n \in 1..n /\ n >= 4 /\ n >= Len(h)
    <3> HIDE DEF h, e, n
    <3> QED BY <1>1, <1>2
  <2>2. t = SubSeq(t, 1, Len(t))
    <3> HIDE DEF t
    <3> QED BY <1>2, CutWhole
  <2> QED BY <2>1, <2>2
<1>4. r.mMethod = <<a.method>> /\ r.mPath = <<a.path>>
  <2>1. Len(SubSeq(t, 1, n)) >= 4
    BY <1>3
  <2>2. LET q == ParseHttpRequest(SubSeq(t, 1, n))
        IN q.mMethod = <<a.method>> /\ q.mPath = <<a.path>>
    BY <1>3, <2>1, RequestLineIsRead
  <2> HIDE DEF t, n
  <2> QED BY <1>3, <2>2
<1>5. Reads(H, Fields(a))
  <2>1. HeadOf(h, Fields(a)) /\ Cut(t, h, e, n)
    BY <1>3, CutOfRequest
  <2> HIDE DEF t, h, e, n
  <2> QED BY <1>3, <2>1, HeadersOfHead
<1>6. /\ r.mCookies = Cookies(H) /\ r.mBody = Body(t, H)
      /\ r.mFormFields = FormFields(H, Body(t, H))
      /\ r.mFileUploads = FileUploads(H, Body(t, H))
  <2> HIDE DEF t
  <2> QED BY DEF ParseHttpRequest
<1>7. Cookies(H) = Assigned(CookieNames(a), CookieValues(a))
  BY <1>5, CookiesAre
<1>8. whole => Body(t, H) = Payload(a)
  BY PayloadIsFree, WholeBody
<1>9. /\ FormFields(H, Payload(a)) = FieldsAsked(a)
      /\ FileUploads(H, Payload(a)) = UploadsAsked(a)
  BY <1>5, FormIsRead, NothingIsRead
<1> HIDE DEF t, H, r, h, e, n, whole
<1>10. whole => /\ r.mBody = Payload(a)
                /\ r.mFormFields = FieldsAsked(a) /\ r.mFileUploads = UploadsAsked(a)
  BY <1>6, <1>8, <1>9
<1>11. r.mCookies = Assigned(CookieNames(a), CookieValues(a))
  BY <1>6, <1>7
<1>12. Len(t) >= 1
  BY <1>3 DEF n
<1> QED BY <1>4, <1>5, <1>10, <1>11, <1>12, Zenon DEF t, r, whole, H

(* The parser refuses no part of a form that arrives whole. *)
LEMMA FormIsKept ==
  ASSUME NEW a \in Requests, NEW H, Reads(H, Fields(a)), a.form # <<>>
  PROVE  \A p \in Hits(H, Payload(a)) : ~PartThrows(Part(H, Payload(a), p))
<1> DEFINE body == Payload(a)
           form == a.form
           n == Len(form)
<1>1. PICK s : FormText(body, form, s)
  BY FormIsLaid
<1>2. IsFormOf(form)
  BY RequestForm
<1>3. IsForm(H) /\ Delimiter(H) = DelimiterWords
  BY FormDelimiter
<1>4. IsText(body)
  BY <1>1, Zenon DEF FormText
<1> HIDE DEF body, form
<1>5. Hits(H, body) = {p \in DOMAIN body : Occurs(body, DelimiterWords, p)}
  BY <1>3, Zenon DEF Hits
<1>6. DOMAIN body = 1..Len(body)
  BY <1>4, TextLength
<1>7. ASSUME NEW p \in Hits(H, body) PROVE ~PartThrows(Part(H, body, p))
  <2>1. p \in 1..Len(body) /\ Occurs(body, DelimiterWords, p)
    BY <1>5, <1>6, <1>7
  <2>2. PICK i \in 1..n : p = s[i] + 1
    BY <1>1, <1>2, <2>1, DelimitersAre
  <2>3. PartText(Part(H, body, s[i] + 1), form[i], HeadSize(form[i]))
    BY <1>1, <1>2, <1>3, PartTextIs
  <2>4. ~PartThrows(Part(H, body, s[i] + 1))
    BY <2>3, PartIsRead
  <2> QED BY <2>2, <2>4
<1> QED BY <1>7 DEF body

\* A request the parser finds no body in, and one whose stated length is right.
Bodiless(a) == a.length = "" \/ a.encoding = "deflate"
Truthful(a) == a.length \in {"", "right"}
Zlib == "zlib"

(* Where no length is stated there is no body, and what the client deflated *)
(* is none either.                                                          *)
LEMMA NoBody ==
  ASSUME NEW a \in Requests, NEW t, NEW H, t = RequestText(a), H = Headers(t), Bodiless(a)
  PROVE  Body(t, H) = <<>>
<1> DEFINE h == HeadText(a)
           e == Encoded(a)
           p == Payload(a)
           n == Len(t)
           blank == Find(t, Crlf \o Crlf, 1)
           raw == IF blank = 0 THEN <<>> ELSE From(t, blank + 4)
<1>1. IsText(h) /\ Len(h) >= 3 /\ IsText(e) /\ IsText(p) /\ t = h \o Crlf \o e
  BY HeadOfRequest, PayloadIsText, RequestTextIs DEF HeadOf, Lined
<1>2. IsText(t) /\ n = Len(h) + 2 + Len(e) /\ Len(h) \in Nat /\ Len(e) \in Nat
  <2> HIDE DEF h, e, n, p
  <2>1. Len(h) \in Nat /\ Len(e) \in Nat
    BY <1>1, TextLength
  <2>2. IsText(Crlf) /\ Len(Crlf) = 2
    BY WordsAreText DEF Crlf
  <2> DEFINE g == h \o Crlf
  <2>3. IsText(g) /\ Len(g) = Len(h) + Len(Crlf)
    BY <1>1, <2>2, JoinIs
  <2>4. t = g \o e
    BY <1>1
  <2> HIDE DEF g
  <2>5. IsText(t) /\ Len(t) = Len(g) + Len(e)
    BY <1>1, <2>3, <2>4, JoinIs
  <2> QED BY <2>1, <2>2, <2>3, <2>5 DEF n
<1>3. n \in 1..n /\ n >= Len(h) + 2 /\ n >= Len(h) /\ t = SubSeq(t, 1, n)
  <2> HIDE DEF h, e, p
  <2>1. n >= 1 /\ n \in Nat /\ n >= Len(h) + 2 /\ n >= Len(h)
    <3> HIDE DEF n
    <3> QED BY <1>1, <1>2
  <2>2. t = SubSeq(t, 1, n)
    BY <1>2, CutWhole
  <2> HIDE DEF n
  <2> QED BY <2>1, <2>2
<1>4. HeadOf(h, Fields(a)) /\ Cut(t, h, e, n)
  BY <1>3, CutOfRequest
<1>5. Body(t, H) = IF ContentLength \notin DOMAIN H THEN <<>>
                   ELSE IF Compressed(H) THEN Inflate(raw) ELSE raw
  BY DEF Body
<1>6. CASE a.length = ""
  <2>1. "Content-Length" \notin DOMAIN Fields(a)
    BY <1>6, FieldSets
  <2>2. Reads(H, Fields(a))
    <3> HIDE DEF h, e, n, raw, blank, p
    <3> QED BY <1>3, <1>4, HeadersOfHead
  <2>3. ContentLength \notin DOMAIN H
    BY <2>1, <2>2 DEF Reads, ContentLength
  <2> QED BY <1>5, <2>3
<1>7. CASE a.encoding = "deflate"
  <2>1. Compressed(H)
    BY <1>3, <1>7, CompressedIs
  <2>2. e = <<Zlib>> \o p \o <<End>>
    BY <1>7, Zenon DEF Encoded, Zlib, End
  <2> HIDE DEF h, p, n
  <2>3. IsText(e) /\ Len(e) >= 1 /\ e[1] = Zlib
    <3> DEFINE z == <<Zlib>>
               x == <<End>>
               g == z \o p
    <3>1. IsText(z) /\ Len(z) = 1 /\ z[1] = Zlib /\ IsText(x) /\ Len(x) = 1
      BY WordsAreText
    <3>2. e = g \o x
      BY <2>2
    <3> HIDE DEF z, x, e
    <3>3. IsText(g) /\ Len(g) = 1 + Len(p) /\ g[1] = Zlib
      <4>1. IsText(g) /\ Len(g) = Len(z) + Len(p) /\ \A i \in 1..Len(z) : g[i] = z[i]
        BY <1>1, <3>1, JoinIs
      <4> HIDE DEF g
      <4> QED BY <3>1, <4>1
    <3>4. Len(p) \in Nat
      BY <1>1, TextLength
    <3> HIDE DEF g
    <3>5. /\ IsText(e) /\ Len(e) = Len(g) + Len(x)
          /\ \A i \in 1..Len(g) : e[i] = g[i]
      BY <3>1, <3>2, <3>3, JoinIs
    <3> QED BY <3>1, <3>3, <3>4, <3>5
  <2> HIDE DEF e
  <2>4. raw = e
    <3>1. Lined(h)
      BY <1>4 DEF HeadOf
    <3>2. From(t, blank + 4) = SubSeq(e, 1, n - Len(h) - 2)
      BY <1>3, <1>4, <3>1, ArrivedBody
    <3>3. blank = Len(h) - 1
      BY <1>3, <1>4, <3>1, BlankLineIs
    <3> HIDE DEF blank
    <3>4. blank # 0 /\ n - Len(h) - 2 = Len(e)
      BY <1>1, <1>2, <3>3
    <3>5. SubSeq(e, 1, Len(e)) = e
      BY <2>3, CutWhole
    <3> QED BY <3>2, <3>4, <3>5
  <2> HIDE DEF raw
  <2>5. Inflate(e) = <<>>
    <3> DEFINE word == <<Gzip>>
               hits == {i \in 1..Len(e) : Occurs(e, word, i)}
    <3>1. Zlib # Gzip
      BY Zenon DEF Zlib, Gzip
    <3>2. 1 \in 1..Len(e) /\ Len(e) \in Nat
      BY <2>3, TextLength
    <3>3. ~Occurs(e, word, 1)
      BY <2>3, <3>1, <3>2, OccursOne
    <3>4. Find(e, word, 1) = IF hits = {} THEN 0 ELSE Min(hits)
      BY DEF Find
    <3>5. hits \in SUBSET Nat /\ 1 \notin hits
      BY <3>2, <3>3
    <3> HIDE DEF hits
    <3>6. Find(e, word, 1) # 1
      <4>1. CASE hits = {}
        BY <3>4, <4>1
      <4>2. CASE hits # {}
        <5>1. PICK m \in hits : \A i \in hits : m <= i
          BY <3>5, <4>2, SmallestNumber
        <5>2. Min(hits) = m
          BY <3>5, <5>1, MinIs
        <5> QED BY <3>4, <3>5, <4>2, <5>1, <5>2
      <4> QED BY <4>1, <4>2
    <3> QED BY <3>6, Zenon DEF Inflate, Gzip
  <2> QED BY <1>5, <2>1, <2>4, <2>5
<1> QED BY <1>6, <1>7 DEF Bodiless

(* A number that is stated is read. *)
LEMMA LengthIsRead ==
  ASSUME NEW a \in Requests, NEW H, Reads(H, Fields(a)), Truthful(a)
  PROVE  ~BadLength(H)
<1>1. CASE a.length = ""
  <2>1. "Content-Length" \notin DOMAIN Fields(a)
    BY <1>1, FieldSets
  <2>2. ContentLength \notin DOMAIN H
    BY <2>1 DEF Reads, ContentLength
  <2> QED BY <2>2 DEF BadLength
<1>2. CASE a.length = "right"
  <2> DEFINE w == ToString(Len(Encoded(a)))
             v == <<w>>
             s == Sent(v)
             t == From(s, 2)
  <2>1. w \notin White /\ w \in Numerals
    BY NumbersAssumption
  <2>2. H[ContentLength] = s
    <3>1. "Content-Length" \in DOMAIN Fields(a) /\ Fields(a)["Content-Length"] = v
      BY <1>2, FieldSets, FieldsValues DEF Length
    <3> HIDE DEF w
    <3> QED BY <3>1 DEF Reads, ContentLength
  <2> HIDE DEF w
  <2>3. IsText(s) /\ Len(s) = 3 /\ s[1] = Space /\ s[2] = w /\ s[3] = CR
    <3>1. IsText(v) /\ Len(v) = 1 /\ v[1] = w
      BY WordsAreText
    <3> HIDE DEF v
    <3>2. /\ IsText(s) /\ Len(s) = Len(v) + 2 /\ s[1] = Space
          /\ (\A k \in 1..Len(v) : s[1 + k] = v[k]) /\ s[Len(v) + 2] = CR
      BY <3>1, SentIs
    <3> HIDE DEF s
    <3> QED BY <3>1, <3>2
  <2> HIDE DEF s
  <2>4. Space \in White /\ CR \in White
    BY Zenon DEF White, Blank, Space
  <2>5. DOMAIN s = 1..3
    BY <2>3, TextLength
  <2> DEFINE kept == {i \in DOMAIN s : s[i] \notin White}
  <2>6. kept = {2}
    <3>1. \A i \in 1..3 : i = 1 \/ i = 2 \/ i = 3
      OBVIOUS
    <3> QED BY <2>1, <2>3, <2>4, <2>5, <3>1
  <2>7. Min({2}) = 2
    BY DEF Min
  <2>8. TrimLeft(s, White) = t
    BY <2>6, <2>7 DEF TrimLeft
  <2>9. Len(t) = 2 /\ t[1] = w
    <3>1. 2 \in 1..(Len(s) + 1) /\ Len(s) - 2 + 1 = 2
      BY <2>3
    <3>2. /\ IsText(t) /\ Len(t) = Len(s) - 2 + 1
          /\ \A k \in 1..(Len(s) - 2 + 1) : t[k] = s[2 + k - 1]
      BY <2>3, <3>1, FromIs
    <3> HIDE DEF t
    <3> QED BY <2>3, <3>1, <3>2
  <2> HIDE DEF t
  <2>10. t # <<>>
    BY <2>9
  <2> QED BY <2>1, <2>2, <2>8, <2>9, <2>10 DEF BadLength
<1> QED BY <1>1, <1>2 DEF Truthful

(* A request that arrives whole, with its length or without, is accepted. *)
LEMMA WholeIsAccepted ==
  ASSUME NEW a \in Requests, Truthful(a)
  PROVE  ~ParseThrows(RequestText(a))
<1> DEFINE t == RequestText(a)
           H == Headers(t)
           body == Body(t, H)
<1>1. Reads(H, Fields(a))
  BY WholeRequest
<1>2. ~BadLength(H)
  BY <1>1, LengthIsRead
<1>3. body = <<>> \/ body = Payload(a)
  <2>1. CASE Bodiless(a)
    BY <2>1, NoBody
  <2>2. CASE ~Bodiless(a)
    BY <2>2, PayloadIsFree, WholeBody DEF Bodiless, Stated
  <2> QED BY <2>1, <2>2
<1>4. ParseThrows(t) <=> BadLength(H) \/ \E i \in Hits(H, body) : PartThrows(Part(H, body, i))
  BY Zenon DEF ParseThrows
<1> HIDE DEF t, H, body
<1>5. \A i \in Hits(H, body) : ~PartThrows(Part(H, body, i))
  <2>1. CASE a.form = <<>>
    <3>1. ~IsForm(H)
      BY <1>1, <2>1, FormDelimiter
    <3> QED BY <3>1 DEF Hits
  <2>2. CASE body = <<>>
    <3>1. DOMAIN body = {}
      BY <2>2
    <3> QED BY <3>1 DEF Hits
  <2>3. CASE a.form # <<>> /\ body = Payload(a)
    BY <1>1, <2>3, FormIsKept
  <2> QED BY <1>3, <2>1, <2>2, <2>3
<1> QED BY <1>2, <1>4, <1>5 DEF t

(* HttpRequest::parseHttpRequest, handleMultipartFormData: for any         *)
(* requests, one that arrives whole, with its length or with none, is      *)
(* accepted, and is understood as it was meant: its method, path and       *)
(* cookies, its body once decompressed, and every field and every file of  *)
(* its form under its name.                                                *)
THEOREM RequestsAreUnderstood == Spec => []RequestIsUnderstood
<1>1. ASSUME RouteInv, pc = "done", Arrived, asked.length \in {"", "right"} PROVE Parsed
  <2>1. asked \in Requests /\ text = RequestText(asked)
    BY <1>1 DEF RouteInv, TextInv, Arrived
  <2>2. ~ParseThrows(text)
    BY <1>1, <2>1, WholeIsAccepted DEF Truthful
  <2>3. text # <<>>
    <3>1. Len(text) >= 1
      BY <2>1, WholeRequest
    <3> QED BY <3>1
  <2>4. request = ParseHttpRequest(text)
    BY <1>1, <2>2, <2>3 DEF RouteInv, TextInv
  <2>5. request.mMethod = <<asked.method>>
    BY <2>1, <2>4, WholeRequest
  <2>6. NoRequest.mMethod = <<>> /\ <<asked.method>> # <<>>
    BY DEF NoRequest
  <2>7. request # NoRequest
    BY <2>5, <2>6
  <2> QED BY <1>1, <2>7 DEF Parsed
<1>2. ASSUME RouteInv, Parsed, Arrived
      PROVE  /\ request.mMethod = <<asked.method>> /\ request.mPath = <<asked.path>>
             /\ request.mCookies = Assigned(CookieNames(asked), CookieValues(asked))
             /\ Readable => /\ request.mBody = Payload(asked)
                            /\ request.mFormFields = FieldsAsked(asked)
                            /\ request.mFileUploads = UploadsAsked(asked)
  <2>1. asked \in Requests /\ request = ParseHttpRequest(RequestText(asked))
    BY <1>2 DEF RouteInv, TextInv, Parsed, Arrived
  <2>2. Readable <=> asked.encoding # "deflate" /\ Stated(asked)
    BY Zenon DEF Readable, Stated
  <2> QED BY <2>1, <2>2, WholeRequest
<1>3. FilesAsked = FilesOf(asked)
  BY Zenon DEF FilesAsked, FilesOf, HasFile
<1>4. RouteInv => RequestIsUnderstood
  BY <1>1, <1>2, <1>3, Zenon
  DEF RequestIsUnderstood, CookieNames, CookieValues, FieldsAsked, UploadsAsked
<1> QED BY <1>4, RouteInvIsInvariant, PTL
=============================================================================
