-------------------------------- MODULE Text --------------------------------
(* The parts of std::string and std::istringstream that the HTTP code parses *)
(* with. A text is a sequence of lexemes: a character the parsers look for,  *)
(* or a word none of their cuts falls into. Positions count from 1, and 0    *)
(* stands for npos, so that "position of the first character after an        *)
(* n-character hit" is Find(..) + n here whenever the C++ sum is right.      *)
EXTENDS Naturals, Sequences, SequencesExt

IsText(s) == s \in Seq(ToSet(s))

CR == "\r"
LF == "\n"
Crlf == <<CR, LF>>
Blank == {" ", "\t"}

Occurs(s, pattern, i) ==
  /\ i + Len(pattern) - 1 <= Len(s)
  /\ \A k \in 1..Len(pattern) : s[i + k - 1] = pattern[k]

\* s.find(pattern, from).
Find(s, pattern, from) ==
  LET hits == {i \in from..Len(s) : Occurs(s, pattern, i)}
  IN IF hits = {} THEN 0 ELSE Min(hits)

\* s.substr(from).
From(s, from) == SubSeq(s, from, Len(s))

\* What std::getline(stream, _, d) extracts first, and what a second
\* std::getline(stream, _) then extracts.
Before(s, d) == LET p == Find(s, <<d>>, 1) IN IF p = 0 THEN s ELSE SubSeq(s, 1, p - 1)
After(s, d) == LET p == Find(s, <<d>>, 1) IN IF p = 0 THEN <<>> ELSE From(s, p + 1)

\* Where the pieces start that repeated std::getline(stream, _, d) extracts, and
\* the one that starts at i: there is no last empty piece, because the stream
\* ends there.
Starts(s, d) == {i \in DOMAIN s : i = 1 \/ s[i - 1] = d}
Piece(s, i, d) == Before(From(s, i), d)

\* s without its first, or last, lexemes from the set.
TrimLeft(s, set) ==
  LET kept == {i \in DOMAIN s : s[i] \notin set}
  IN IF kept = {} THEN <<>> ELSE From(s, Min(kept))
TrimRight(s, set) ==
  LET kept == {i \in DOMAIN s : s[i] \notin set}
  IN IF kept = {} THEN <<>> ELSE SubSeq(s, 1, Max(kept))

\* stream >> word, and what is then left in the stream.
White == Blank \cup {CR, LF}
NextWord(s) ==
  LET t == TrimLeft(s, White)
      ends == {i \in DOMAIN t : t[i] \in White}
  IN IF ends = {} THEN t ELSE SubSeq(t, 1, Min(ends) - 1)
AfterWord(s) ==
  LET t == TrimLeft(s, White)
      ends == {i \in DOMAIN t : t[i] \in White}
  IN IF ends = {} THEN <<>> ELSE From(t, Min(ends))

\* StringUtils::trim, and StringUtils::toLower on the words that can differ
\* in case.
Trim(s) == TrimRight(TrimLeft(s, White), White)
Lower(s) == [i \in DOMAIN s |-> IF s[i] = "Connection" THEN "connection" ELSE s[i]]

\* A map filled by map[key[i]] = value[i], from the first position to the last.
NoMap == [key \in {} |-> <<>>]
Assigned(key, value) ==
  [k \in Range(key) |-> value[Max({i \in DOMAIN key : key[i] = k})]]
==============================================================================
