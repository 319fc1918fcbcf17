---------------------------- MODULE Configuration ---------------------------
(* Configuration: one JSON object, filled from a file, from assignments and  *)
(* from the environment and the command line, which may replace values but   *)
(* add no keys, and replace them by text.                                    *)
EXTENDS Integers, Sequences, FiniteSets, TLC

VARIABLE config_   \* the object: a function from its keys, empty at first

String(text) == [type |-> "string", text |-> text, number |-> 0]
Number(number) == [type |-> "number", text |-> "", number |-> number]
Boolean(true) == [type |-> "boolean", text |-> "", number |-> IF true THEN 1 ELSE 0]
Null == [type |-> "null", text |-> "", number |-> 0]

\* An object from pairs read in turn: of equal keys the last one holds.
Object(pairs) ==
  [key \in {pairs[i][1] : i \in DOMAIN pairs} |->
     pairs[CHOOSE i \in DOMAIN pairs :
             /\ pairs[i][1] = key
             /\ \A j \in DOMAIN pairs : pairs[j][1] = key => j <= i][2]]

ConfigInit == config_ = Object(<<>>)

(* Slip: a file adds to what is there.                                       *)
loadAndMerge(file, thrown) ==
  /\ thrown = ~(file.opens /\ file.whole)
  /\ config_' = IF file.opens /\ file.begins THEN Object(file.pairs) @@ config_ ELSE config_

\* loadFromFile(): the parser writes straight into config_. From the first brace
\* on the old object is gone, and where the text breaks off what was read of
\* the new one stays, a key without its value as null.
loadFromFile(file, thrown) ==
  /\ thrown = ~(file.opens /\ file.whole)
  /\ config_' = IF file.opens /\ file.begins THEN Object(file.pairs) ELSE config_

Override(texts) ==
  config_' = [key \in DOMAIN config_ |->
                IF key \in DOMAIN texts THEN String(texts[key]) ELSE config_[key]]

loadFromEnvironment(environment) == Override(environment)

\* Arguments without "=" count for nothing; a name is all before it, dashes
\* included.
Named(arguments) == Object(SelectSeq(arguments, LAMBDA a : Len(a) = 2))
loadFromCommandLine(arguments) == Override(Named(arguments))

set(key, value) ==
  config_' = [k \in {key} \cup DOMAIN config_ |-> IF k = key THEN value ELSE config_[k]]

\* The instances of get<T>(), and what JSON converts to each T: to a number also
\* true and false.
Accepts ==
  [int |-> {"number", "boolean"}, string |-> {"string"}, bool |-> {"boolean"},
   uint16_t |-> {"number", "boolean"}]

(* Slip: only a missing key throws.                                          *)
ThrowsIfMissing(type, key) == key \notin DOMAIN config_

\* get<T>() throws unless the key has a value T accepts; of a number a uint16_t
\* keeps sixteen bits.
Throws(type, key) == key \notin DOMAIN config_ \/ config_[key].type \notin Accepts[type]
get_string(key) == config_[key].text
get_uint16_t(key) == config_[key].number % 65536
=============================================================================
