----------------------------- MODULE AESCipher ------------------------------
(* AESCipher and generateKeyIVFromPrivateKeyPEM: the key of a key file, the  *)
(* base 64 coding byte by byte, and the calls of OpenSSL's cipher. Bytes are *)
(* numbers, base 64 text is a sequence of one-character lexemes. The cipher  *)
(* itself is OpenSSL's: here a shift of every byte, with blocks of Block     *)
(* bytes and the padding that decryption checks.                             *)
EXTENDS Naturals, Sequences, SequencesExt

Block == 4
keyLength == 32
ivLength == 16
DigestLength == 64

\* readPrivateKey(): a file that cannot be opened reads as an empty text.
readPrivateKey(file) == IF file.opens THEN file.text ELSE <<>>

\* What a key file holds beside its key: the armour, which it has once, blanks
\* and line breaks.
Armour == {"BEGIN", "END", " ", "\n", "\r"}

(* Slip: carriage returns are not dropped.                                   *)
KeyMaterialWithReturns(pem) == ToSet(pem) \ (Armour \ {"\r"})

\* The key material is one lexeme, and so its place does not matter. Key and iv
\* are cut out of one digest of it, here a number that differs for different
\* material.
KeyMaterial(pem) == ToSet(pem) \ Armour
Digest(material) ==
  4 * Cardinality(material) + (IF "k1" \in material THEN 1 ELSE 0)
                            + (IF "k2" \in material THEN 2 ELSE 0)
KeyFits(key, iv) == key <= DigestLength /\ iv <= DigestLength
generateKeyIV(pem) == IF KeyFits(keyLength, ivLength) THEN Digest(KeyMaterial(pem)) ELSE 0

\* The constructor: a cipher is its key.
Cipher(file) == generateKeyIV(readPrivateKey(file))

\* EVP_Encrypt*, EVP_Decrypt*: padded blocks under a key.
Padded(data) ==
  LET n == Block - (Len(data) % Block) IN data \o [i \in 1..n |-> n]
Shifted(data, k) == [i \in DOMAIN data |-> (data[i] + k) % 256]
WellPadded(data) ==
  /\ data # <<>> /\ Len(data) % Block = 0
  /\ Last(data) \in 1..Block
  /\ \A i \in (Len(data) - Last(data) + 1)..Len(data) : data[i] = Last(data)

encrypt(key, plaintext) == Shifted(Padded(plaintext), key)

\* decrypt() throws when the last block is short or badly padded.
DecryptThrows(key, ciphertext) == ~WellPadded(Shifted(ciphertext, 256 - (key % 256)))
decrypt(key, ciphertext) ==
  LET padded == Shifted(ciphertext, 256 - (key % 256))
  IN SubSeq(padded, 1, Len(padded) - Last(padded))

Base64Chars ==
  <<"A", "B", "C", "D", "E", "F", "G", "H", "I", "J", "K", "L", "M", "N", "O", "P", "Q",
    "R", "S", "T", "U", "V", "W", "X", "Y", "Z", "a", "b", "c", "d", "e", "f", "g", "h",
    "i", "j", "k", "l", "m", "n", "o", "p", "q", "r", "s", "t", "u", "v", "w", "x", "y",
    "z", "0", "1", "2", "3", "4", "5", "6", "7", "8", "9", "+", "/">>

\* The four values of six bits in three bytes.
Quadruple(b) ==
  << b[1] \div 4, 16 * (b[1] % 4) + (b[2] \div 16), 4 * (b[2] % 16) + (b[3] \div 64),
     b[3] % 64 >>

\* Zeros after the end make the last group of bytes whole; n bytes of it give
\* n + 1 characters.
base64Encode(data) ==
  LET byte(i) == IF i <= Len(data) THEN data[i] ELSE 0
      quadruple(g) == Quadruple([k \in 1..3 |-> byte(3 * g + k)])
  IN [i \in 1..((8 * Len(data) + 5) \div 6) |->
        Base64Chars[quadruple((i - 1) \div 4)[((i - 1) % 4) + 1] + 1]]
     \o [i \in 1..((3 - (Len(data) % 3)) % 3) |-> "="]

\* base64_chars.find(c) cut to a byte: 255 for the filler of a short group.
Value(c) ==
  IF c = "\\0" THEN 255 ELSE (CHOOSE i \in DOMAIN Base64Chars : Base64Chars[i] = c) - 1

\* The three bytes of a group of four values, in byte arithmetic.
Triple(v) ==
  << (4 * v[1] + ((v[2] \div 16) % 4)) % 256,
     (16 * (v[2] % 16) + ((v[3] \div 4) % 16)) % 256,
     (64 * (v[3] % 4) + v[4]) % 256 >>

\* Decoding stops at the first character outside the alphabet.
Accepted(input) ==
  LET stop == {i \in DOMAIN input : ~Contains(Base64Chars, input[i])}
  IN IF stop = {} THEN input ELSE SubSeq(input, 1, Min(stop) - 1)

\* n characters left over after the groups of four give n - 1 bytes.
ByteCount(n) == 3 * (n \div 4) + (IF n % 4 = 0 THEN 0 ELSE (n % 4) - 1)

base64Decode(input) ==
  LET chars == Accepted(input)
      char(i) == IF i <= Len(chars) THEN chars[i] ELSE "\\0"
      triple(g) == Triple([k \in 1..4 |-> Value(char(4 * g + k))])
  IN [i \in 1..ByteCount(Len(chars)) |-> triple((i - 1) \div 3)[((i - 1) % 3) + 1]]
==============================================================================
