------------------------------- MODULE Base64 -------------------------------
(***************************************************************************)
(* base64 (src/base64.hpp), and the payload of a token (src/utils.cpp).    *)
(* A byte is a number; a character is its place in the alphabet, the       *)
(* padding sign, or some other.                                            *)
(***************************************************************************)
EXTENDS Integers, Sequences, FiniteSets

Sextets == 0..63
Padding == 64
Other == 65

\* encode_into: four characters for three bytes, of which the last group may
\* have one or two.
encode_into(bytes) ==
    LET n == Len(bytes)
        t(i) == IF i <= n THEN bytes[i] ELSE 0
    IN [c \in 1..(4 * ((n + 2) \div 3)) |->
          LET b == 3 * ((c - 1) \div 4)
          IN CASE c % 4 = 1 -> t(b + 1) \div 4
               [] c % 4 = 2 -> (t(b + 1) % 4) * 16 + t(b + 2) \div 16
               [] c % 4 = 3 -> IF b + 2 > n THEN Padding ELSE (t(b + 2) % 16) * 4 + t(b + 3) \div 64
               [] OTHER -> IF b + 3 > n THEN Padding ELSE t(b + 3) % 64]

\* The padding signs among the last four characters, wherever they stand.
NumPadding(text) ==
    IF text = <<>> THEN 0
    ELSE Cardinality({i \in (Len(text) - 3)..Len(text) : text[i] = Padding})

\* mistake: the characters of an incomplete group are not looked at
DecodeThrows_Group(text) ==
    \/ Len(text) % 4 # 0
    \/ NumPadding(text) > 2
    \/ \E i \in 1..(Len(text) - 4) : text[i] \notin Sextets

\* The tables know no other character, nor the padding sign.
DecodeThrows(text) ==
    \/ Len(text) % 4 # 0
    \/ NumPadding(text) > 2
    \/ \E i \in 1..(Len(text) - NumPadding(text)) : text[i] \notin Sextets

decode_into(text) ==
    [b \in 1..(3 * (Len(text) \div 4) - NumPadding(text)) |->
       LET c == 4 * ((b - 1) \div 3)
       IN CASE b % 3 = 1 -> text[c + 1] * 4 + text[c + 2] \div 16
            [] b % 3 = 2 -> (text[c + 2] % 16) * 16 + text[c + 3] \div 4
            [] OTHER -> (text[c + 3] % 4) * 64 + text[c + 4]]

\* The second of the parts that the dots of a token separate. The token is
\* looked at with its quotes: without a third part one ends the second.
jwt_payload(parts) ==
    IF Len(parts) = 2 THEN Append(parts[2], Other) ELSE parts[2]

PaddedUp(text) ==
    text \o [i \in 1..((-Len(text)) % 4) |-> Padding]

-----------------------------------------------------------------------------
(* The issuer of a token (external) leaves out the padding, and has two     *)
(* characters of its own for the last of the alphabet.                      *)

Unpadded(text) == SubSeq(text, 1, Len(text) - NumPadding(text))

Issued(bytes) ==
    LET text == Unpadded(encode_into(bytes))
    IN [i \in DOMAIN text |-> IF text[i] \in {62, 63} THEN Other ELSE text[i]]

\* Whether text is an encoding of bytes, but for the bits of its last
\* character that belong to no byte.
Encodes(text, bytes) ==
    LET whole == encode_into(bytes)
        unused == CASE NumPadding(text) = 1 -> 4 [] NumPadding(text) = 2 -> 16 [] OTHER -> 1
    IN /\ Len(text) = Len(whole)
       /\ \A i \in DOMAIN text :
            \/ text[i] = whole[i]
            \/ /\ i = Len(text) - NumPadding(text) /\ {text[i], whole[i]} \subseteq Sextets
               /\ text[i] \div unused = whole[i] \div unused

=============================================================================
