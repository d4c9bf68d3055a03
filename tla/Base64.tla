------------------------------- MODULE Base64 -------------------------------
(* The base64 of the WebSocket handshake and of hashes (SocketRocket/       *)
(* fbase64.c).  A character is its number in the alphabet, or Pad, Space or *)
(* Other.                                                                   *)
EXTENDS Integers, SequencesExt

CONSTANTS Octets,      \* values of the bytes that are encoded
          MaxOctets,   \* how many of them
          Characters,  \* of the texts that are decoded
          MaxText      \* how long they are

VARIABLES way,     \* "none", or which function was called
          octets,  \* the bytes
          text,    \* the characters
          room,    \* targsize
          done     \* the call did not return -1

vars == <<way, octets, text, room, done>>

Pad == 64
Space == 65
Other == 66
----------------------------------------------------------------------------
\* Three bytes are four characters; what is missing at the end is padded.
Quantum(b, n) ==
  LET at(i) == IF i <= n THEN b[i] ELSE 0
  IN  << at(1) \div 4, (at(1) % 4) * 16 + (at(2) \div 16),
         IF n < 2 THEN Pad ELSE (at(2) % 16) * 4 + (at(3) \div 64),
         IF n < 3 THEN Pad ELSE at(3) % 64 >>
Quanta(src) == (Len(src) + 2) \div 3
Characters4(src) ==
  FlattenSeq([q \in 1..Quanta(src) |->
    LET from == 3 * (q - 1) IN Quantum(SubSeq(src, from + 1, Len(src)), Len(src) - from)])

\* There must be room for a \0 too.
f_b64_ntop(src, size) ==
  LET out == Characters4(src)
  IN  IF Len(out) + 1 > size THEN [ok |-> FALSE, text |-> <<>>] ELSE [ok |-> TRUE, text |-> out]

\* A character in one of four states: its high bits complete the last byte,
\* the others begin the next one, for which there must be room.
Digit(st, d, size) ==
  LET high == d \div 4 ^ (3 - st.state)
      low == (d % 4 ^ (3 - st.state)) * 4 ^ (st.state + 1)
      filled == IF st.state = 0 THEN st.target ELSE [st.target EXCEPT ![Len(st.target)] = @ + high]
  IN  IF st.state < 3 /\ Len(st.target) >= size THEN [st EXCEPT !.ok = FALSE]
      ELSE [st EXCEPT !.target = IF st.state < 3 THEN Append(filled, low) ELSE filled,
                      !.state = (@ + 1) % 4]

\* Spaces do not count.  The first Pad ends the data; behind it are only as
\* many as the state asks for, and the bits that were begun must be zero.
PadsFor(state) == CASE state = 2 -> <<Pad, Pad>> [] state = 3 -> <<Pad>> [] OTHER -> <<>>
f_b64_pton(src, size) ==
  LET chars == SelectSeq(src, LAMBDA c : c # Space)
      pads == {i \in DOMAIN chars : chars[i] = Pad}
      length == IF pads = {} THEN Len(chars) ELSE (CHOOSE i \in pads : \A j \in pads : i <= j) - 1
      Take(st, c) == IF ~st.ok \/ c = Other THEN [st EXCEPT !.ok = FALSE] ELSE Digit(st, c, size)
      end == FoldLeft(Take, [ok |-> TRUE, state |-> 0, target |-> <<>>], SubSeq(chars, 1, length))
  IN  IF /\ end.ok /\ end.state # 1
         /\ SubSeq(chars, length + 1, Len(chars)) = PadsFor(end.state)
         /\ end.state # 0 => Last(end.target) = 0
      THEN [ok |-> TRUE, octets |-> IF end.state = 0 THEN end.target ELSE Front(end.target)]
      ELSE [ok |-> FALSE, octets |-> <<>>]
----------------------------------------------------------------------------
Init == way = "none" /\ octets = <<>> /\ text = <<>> /\ room = 0 /\ done = FALSE
Encode ==
  /\ way = "none" /\ way' = "encode"
  /\ octets' \in SeqOf(Octets, MaxOctets)
  /\ room' \in (4 * Quanta(octets'))..(4 * Quanta(octets') + 1)
  /\ LET out == f_b64_ntop(octets', room') IN done' = out.ok /\ text' = out.text
Decode ==
  /\ way = "none" /\ way' = "decode"
  /\ text' \in SeqOf(Characters, MaxText)
  /\ room' \in 0..3
  /\ LET out == f_b64_pton(text', room') IN done' = out.ok /\ octets' = out.octets
Next == Encode \/ Decode
----------------------------------------------------------------------------
\* What was encoded is decoded to itself, in a buffer of three bytes for every
\* four characters, and encoding fails only without room.
EncodedIsDecoded ==
  way = "encode" =>
    IF done THEN f_b64_pton(text, 3 * Quanta(octets)) = [ok |-> TRUE, octets |-> octets]
    ELSE room <= 4 * Quanta(octets)

\* No text but the one that encodes them, with or without spaces, is decoded
\* to some bytes (the "subliminal channel" of the code's comment), and no more
\* bytes are stored than there is room for.
DecodedIsCanonical ==
  way = "decode" /\ done =>
    /\ Characters4(octets) = SelectSeq(text, LAMBDA c : c # Space)
    /\ Len(octets) <= room
=============================================================================
