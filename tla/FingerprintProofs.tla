------------------------- MODULE FingerprintProofs -------------------------
(***************************************************************************)
(* Theorems about Fingerprint, for all fingerprints of any length and      *)
(* every width of the buffer that keeps 13 bits.                           *)
(***************************************************************************)
EXTENDS Fingerprint, TLAPS

-----------------------------------------------------------------------------
(* The inductive invariant.                                                *)

(* The bits of the buffer that are not written yet are the last ones of    *)
(* the bytes read so far.                                                  *)
BitsOfBytes ==
    /\ bitCount = 2 => bitBuffer % 4 = bytes[position] % 4
    /\ bitCount = 4 => bitBuffer % 16 = bytes[position] % 16
    /\ bitCount = 6 => bitBuffer % 64 = bytes[position] % 64
    /\ bitCount = 8 => bitBuffer % 256 = bytes[position]
    /\ bitCount = 10 =>
          bitBuffer % 1024 = (bytes[position - 1] % 4) * 256 + bytes[position]
    /\ bitCount = 12 =>
          bitBuffer % 4096 = (bytes[position - 1] % 16) * 256 + bytes[position]

EncodeInv ==
    phase = "encode" =>
        /\ position <= Len(bytes)
        /\ 6 * Len(text) + bitCount = 8 * position
        /\ BitsOfBytes
        /\ restored = <<>>

(* Likewise for the characters read so far.                                *)
BitsOfText ==
    /\ bitCount = 2 => bitBuffer % 4 = text[position] % 4
    /\ bitCount = 4 => bitBuffer % 16 = text[position] % 16
    /\ bitCount = 6 => bitBuffer % 64 = text[position]
    /\ bitCount = 8 =>
          bitBuffer % 256 = (text[position - 1] % 4) * 64 + text[position]
    /\ bitCount = 10 =>
          bitBuffer % 1024 = (text[position - 1] % 16) * 64 + text[position]
    /\ bitCount = 12 =>
          bitBuffer % 4096 = text[position - 1] * 64 + text[position]

(* The loop has read no "=", and written the first bytes of the original.  *)
DecodeInv ==
    phase \in {"decode", "done"} =>
        /\ position <= Len(text)
        /\ position = 0 \/ 6 * (position - 1) < 8 * Len(bytes)
        /\ 6 * position = 8 * Len(restored) + bitCount
        /\ BitsOfText
        /\ Len(restored) <= Len(bytes)
        /\ \A j \in DOMAIN restored : restored[j] = bytes[j]

(* The text between the two loops: all bits, and no "=" too many.          *)
PadInv ==
    phase = "pad" =>
        /\ 6 * Len(text) >= 8 * Len(bytes)
        /\ Len(text) <= 4 * ((Len(bytes) + 2) \div 3)
        /\ restored = <<>>

EvenCount == bitCount \in {0, 2, 4, 6, 8, 10, 12}

(* At the end everything that is not "=" has been read.                    *)
DoneInv ==
    phase = "done" => bitCount < 8 /\ 6 * position >= 8 * Len(bytes)

CodecInv ==
    /\ TypeOK
    /\ EvenCount
    /\ EncodesBase64
    /\ EncodeInv
    /\ PadInv
    /\ DecodeInv
    /\ DoneInv

-----------------------------------------------------------------------------
(* Arithmetic of the buffer.                                               *)

(* What the buffer loses is above the 13th bit.                            *)
LEMMA Wrap ==
    ASSUME NEW x \in Nat
    PROVE  /\ x % BufferSize \in 0 .. BufferSize - 1
           /\ (x % BufferSize) % 8192 = x % 8192
  <1> DEFINE k == BufferSize \div 8192
             q == x \div BufferSize
             r == x % BufferSize
  <1>1. BufferSize = 8192 * k /\ k \in Nat
    BY FingerprintAssumption
  <1>2. x = BufferSize * q + r /\ q \in Nat /\ r \in 0 .. BufferSize - 1
    BY FingerprintAssumption
  <1>3. PICK d \in Nat : d = k * q
    BY <1>1, <1>2
  <1>4. BufferSize * q = 8192 * d
    <2> HIDE DEF k, q
    <2> QED
      BY <1>1, <1>2, <1>3
  <1>5. x = 8192 * d + r
    BY <1>2, <1>4
  <1> HIDE DEF k, q, r
  <1>6. r % 8192 = x % 8192
    BY <1>2, <1>3, <1>5
  <1> QED
    BY <1>2, <1>6 DEF r

(* A byte joins the buffer.                                                *)
LEMMA JoinByte ==
    ASSUME NEW buffer \in Nat, NEW b \in ByteValues,
           NEW w, w = ShiftLeft(buffer, 256) + b
    PROVE  /\ w \in 0 .. BufferSize - 1
           /\ w % 256 = b
           /\ w % 1024 = (buffer % 4) * 256 + b
           /\ w % 4096 = (buffer % 16) * 256 + b
  <1> DEFINE s == ShiftLeft(buffer, 256)
  <1>0. w = s + b
    OBVIOUS
  <1>1. s \in 0 .. BufferSize - 1 /\ s % 8192 = (buffer * 256) % 8192
    BY Wrap DEF ShiftLeft
  <1>2. BufferSize \in Nat /\ BufferSize % 8192 = 0
    BY FingerprintAssumption
  <1> HIDE DEF s
  <1>3. s % 256 = 0
    BY <1>1
  <1>4. w \in 0 .. BufferSize - 1
    BY <1>0, <1>1, <1>2, <1>3 DEF ByteValues
  <1>5. w % 256 = b
    BY <1>0, <1>1, <1>3 DEF ByteValues
  <1>6. w % 1024 = (buffer % 4) * 256 + b
    BY <1>0, <1>1 DEF ByteValues
  <1>7. w % 4096 = (buffer % 16) * 256 + b
    BY <1>0, <1>1 DEF ByteValues
  <1> QED
    BY <1>4, <1>5, <1>6, <1>7

(* The six bits of a character join the buffer.                            *)
LEMMA JoinIndex ==
    ASSUME NEW buffer \in Nat, NEW b \in Indices,
           NEW w, w = ShiftLeft(buffer, 64) + b
    PROVE  /\ w \in 0 .. BufferSize - 1
           /\ w % 64 = b
           /\ w % 256 = (buffer % 4) * 64 + b
           /\ w % 1024 = (buffer % 16) * 64 + b
           /\ w % 4096 = (buffer % 64) * 64 + b
  <1> DEFINE s == ShiftLeft(buffer, 64)
  <1>0. w = s + b
    OBVIOUS
  <1>1. s \in 0 .. BufferSize - 1 /\ s % 8192 = (buffer * 64) % 8192
    BY Wrap DEF ShiftLeft
  <1>2. BufferSize \in Nat /\ BufferSize % 8192 = 0
    BY FingerprintAssumption
  <1> HIDE DEF s
  <1>3. s % 64 = 0
    BY <1>1
  <1>4. w \in 0 .. BufferSize - 1
    BY <1>0, <1>1, <1>2, <1>3 DEF Indices
  <1>5. w % 64 = b
    BY <1>0, <1>1, <1>3 DEF Indices
  <1>6. w % 256 = (buffer % 4) * 64 + b
    BY <1>0, <1>1 DEF Indices
  <1>7. w % 1024 = (buffer % 16) * 64 + b
    BY <1>0, <1>1 DEF Indices
  <1>8. w % 4096 = (buffer % 64) * 64 + b
    BY <1>0, <1>1 DEF Indices
  <1> QED
    BY <1>4, <1>5, <1>6, <1>7, <1>8

(* The bits at the left are taken out.                                     *)
LEMMA TakeIndex ==
    ASSUME NEW buffer \in Nat
    PROVE  /\ (buffer \div 1) % 64 = buffer % 64
           /\ (buffer \div 4) % 64 = (buffer % 256) \div 4
           /\ (buffer \div 16) % 64 = (buffer % 1024) \div 16
           /\ (buffer \div 64) % 64 = (buffer % 4096) \div 64
  OBVIOUS

LEMMA TakeByte ==
    ASSUME NEW buffer \in Nat
    PROVE  /\ (buffer \div 1) % 256 = buffer % 256
           /\ (buffer \div 4) % 256 = (buffer % 1024) \div 4
           /\ (buffer \div 16) % 256 = (buffer % 4096) \div 16
  OBVIOUS

(* The bits of two bytes in the buffer.                                    *)
LEMMA SplitTen ==
    ASSUME NEW buffer \in Nat, NEW x \in ByteValues, NEW y \in ByteValues,
           buffer % 1024 = (x % 4) * 256 + y
    PROVE  /\ (buffer % 1024) \div 16 = (x % 4) * 16 + y \div 16
           /\ buffer % 16 = y % 16
  <1>1. buffer % 16 = (buffer % 1024) % 16
    OBVIOUS
  <1>2. ((x % 4) * 256 + y) \div 16 = (x % 4) * 16 + y \div 16
    BY DEF ByteValues
  <1>3. ((x % 4) * 256 + y) % 16 = y % 16
    BY DEF ByteValues
  <1> QED
    BY <1>1, <1>2, <1>3

LEMMA SplitTwelve ==
    ASSUME NEW buffer \in Nat, NEW x \in ByteValues, NEW y \in ByteValues,
           buffer % 4096 = (x % 16) * 256 + y
    PROVE  /\ (buffer % 4096) \div 64 = (x % 16) * 4 + y \div 64
           /\ buffer % 64 = y % 64
  <1>1. buffer % 64 = (buffer % 4096) % 64
    OBVIOUS
  <1>2. ((x % 16) * 256 + y) \div 64 = (x % 16) * 4 + y \div 64
    BY DEF ByteValues
  <1>3. ((x % 16) * 256 + y) % 64 = y % 64
    BY DEF ByteValues
  <1> QED
    BY <1>1, <1>2, <1>3

(* The bits of two characters in the buffer.                               *)
LEMMA SplitCharacters ==
    ASSUME NEW buffer \in Nat, NEW s \in Indices, NEW t \in Indices
    PROVE  /\ buffer % 1024 = (s % 16) * 64 + t => buffer % 4 = t % 4
           /\ buffer % 4096 = s * 64 + t => buffer % 16 = t % 16
  <1>1. buffer % 4 = (buffer % 1024) % 4 /\ buffer % 16 = (buffer % 4096) % 16
    OBVIOUS
  <1>2. ((s % 16) * 64 + t) % 4 = t % 4 /\ (s * 64 + t) % 16 = t % 16
    BY DEF Indices
  <1> QED
    BY <1>1, <1>2

(* Parts of bytes are groups of six bits.                                  *)
LEMMA PartsOfByte ==
    ASSUME NEW x \in ByteValues, NEW y \in ByteValues
    PROVE  /\ x % 4 \in Nat /\ x % 16 \in Nat
           /\ x \div 4 \in Indices
           /\ (x % 4) * 16 + y \div 16 \in Indices
           /\ (x % 16) * 4 + y \div 64 \in Indices
           /\ x % 64 \in Indices
  BY DEF ByteValues, Indices

(* The characters of three bytes give the bytes back.                      *)
LEMMA BytesBack ==
    ASSUME NEW x \in ByteValues, NEW y \in ByteValues, NEW z \in ByteValues
    PROVE  /\ ((x \div 4) * 64 + ((x % 4) * 16 + y \div 16)) \div 16 = x
           /\ ((((x % 4) * 16 + y \div 16) % 16) * 64
                   + ((y % 16) * 4 + z \div 64)) \div 4 = y
           /\ (((y % 16) * 4 + z \div 64) % 4) * 64 + (z % 64) = z
  <1>1. ((x \div 4) * 64 + ((x % 4) * 16 + y \div 16)) \div 16 = x
    BY DEF ByteValues
  <1>2. ((x % 4) * 16 + y \div 16) % 16 = y \div 16
    BY DEF ByteValues
  <1>3. ((y \div 16) * 64 + ((y % 16) * 4 + z \div 64)) \div 4 = y
    BY DEF ByteValues
  <1>4. ((y % 16) * 4 + z \div 64) % 4 = z \div 64
    BY DEF ByteValues
  <1>5. (z \div 64) * 64 + (z % 64) = z
    BY DEF ByteValues
  <1> QED
    BY <1>1, <1>2, <1>3, <1>4, <1>5

(* The four groups of six bits of three bytes.                             *)
LEMMA Sextets ==
    ASSUME NEW i \in Nat
    PROVE  /\ SextetOf(4 * i + 1) = ByteAt(3 * i + 1) \div 4
           /\ SextetOf(4 * i + 2) =
                (ByteAt(3 * i + 1) % 4) * 16 + ByteAt(3 * i + 2) \div 16
           /\ SextetOf(4 * i + 3) =
                (ByteAt(3 * i + 2) % 16) * 4 + ByteAt(3 * i + 3) \div 64
           /\ SextetOf(4 * i + 4) = ByteAt(3 * i + 3) % 64
  <1>1. /\ (4 * i + 1 - 1) \div 4 = i /\ (4 * i + 1 - 1) % 4 = 0
        /\ (4 * i + 2 - 1) \div 4 = i /\ (4 * i + 2 - 1) % 4 = 1
        /\ (4 * i + 3 - 1) \div 4 = i /\ (4 * i + 3 - 1) % 4 = 2
        /\ (4 * i + 4 - 1) \div 4 = i /\ (4 * i + 4 - 1) % 4 = 3
    OBVIOUS
  <1> QED
    BY <1>1 DEF SextetOf

-----------------------------------------------------------------------------
(* The steps of the encoder.                                               *)

LEMMA CodecInit == Init => CodecInv
  <1> SUFFICES ASSUME Init PROVE CodecInv
    OBVIOUS
  <1>1. TypeOK
    BY FingerprintAssumption DEF Init, TypeOK
  <1>2. EvenCount /\ EncodesBase64 /\ PadInv /\ DecodeInv /\ DoneInv
    BY DEF Init, EvenCount, EncodesBase64, PadInv, DecodeInv, DoneInv
  <1>3. EncodeInv
    BY <1>1 DEF Init, EncodeInv, BitsOfBytes, TypeOK
  <1> QED
    BY <1>1, <1>2, <1>3 DEF CodecInv

LEMMA ReadByteStep == CodecInv /\ ReadByte => CodecInv'
  <1> SUFFICES ASSUME CodecInv, ReadByte PROVE CodecInv'
    OBVIOUS
  <1> DEFINE b == bytes[position + 1]
  <1>1. /\ TypeOK /\ EvenCount /\ EncodesBase64 /\ EncodeInv
        /\ phase = "encode" /\ phase' = "encode"
        /\ UNCHANGED <<bytes, text, restored>>
        /\ bitCount \in {0, 2, 4} /\ bitCount' = bitCount + 8
        /\ position < Len(bytes) /\ position' = position + 1
    BY DEF CodecInv, ReadByte, EvenCount
  <1>2. b \in ByteValues /\ bitBuffer \in Nat /\ position \in Nat /\ Len(bytes) \in Nat
    BY <1>1 DEF TypeOK
  <1>3. bitBuffer' = ShiftLeft(bitBuffer, 256) + b
    BY DEF ReadByte
  <1> HIDE DEF b
  <1>4. /\ bitBuffer' \in 0 .. BufferSize - 1
        /\ bitBuffer' % 256 = b
        /\ bitBuffer' % 1024 = (bitBuffer % 4) * 256 + b
        /\ bitBuffer' % 4096 = (bitBuffer % 16) * 256 + b
    BY <1>2, <1>3, JoinByte
  <1>5. TypeOK'
    BY <1>1, <1>2, <1>4 DEF TypeOK
  <1>6. EvenCount' /\ EncodesBase64' /\ PadInv' /\ DecodeInv' /\ DoneInv'
    <2>1. EvenCount' /\ PadInv' /\ DecodeInv' /\ DoneInv'
      BY <1>1 DEF EvenCount, PadInv, DecodeInv, DoneInv
    <2>2. \A k : SextetOf(k)' = SextetOf(k)
      BY <1>1 DEF SextetOf, ByteAt
    <2>3. EncodesBase64'
      BY <1>1, <2>2 DEF EncodesBase64
    <2> QED
      BY <2>1, <2>3
  <1>7. BitsOfBytes'
    <2>1. bytes'[position'] = b /\ bytes'[position' - 1] = bytes[position]
      BY <1>1, <1>2 DEF b
    <2>2. CASE bitCount = 0
      BY <1>1, <1>4, <2>1, <2>2 DEF BitsOfBytes
    <2>3. CASE bitCount = 2
      <3>1. bitBuffer % 4 = bytes[position] % 4
        BY <1>1, <2>3 DEF EncodeInv, BitsOfBytes
      <3>2. bitBuffer' % 1024 = (bytes[position] % 4) * 256 + b
        BY <1>4, <3>1
      <3> QED
        BY <1>1, <2>1, <2>3, <3>2 DEF BitsOfBytes
    <2>4. CASE bitCount = 4
      <3>1. bitBuffer % 16 = bytes[position] % 16
        BY <1>1, <2>4 DEF EncodeInv, BitsOfBytes
      <3>2. bitBuffer' % 4096 = (bytes[position] % 16) * 256 + b
        BY <1>4, <3>1
      <3> QED
        BY <1>1, <2>1, <2>4, <3>2 DEF BitsOfBytes
    <2> QED
      BY <1>1, <2>2, <2>3, <2>4
  <1>8. EncodeInv'
    BY <1>1, <1>2, <1>7 DEF EncodeInv, TypeOK
  <1> QED
    BY <1>5, <1>6, <1>8 DEF CodecInv

(* A step that leaves the bytes and the text alone keeps it base64; the     *)
(* length of the text only matters once the decoder runs.                  *)
LEMMA TextStays ==
    ASSUME EncodesBase64, UNCHANGED <<bytes, text>>,
           \/ phase' \in {"encode", "pad"}
           \/ phase \in {"decode", "done"}
           \/ Len(text) = 4 * ((Len(bytes) + 2) \div 3)
    PROVE  EncodesBase64'
  <1>1. bytes' = bytes /\ text' = text
    OBVIOUS
  <1>2. ASSUME NEW k PROVE SextetOf(k)' = SextetOf(k)
    <2>1. \A i : ByteAt(i)' = ByteAt(i)
      BY <1>1 DEF ByteAt
    <2> QED
      BY <2>1, Zenon DEF SextetOf
  <1>3. ASSUME NEW k \in DOMAIN text'
        PROVE  text'[k] = IF 6 * (k - 1) < 8 * Len(bytes') THEN SextetOf(k)' ELSE Pad
    <2>1. text[k] = IF 6 * (k - 1) < 8 * Len(bytes) THEN SextetOf(k) ELSE Pad
      BY <1>1, <1>3, Zenon DEF EncodesBase64
    <2> QED
      BY <1>1, <1>2, <2>1, Zenon
  <1>4. phase' \in {"decode", "done"} => Len(text') = 4 * ((Len(bytes') + 2) \div 3)
    <2>1. phase' \in {"decode", "done"} => Len(text) = 4 * ((Len(bytes) + 2) \div 3)
      <3>1. phase' \in {"decode", "done"} =>
               phase \in {"decode", "done"}
               \/ Len(text) = 4 * ((Len(bytes) + 2) \div 3)
        OBVIOUS
      <3> QED
        BY <3>1, Zenon DEF EncodesBase64
    <2> QED
      BY <1>1, <2>1, Zenon
  <1> QED
    BY <1>3, <1>4, Zenon DEF EncodesBase64

(* A character that is added to text keeps it base64.                      *)
LEMMA AddCharacter ==
    ASSUME TypeOK, EncodesBase64, NEW c \in Indices \cup {Pad},
           text' = Append(text, c), bytes' = bytes, phase' \in {"encode", "pad"},
           c = IF 6 * Len(text) < 8 * Len(bytes) THEN SextetOf(Len(text) + 1) ELSE Pad
    PROVE  EncodesBase64'
  <1>1. text \in Seq(Indices \cup {Pad}) /\ Len(text) \in Nat
    BY DEF TypeOK
  <1>2. Len(text') = Len(text) + 1 /\ DOMAIN text' = 1 .. Len(text) + 1
    BY <1>1
  <1>3. \A k : SextetOf(k)' = SextetOf(k)
    BY DEF SextetOf, ByteAt
  <1>4. ASSUME NEW k \in DOMAIN text'
        PROVE  text'[k] =
                 IF 6 * (k - 1) < 8 * Len(bytes) THEN SextetOf(k) ELSE Pad
    <2>1. CASE k \in DOMAIN text
      <3>1. text'[k] = text[k]
        BY <1>1, <2>1
      <3> QED
        BY <2>1, <3>1 DEF EncodesBase64
    <2>2. CASE k = Len(text) + 1
      <3>1. text'[k] = c /\ k - 1 = Len(text)
        BY <1>1, <2>2
      <3> QED
        BY <2>2, <3>1
    <2> QED
      BY <1>1, <1>2, <2>1, <2>2
  <1> QED
    BY <1>3, <1>4 DEF EncodesBase64

LEMMA WriteIndexStep == CodecInv /\ WriteIndex => CodecInv'
  <1> SUFFICES ASSUME CodecInv, WriteIndex PROVE CodecInv'
    OBVIOUS
  <1> DEFINE e == Len(text)
             c == (bitBuffer \div PowerOf2(bitCount')) % 64
  <1>1. /\ TypeOK /\ EvenCount /\ EncodesBase64 /\ EncodeInv
        /\ phase = "encode" /\ phase' = "encode"
        /\ UNCHANGED <<bytes, bitBuffer, position, restored>>
        /\ bitCount \in {6, 8, 10, 12} /\ bitCount' = bitCount - 6
        /\ text' = Append(text, c)
    BY DEF CodecInv, WriteIndex, EvenCount
  <1>2. /\ bitBuffer \in Nat /\ position \in Nat /\ e \in Nat /\ Len(bytes) \in Nat
        /\ position <= Len(bytes)
        /\ 6 * e + bitCount = 8 * position
    BY <1>1 DEF TypeOK, EncodeInv
  <1>3. /\ bytes[position] \in ByteValues
        /\ position > 1 => bytes[position - 1] \in ByteValues
    BY <1>1, <1>2 DEF TypeOK
  <1>4. c = SextetOf(e + 1) /\ BitsOfBytes'
    <2>1. CASE bitCount = 6
      <3>1. PICK i \in Nat : e = 4 * i + 3 /\ position = 3 * i + 3
        <4>1. e = 4 * (e \div 4) + 3 /\ position = 3 * (e \div 4) + 3
          BY <1>2, <2>1
        <4> QED
          BY <1>2, <4>1
      <3>2. SextetOf(e + 1) = bytes[position] % 64
        BY <1>2, <3>1, Sextets DEF ByteAt
      <3>3. bitBuffer % 64 = bytes[position] % 64
        BY <1>1, <2>1 DEF EncodeInv, BitsOfBytes
      <3>4. c = bitBuffer % 64
        BY <1>1, <1>2, <2>1, TakeIndex DEF PowerOf2
      <3> QED
        BY <1>1, <2>1, <3>2, <3>3, <3>4 DEF BitsOfBytes
    <2>2. CASE bitCount = 8
      <3>1. PICK i \in Nat : e = 4 * i /\ position = 3 * i + 1
        <4>1. e = 4 * (e \div 4) /\ position = 3 * (e \div 4) + 1
          BY <1>2, <2>2
        <4> QED
          BY <1>2, <4>1
      <3>2. SextetOf(e + 1) = bytes[position] \div 4
        BY <1>2, <3>1, Sextets DEF ByteAt
      <3>3. bitBuffer % 256 = bytes[position]
        BY <1>1, <2>2 DEF EncodeInv, BitsOfBytes
      <3>4. c = (bitBuffer % 256) \div 4
        BY <1>1, <1>2, <2>2, TakeIndex DEF PowerOf2
      <3>5. bitBuffer % 4 = bytes[position] % 4
        BY <1>2, <3>3
      <3> QED
        BY <1>1, <2>2, <3>2, <3>3, <3>4, <3>5 DEF BitsOfBytes
    <2>3. CASE bitCount = 10
      <3>1. PICK i \in Nat : e = 4 * i + 1 /\ position = 3 * i + 2
        <4>1. e = 4 * (e \div 4) + 1 /\ position = 3 * (e \div 4) + 2
          BY <1>2, <2>3
        <4> QED
          BY <1>2, <4>1
      <3>2. SextetOf(e + 1) = (bytes[position - 1] % 4) * 16 + bytes[position] \div 16
        BY <1>2, <3>1, Sextets DEF ByteAt
      <3>3. bitBuffer % 1024 = (bytes[position - 1] % 4) * 256 + bytes[position]
        BY <1>1, <2>3 DEF EncodeInv, BitsOfBytes
      <3>4. c = (bitBuffer % 1024) \div 16
        BY <1>1, <1>2, <2>3, TakeIndex DEF PowerOf2
      <3>5. /\ (bitBuffer % 1024) \div 16 =
                  (bytes[position - 1] % 4) * 16 + bytes[position] \div 16
            /\ bitBuffer % 16 = bytes[position] % 16
        <4> DEFINE x == bytes[position - 1]
                   y == bytes[position]
        <4>1. x \in ByteValues /\ y \in ByteValues
          BY <1>2, <1>3, <3>1
        <4>2. bitBuffer \in Nat
          BY <1>2
        <4>3. bitBuffer % 1024 = (x % 4) * 256 + y
          BY <3>3
        <4> HIDE DEF x, y
        <4>4. /\ (bitBuffer % 1024) \div 16 = (x % 4) * 16 + y \div 16
              /\ bitBuffer % 16 = y % 16
          BY <4>1, <4>2, <4>3, SplitTen
        <4> QED
          BY <4>4 DEF x, y
      <3> QED
        BY <1>1, <2>3, <3>2, <3>4, <3>5 DEF BitsOfBytes
    <2>4. CASE bitCount = 12
      <3>1. PICK i \in Nat : e = 4 * i + 2 /\ position = 3 * i + 3
        <4>1. e = 4 * (e \div 4) + 2 /\ position = 3 * (e \div 4) + 3
          BY <1>2, <2>4
        <4> QED
          BY <1>2, <4>1
      <3>2. SextetOf(e + 1) = (bytes[position - 1] % 16) * 4 + bytes[position] \div 64
        BY <1>2, <3>1, Sextets DEF ByteAt
      <3>3. bitBuffer % 4096 = (bytes[position - 1] % 16) * 256 + bytes[position]
        BY <1>1, <2>4 DEF EncodeInv, BitsOfBytes
      <3>4. c = (bitBuffer % 4096) \div 64
        BY <1>1, <1>2, <2>4, TakeIndex DEF PowerOf2
      <3>5. /\ (bitBuffer % 4096) \div 64 =
                  (bytes[position - 1] % 16) * 4 + bytes[position] \div 64
            /\ bitBuffer % 64 = bytes[position] % 64
        <4> DEFINE x == bytes[position - 1]
                   y == bytes[position]
        <4>1. x \in ByteValues /\ y \in ByteValues
          BY <1>2, <1>3, <3>1
        <4>2. bitBuffer \in Nat
          BY <1>2
        <4>3. bitBuffer % 4096 = (x % 16) * 256 + y
          BY <3>3
        <4> HIDE DEF x, y
        <4>4. /\ (bitBuffer % 4096) \div 64 = (x % 16) * 4 + y \div 64
              /\ bitBuffer % 64 = y % 64
          BY <4>1, <4>2, <4>3, SplitTwelve
        <4> QED
          BY <4>4 DEF x, y
      <3> QED
        BY <1>1, <2>4, <3>2, <3>4, <3>5 DEF BitsOfBytes
    <2> QED
      BY <1>1, <2>1, <2>2, <2>3, <2>4
  <1>5. c \in Indices
    <2>1. PowerOf2(bitCount') \in {1, 4, 16, 64}
      BY <1>1 DEF PowerOf2
    <2>2. bitBuffer \div PowerOf2(bitCount') \in Nat
      BY <1>2, <2>1
    <2> QED
      BY <2>2 DEF Indices
  <1> HIDE DEF c
  <1>6. TypeOK' /\ Len(text') = e + 1
    BY <1>1, <1>5 DEF TypeOK
  <1>7. EncodesBase64'
    <2>1. 6 * e < 8 * Len(bytes)
      BY <1>1, <1>2
    <2> QED
      BY <1>1, <1>4, <1>5, <2>1, AddCharacter
  <1>8. EvenCount' /\ PadInv' /\ DecodeInv' /\ DoneInv'
    BY <1>1 DEF EvenCount, PadInv, DecodeInv, DoneInv
  <1>9. EncodeInv'
    BY <1>1, <1>2, <1>4, <1>6 DEF EncodeInv
  <1> QED
    BY <1>6, <1>7, <1>8, <1>9 DEF CodecInv

LEMMA WriteRestStep == CodecInv /\ WriteRest => CodecInv'
  <1> SUFFICES ASSUME CodecInv, WriteRest PROVE CodecInv'
    OBVIOUS
  <1> DEFINE n == Len(bytes)
             e == Len(text)
             c == ShiftLeft(bitBuffer, PowerOf2(6 - bitCount)) % 64
  <1>1. /\ TypeOK /\ EvenCount /\ EncodesBase64 /\ EncodeInv
        /\ phase = "encode" /\ phase' = "pad"
        /\ UNCHANGED <<bytes, bitBuffer, bitCount, position, restored>>
        /\ bitCount \in {0, 2, 4}
        /\ position = Len(bytes)
    BY DEF CodecInv, WriteRest, EvenCount
  <1>2. /\ bitBuffer \in Nat /\ e \in Nat /\ n \in Nat
        /\ 6 * e + bitCount = 8 * n
        /\ restored = <<>>
    BY <1>1 DEF TypeOK, EncodeInv
  <1>3. n > 0 => bytes[n] \in ByteValues
    BY <1>1, <1>2 DEF TypeOK
  <1>4. EvenCount' /\ EncodeInv' /\ DecodeInv' /\ DoneInv'
    BY <1>1 DEF EvenCount, EncodeInv, DecodeInv, DoneInv
  <1>5. CASE bitCount = 0
    <2>1. text' = text
      BY <1>5 DEF WriteRest
    <2>2. TypeOK' /\ EncodesBase64'
      <3>1. TypeOK'
        BY <1>1, <2>1 DEF TypeOK
      <3>2. EncodesBase64'
        BY <1>1, <2>1, TextStays
      <3> QED
        BY <3>1, <3>2
    <2>3. PadInv'
      BY <1>1, <1>2, <1>5, <2>1 DEF PadInv
    <2> QED
      BY <1>4, <2>2, <2>3 DEF CodecInv
  <1>6. CASE bitCount \in {2, 4}
    <2>1. text' = Append(text, c)
      BY <1>6 DEF WriteRest
    <2>2. c = SextetOf(e + 1)
      <3>1. CASE bitCount = 2
        <4>1. PICK i \in Nat : e = 4 * i + 1 /\ n = 3 * i + 1
          <5>1. e = 4 * (e \div 4) + 1 /\ n = 3 * (e \div 4) + 1
            BY <1>2, <3>1
          <5> QED
            BY <1>2, <5>1
        <4>2. SextetOf(e + 1) = (bytes[n] % 4) * 16
          <5>1. SextetOf(e + 1) = (ByteAt(n) % 4) * 16 + ByteAt(n + 1) \div 16
            BY <4>1, Sextets
          <5>2. ByteAt(n) = bytes[n] /\ ByteAt(n + 1) = 0 /\ 0 \div 16 = 0
            BY <1>2, <4>1 DEF ByteAt
          <5>3. bytes[n] % 4 \in Nat
            <6>1. bytes[n] \in ByteValues
              BY <1>2, <1>3, <4>1
            <6> QED
              BY <6>1, PartsOfByte
          <5> QED
            BY <5>1, <5>2, <5>3
        <4>3. bitBuffer % 4 = bytes[n] % 4
          BY <1>1, <3>1 DEF EncodeInv, BitsOfBytes
        <4>4. c = (bitBuffer * 16) % 64
          <5>1. bitBuffer * 16 \in Nat
            BY <1>2
          <5>2. ((bitBuffer * 16) % BufferSize) % 8192 = (bitBuffer * 16) % 8192
            BY <5>1, Wrap
          <5>3. (bitBuffer * 16) % BufferSize \in Nat
            BY <5>1, Wrap, FingerprintAssumption
          <5>4. c = ((bitBuffer * 16) % BufferSize) % 64
            <6>1. PowerOf2(6 - bitCount) = 16
              BY <3>1 DEF PowerOf2
            <6> QED
              BY <6>1 DEF ShiftLeft
          <5> QED
            BY <5>1, <5>2, <5>3, <5>4
        <4>5. (bitBuffer * 16) % 64 = (bitBuffer % 4) * 16
          BY <1>2
        <4> QED
          BY <4>2, <4>3, <4>4, <4>5
      <3>2. CASE bitCount = 4
        <4>1. PICK i \in Nat : e = 4 * i + 2 /\ n = 3 * i + 2
          <5>1. e = 4 * (e \div 4) + 2 /\ n = 3 * (e \div 4) + 2
            BY <1>2, <3>2
          <5> QED
            BY <1>2, <5>1
        <4>2. SextetOf(e + 1) = (bytes[n] % 16) * 4
          <5>1. SextetOf(e + 1) = (ByteAt(n) % 16) * 4 + ByteAt(n + 1) \div 64
            BY <4>1, Sextets
          <5>2. ByteAt(n) = bytes[n] /\ ByteAt(n + 1) = 0 /\ 0 \div 64 = 0
            BY <1>2, <4>1 DEF ByteAt
          <5>3. bytes[n] % 16 \in Nat
            <6>1. bytes[n] \in ByteValues
              BY <1>2, <1>3, <4>1
            <6> QED
              BY <6>1, PartsOfByte
          <5> QED
            BY <5>1, <5>2, <5>3
        <4>3. bitBuffer % 16 = bytes[n] % 16
          BY <1>1, <3>2 DEF EncodeInv, BitsOfBytes
        <4>4. c = (bitBuffer * 4) % 64
          <5>1. bitBuffer * 4 \in Nat
            BY <1>2
          <5>2. ((bitBuffer * 4) % BufferSize) % 8192 = (bitBuffer * 4) % 8192
            BY <5>1, Wrap
          <5>3. (bitBuffer * 4) % BufferSize \in Nat
            BY <5>1, Wrap, FingerprintAssumption
          <5>4. c = ((bitBuffer * 4) % BufferSize) % 64
            <6>1. PowerOf2(6 - bitCount) = 4
              BY <3>2 DEF PowerOf2
            <6> QED
              BY <6>1 DEF ShiftLeft
          <5> QED
            BY <5>1, <5>2, <5>3, <5>4
        <4>5. (bitBuffer * 4) % 64 = (bitBuffer % 16) * 4
          BY <1>2
        <4> QED
          BY <4>2, <4>3, <4>4, <4>5
      <3> QED
        BY <1>6, <3>1, <3>2
    <2>3. c \in Indices
      <3>1. PowerOf2(6 - bitCount) \in Nat
        BY <1>6 DEF PowerOf2
      <3>2. bitBuffer * PowerOf2(6 - bitCount) \in Nat
        BY <1>2, <3>1
      <3>3. ShiftLeft(bitBuffer, PowerOf2(6 - bitCount)) \in Nat
        BY <3>2, FingerprintAssumption DEF ShiftLeft
      <3> QED
        BY <3>3 DEF Indices
    <2> HIDE DEF c
    <2>4. TypeOK' /\ Len(text') = e + 1
      BY <1>1, <2>1, <2>3 DEF TypeOK
    <2>5. 6 * e < 8 * n
      BY <1>2, <1>6
    <2>6. EncodesBase64'
      BY <1>1, <2>1, <2>2, <2>3, <2>5, AddCharacter
    <2>7. PadInv'
      BY <1>1, <1>2, <1>6, <2>4 DEF PadInv
    <2> QED
      BY <1>4, <2>4, <2>6, <2>7 DEF CodecInv
  <1> QED
    BY <1>1, <1>5, <1>6

LEMMA AddPadStep == CodecInv /\ AddPad => CodecInv'
  <1> SUFFICES ASSUME CodecInv, AddPad PROVE CodecInv'
    OBVIOUS
  <1>1. /\ TypeOK /\ EvenCount /\ EncodesBase64 /\ PadInv
        /\ phase = "pad" /\ phase' = "pad"
        /\ UNCHANGED <<bytes, bitBuffer, bitCount, position, restored>>
        /\ Len(text) % 4 # 0 /\ text' = Append(text, Pad)
    BY DEF CodecInv, AddPad
  <1>2. Len(text) \in Nat /\ Len(bytes) \in Nat /\ Len(text') = Len(text) + 1
    BY <1>1 DEF TypeOK
  <1>3. /\ 6 * Len(text) >= 8 * Len(bytes)
        /\ Len(text) <= 4 * ((Len(bytes) + 2) \div 3)
        /\ restored = <<>>
    BY <1>1 DEF PadInv
  <1>4. TypeOK' /\ EvenCount' /\ EncodeInv' /\ DecodeInv' /\ DoneInv'
    BY <1>1 DEF TypeOK, EvenCount, EncodeInv, DecodeInv, DoneInv
  <1>5. EncodesBase64'
    <2>1. ~(6 * Len(text) < 8 * Len(bytes)) /\ Pad \in Indices \cup {Pad}
      BY <1>2, <1>3
    <2> QED
      BY <1>1, <2>1, AddCharacter
  <1>6. PadInv'
    <2>1. Len(text) + 1 <= 4 * ((Len(bytes) + 2) \div 3)
      BY <1>1, <1>2, <1>3
    <2> QED
      BY <1>1, <1>2, <1>3, <2>1 DEF PadInv
  <1> QED
    BY <1>4, <1>5, <1>6 DEF CodecInv

-----------------------------------------------------------------------------
(* The steps of the decoder.                                               *)

LEMMA StartDecodingStep == CodecInv /\ StartDecoding => CodecInv'
  <1> SUFFICES ASSUME CodecInv, StartDecoding PROVE CodecInv'
    OBVIOUS
  <1>1. /\ TypeOK /\ EncodesBase64 /\ PadInv
        /\ phase = "pad" /\ phase' = "decode"
        /\ UNCHANGED <<bytes, text, restored>>
        /\ bitBuffer' = 0 /\ bitCount' = 0 /\ position' = 0
        /\ Len(text) % 4 = 0
    BY DEF CodecInv, StartDecoding
  <1>2. /\ Len(text) \in Nat /\ Len(bytes) \in Nat
        /\ 6 * Len(text) >= 8 * Len(bytes)
        /\ Len(text) <= 4 * ((Len(bytes) + 2) \div 3)
        /\ restored = <<>>
    BY <1>1 DEF TypeOK, PadInv
  <1>3. Len(text) = 4 * ((Len(bytes) + 2) \div 3)
    BY <1>1, <1>2
  <1>4. TypeOK'
    BY <1>1, FingerprintAssumption DEF TypeOK
  <1>5. EncodesBase64'
    BY <1>1, <1>3, TextStays
  <1>6. EvenCount' /\ EncodeInv' /\ PadInv' /\ DoneInv'
    BY <1>1 DEF EvenCount, EncodeInv, PadInv, DoneInv
  <1>7. DecodeInv'
    BY <1>1, <1>2 DEF DecodeInv, BitsOfText
  <1> QED
    BY <1>4, <1>5, <1>6, <1>7 DEF CodecInv

(* What the decoder knows of a character that is not "=".                  *)
LEMMA CharacterAt ==
    ASSUME TypeOK, EncodesBase64, NEW k \in 1 .. Len(text)
    PROVE  /\ text[k] # Pad => text[k] \in Indices /\ 6 * (k - 1) < 8 * Len(bytes)
           /\ 6 * (k - 1) < 8 * Len(bytes) => text[k] = SextetOf(k)
  <1>1. text[k] \in Indices \cup {Pad} /\ k \in DOMAIN text /\ Len(bytes) \in Nat
    BY DEF TypeOK
  <1>2. text[k] = IF 6 * (k - 1) < 8 * Len(bytes) THEN SextetOf(k) ELSE Pad
    BY <1>1 DEF EncodesBase64
  <1> QED
    BY <1>1, <1>2

(* A byte, or the zero that stands for one after the end.                  *)
LEMMA ByteAtType ==
    ASSUME TypeOK, NEW j \in Nat \ {0} PROVE ByteAt(j) \in ByteValues
  <1>1. CASE j <= Len(bytes)
    <2>1. bytes[j] \in ByteValues
      BY <1>1 DEF TypeOK
    <2> QED
      BY <1>1, <2>1 DEF ByteAt
  <1>2. CASE ~(j <= Len(bytes))
    BY <1>2 DEF ByteAt, ByteValues
  <1> QED
    BY <1>1, <1>2

(* A group of six bits is not "=".                                         *)
LEMMA SextetType ==
    ASSUME TypeOK, NEW k \in Nat \ {0} PROVE SextetOf(k) \in Indices
  <1>1. \A j \in Nat \ {0} : ByteAt(j) \in ByteValues
    BY ByteAtType
  <1>2. PICK i \in Nat : k \in {4 * i + 1, 4 * i + 2, 4 * i + 3, 4 * i + 4}
    <2>1. LET i == (k - 1) \div 4
          IN  k \in {4 * i + 1, 4 * i + 2, 4 * i + 3, 4 * i + 4} /\ i \in Nat
      OBVIOUS
    <2> QED
      BY <2>1
  <1> DEFINE x == ByteAt(3 * i + 1)
             y == ByteAt(3 * i + 2)
             z == ByteAt(3 * i + 3)
  <1>3. x \in ByteValues /\ y \in ByteValues /\ z \in ByteValues
    BY <1>1, <1>2
  <1>4. SextetOf(k) \in {x \div 4, (x % 4) * 16 + y \div 16,
                         (y % 16) * 4 + z \div 64, z % 64}
    BY <1>2, Sextets
  <1> HIDE DEF x, y, z
  <1> QED
    BY <1>3, <1>4, PartsOfByte

LEMMA ReadIndexStep == CodecInv /\ ReadIndex => CodecInv'
  <1> SUFFICES ASSUME CodecInv, ReadIndex PROVE CodecInv'
    OBVIOUS
  <1> DEFINE b == text[position + 1]
  <1>1. /\ TypeOK /\ EvenCount /\ EncodesBase64 /\ DecodeInv
        /\ phase = "decode" /\ phase' = "decode"
        /\ UNCHANGED <<bytes, text, restored>>
        /\ bitCount \in {0, 2, 4, 6} /\ bitCount' = bitCount + 6
        /\ position < Len(text) /\ position' = position + 1
        /\ b # Pad
    BY DEF CodecInv, ReadIndex, EvenCount
  <1>2. /\ bitBuffer \in Nat /\ position \in Nat /\ Len(text) \in Nat
        /\ Len(restored) \in Nat /\ Len(bytes) \in Nat
    BY <1>1 DEF TypeOK
  <1>3. b \in Indices /\ 6 * position < 8 * Len(bytes)
    <2>1. PICK k \in 1 .. Len(text) : k = position + 1
      BY <1>1, <1>2
    <2>2. text[k] # Pad
      BY <1>1, <2>1
    <2>3. text[k] \in Indices /\ 6 * (k - 1) < 8 * Len(bytes)
      BY <1>1, <2>2, CharacterAt
    <2> QED
      BY <1>2, <2>1, <2>3
  <1>4. bitBuffer' = ShiftLeft(bitBuffer, 64) + b
    BY DEF ReadIndex
  <1> HIDE DEF b
  <1>5. /\ bitBuffer' \in 0 .. BufferSize - 1
        /\ bitBuffer' % 64 = b
        /\ bitBuffer' % 256 = (bitBuffer % 4) * 64 + b
        /\ bitBuffer' % 1024 = (bitBuffer % 16) * 64 + b
        /\ bitBuffer' % 4096 = (bitBuffer % 64) * 64 + b
    BY <1>2, <1>3, <1>4, JoinIndex
  <1>6. TypeOK'
    BY <1>1, <1>2, <1>5 DEF TypeOK
  <1>7. EvenCount' /\ EncodeInv' /\ PadInv' /\ DoneInv'
    BY <1>1 DEF EvenCount, EncodeInv, PadInv, DoneInv
  <1>8. EncodesBase64'
    BY <1>1, TextStays
  <1>9. BitsOfText'
    <2>1. text'[position'] = b /\ text'[position' - 1] = text[position]
      BY <1>1, <1>2 DEF b
    <2>2. CASE bitCount = 0
      BY <1>1, <1>5, <2>1, <2>2 DEF BitsOfText
    <2>3. CASE bitCount = 2
      <3>1. bitBuffer' % 256 = (text[position] % 4) * 64 + b
        BY <1>1, <1>5, <2>3 DEF DecodeInv, BitsOfText
      <3> QED
        BY <1>1, <2>1, <2>3, <3>1 DEF BitsOfText
    <2>4. CASE bitCount = 4
      <3>1. bitBuffer' % 1024 = (text[position] % 16) * 64 + b
        BY <1>1, <1>5, <2>4 DEF DecodeInv, BitsOfText
      <3> QED
        BY <1>1, <2>1, <2>4, <3>1 DEF BitsOfText
    <2>5. CASE bitCount = 6
      <3>1. bitBuffer' % 4096 = text[position] * 64 + b
        BY <1>1, <1>5, <2>5 DEF DecodeInv, BitsOfText
      <3> QED
        BY <1>1, <2>1, <2>5, <3>1 DEF BitsOfText
    <2> QED
      BY <1>1, <2>2, <2>3, <2>4, <2>5
  <1>10. DecodeInv'
    <2>1. /\ 6 * position = 8 * Len(restored) + bitCount
          /\ Len(restored) <= Len(bytes)
          /\ \A j \in DOMAIN restored : restored[j] = bytes[j]
      BY <1>1 DEF DecodeInv
    <2> QED
      BY <1>1, <1>2, <1>3, <1>9, <2>1 DEF DecodeInv
  <1> QED
    BY <1>6, <1>7, <1>8, <1>10 DEF CodecInv

(* A byte that is added to restored is the next one of the original.       *)
LEMMA WriteByteStep == CodecInv /\ WriteByte => CodecInv'
  <1> SUFFICES ASSUME CodecInv, WriteByte PROVE CodecInv'
    OBVIOUS
  <1> DEFINE d == Len(restored)
             p == position
             c == (bitBuffer \div PowerOf2(bitCount')) % 256
  <1>1. /\ TypeOK /\ EvenCount /\ EncodesBase64 /\ DecodeInv
        /\ phase = "decode" /\ phase' = "decode"
        /\ UNCHANGED <<bytes, bitBuffer, position, text>>
        /\ bitCount \in {8, 10, 12} /\ bitCount' = bitCount - 8
        /\ restored' = Append(restored, c)
    BY DEF CodecInv, WriteByte, EvenCount
  <1>2. /\ bitBuffer \in Nat /\ p \in Nat /\ d \in Nat
        /\ Len(bytes) \in Nat /\ Len(text) \in Nat
        /\ p <= Len(text) /\ p > 1
        /\ 6 * p = 8 * d + bitCount /\ 6 * (p - 1) < 8 * Len(bytes)
    <2>1. /\ bitBuffer \in Nat /\ p \in Nat /\ d \in Nat
          /\ Len(bytes) \in Nat /\ Len(text) \in Nat
      BY <1>1 DEF TypeOK
    <2>2. /\ p <= Len(text) /\ 6 * p = 8 * d + bitCount
          /\ p = 0 \/ 6 * (p - 1) < 8 * Len(bytes)
      BY <1>1 DEF DecodeInv
    <2> QED
      BY <1>1, <2>1, <2>2
  <1>3. d + 1 <= Len(bytes)
    BY <1>1, <1>2
  <1>4. PICK s, t : /\ s = text[p - 1] /\ s \in Indices /\ s = SextetOf(p - 1)
                    /\ t = text[p] /\ t \in Indices /\ t = SextetOf(p)
    <2>1. p - 1 \in 1 .. Len(text) /\ p \in 1 .. Len(text)
      BY <1>2
    <2>2. 6 * (p - 1 - 1) < 8 * Len(bytes)
      BY <1>2
    <2>3. text[p - 1] = SextetOf(p - 1) /\ text[p] = SextetOf(p)
      BY <1>1, <1>2, <2>1, <2>2, CharacterAt
    <2>4. SextetOf(p - 1) \in Indices /\ SextetOf(p) \in Indices
      BY <1>1, <1>2, SextetType
    <2> QED
      BY <2>3, <2>4
  <1>5. PICK x, y, z : /\ x = ByteAt(3 * (d \div 3) + 1) /\ x \in ByteValues
                       /\ y = ByteAt(3 * (d \div 3) + 2) /\ y \in ByteValues
                       /\ z = ByteAt(3 * (d \div 3) + 3) /\ z \in ByteValues
    BY <1>1, <1>2, ByteAtType
  <1>6. bytes[d + 1] = ByteAt(d + 1)
    BY <1>3 DEF ByteAt
  <1>7. c = bytes[d + 1] /\ BitsOfText'
    <2>1. CASE bitCount = 8
      <3>1. PICK i \in Nat : d = 3 * i + 2 /\ p = 4 * i + 4 /\ d \div 3 = i
        <4>1. d = 3 * (d \div 3) + 2 /\ p = 4 * (d \div 3) + 4
          BY <1>2, <2>1
        <4> QED
          BY <1>2, <4>1
      <3>2. bitBuffer % 256 = (s % 4) * 64 + t
        BY <1>1, <1>4, <2>1 DEF DecodeInv, BitsOfText
      <3>3. s = (y % 16) * 4 + z \div 64 /\ t = z % 64
        <4>1. p - 1 = 4 * i + 3
          BY <3>1
        <4> QED
          BY <1>4, <1>5, <3>1, <4>1, Sextets
      <3>4. c = bitBuffer % 256
        BY <1>1, <1>2, <2>1, TakeByte DEF PowerOf2
      <3>5. (s % 4) * 64 + t = z
        BY <1>5, <3>3, BytesBack
      <3>6. bytes[d + 1] = z
        BY <1>5, <1>6, <3>1
      <3> QED
        BY <1>1, <2>1, <3>2, <3>4, <3>5, <3>6 DEF BitsOfText
    <2>2. CASE bitCount = 10
      <3>1. PICK i \in Nat : d = 3 * i + 1 /\ p = 4 * i + 3 /\ d \div 3 = i
        <4>1. d = 3 * (d \div 3) + 1 /\ p = 4 * (d \div 3) + 3
          BY <1>2, <2>2
        <4> QED
          BY <1>2, <4>1
      <3>2. bitBuffer % 1024 = (s % 16) * 64 + t
        BY <1>1, <1>4, <2>2 DEF DecodeInv, BitsOfText
      <3>3. s = (x % 4) * 16 + y \div 16 /\ t = (y % 16) * 4 + z \div 64
        <4>1. p - 1 = 4 * i + 2
          BY <3>1
        <4> QED
          BY <1>4, <1>5, <3>1, <4>1, Sextets
      <3>4. c = (bitBuffer % 1024) \div 4
        BY <1>1, <1>2, <2>2, TakeByte DEF PowerOf2
      <3>5. ((s % 16) * 64 + t) \div 4 = y
        BY <1>5, <3>3, BytesBack
      <3>6. bytes[d + 1] = y
        BY <1>5, <1>6, <3>1
      <3>7. bitBuffer % 4 = t % 4
        BY <1>2, <1>4, <3>2, SplitCharacters
      <3> QED
        BY <1>1, <1>4, <2>2, <3>2, <3>4, <3>5, <3>6, <3>7 DEF BitsOfText
    <2>3. CASE bitCount = 12
      <3>1. PICK i \in Nat : d = 3 * i /\ p = 4 * i + 2 /\ d \div 3 = i
        <4>1. d = 3 * (d \div 3) /\ p = 4 * (d \div 3) + 2
          BY <1>2, <2>3
        <4> QED
          BY <1>2, <4>1
      <3>2. bitBuffer % 4096 = s * 64 + t
        BY <1>1, <1>4, <2>3 DEF DecodeInv, BitsOfText
      <3>3. s = x \div 4 /\ t = (x % 4) * 16 + y \div 16
        <4>1. p - 1 = 4 * i + 1
          BY <3>1
        <4> QED
          BY <1>4, <1>5, <3>1, <4>1, Sextets
      <3>4. c = (bitBuffer % 4096) \div 16
        BY <1>1, <1>2, <2>3, TakeByte DEF PowerOf2
      <3>5. (s * 64 + t) \div 16 = x
        BY <1>5, <3>3, BytesBack
      <3>6. bytes[d + 1] = x
        BY <1>5, <1>6, <3>1
      <3>7. bitBuffer % 16 = t % 16
        BY <1>2, <1>4, <3>2, SplitCharacters
      <3> QED
        BY <1>1, <1>4, <2>3, <3>2, <3>4, <3>5, <3>6, <3>7 DEF BitsOfText
    <2> QED
      BY <1>1, <2>1, <2>2, <2>3
  <1>8. c \in ByteValues
    BY <1>1, <1>3, <1>7, <1>2 DEF TypeOK
  <1> HIDE DEF c
  <1>9. TypeOK' /\ Len(restored') = d + 1
    BY <1>1, <1>8 DEF TypeOK
  <1>10. EvenCount' /\ EncodeInv' /\ PadInv' /\ DoneInv'
    BY <1>1 DEF EvenCount, EncodeInv, PadInv, DoneInv
  <1>11. EncodesBase64'
    BY <1>1, TextStays
  <1>12. \A j \in DOMAIN restored' : restored'[j] = bytes[j]
    <2> SUFFICES ASSUME NEW j \in DOMAIN restored' PROVE restored'[j] = bytes[j]
      OBVIOUS
    <2>1. restored \in Seq(ByteValues) /\ \A k \in DOMAIN restored : restored[k] = bytes[k]
      BY <1>1 DEF TypeOK, DecodeInv
    <2>2. CASE j \in DOMAIN restored
      BY <1>1, <1>8, <2>1, <2>2
    <2>3. CASE j = d + 1
      BY <1>1, <1>7, <1>8, <2>1, <2>3
    <2> QED
      BY <1>1, <1>8, <2>1, <2>2, <2>3
  <1>13. DecodeInv'
    <2>1. 6 * position' = 8 * Len(restored') + bitCount'
      BY <1>1, <1>2, <1>9
    <2>2. /\ position' <= Len(text')
          /\ position' = 0 \/ 6 * (position' - 1) < 8 * Len(bytes')
          /\ Len(restored') <= Len(bytes')
      BY <1>1, <1>2, <1>3, <1>9
    <2>3. \A j \in DOMAIN restored' : restored'[j] = bytes'[j]
      BY <1>1, <1>12
    <2> QED
      BY <1>7, <2>1, <2>2, <2>3 DEF DecodeInv
  <1> QED
    BY <1>9, <1>10, <1>11, <1>13 DEF CodecInv

LEMMA FinishStep == CodecInv /\ Finish => CodecInv'
  <1> SUFFICES ASSUME CodecInv, Finish PROVE CodecInv'
    OBVIOUS
  <1>1. /\ TypeOK /\ EvenCount /\ EncodesBase64 /\ DecodeInv
        /\ phase = "decode" /\ phase' = "done" /\ bitCount < 8
        /\ UNCHANGED <<bytes, bitBuffer, bitCount, position, text, restored>>
    BY DEF CodecInv, Finish
  <1>2. TypeOK' /\ EvenCount' /\ EncodeInv' /\ PadInv'
    BY <1>1 DEF TypeOK, EvenCount, EncodeInv, PadInv
  <1>3. EncodesBase64'
    BY <1>1, TextStays
  <1>4. DecodeInv'
    BY <1>1 DEF DecodeInv, BitsOfText
  <1>5. 6 * position >= 8 * Len(bytes)
    <2>1. position \in Nat /\ Len(bytes) \in Nat /\ Len(text) \in Nat
      BY <1>1 DEF TypeOK
    <2>2. position <= Len(text) /\ Len(text) = 4 * ((Len(bytes) + 2) \div 3)
      BY <1>1 DEF DecodeInv, EncodesBase64
    <2>3. CASE position = Len(text)
      BY <2>1, <2>2, <2>3
    <2>4. CASE position < Len(text)
      <3>1. PICK k \in 1 .. Len(text) : k = position + 1
        BY <2>1, <2>4
      <3>2. text[k] = Pad
        BY <2>4, <3>1 DEF Finish
      <3>3. SextetOf(k) # Pad
        <4>1. SextetOf(k) \in Indices
          BY <1>1, <3>1, SextetType
        <4>2. \A x \in Indices : x # Pad
          BY DEF Indices, Pad
        <4> QED
          BY <4>1, <4>2
      <3>4. ~(6 * (k - 1) < 8 * Len(bytes))
        BY <1>1, <3>2, <3>3, CharacterAt
      <3> QED
        BY <2>1, <3>1, <3>4
    <2> QED
      BY <2>1, <2>2, <2>3, <2>4
  <1>6. DoneInv'
    BY <1>1, <1>5 DEF DoneInv
  <1> QED
    BY <1>2, <1>3, <1>4, <1>6 DEF CodecInv

(* Every step of the encoder and of the decoder preserves the invariant.   *)
LEMMA CodecNext == CodecInv /\ [Next]_vars => CodecInv'
  <1> SUFFICES ASSUME CodecInv, [Next]_vars PROVE CodecInv'
    OBVIOUS
  <1>1. CASE UNCHANGED vars
    <2>1. TypeOK' /\ EvenCount' /\ PadInv' /\ DoneInv'
      BY <1>1 DEF vars, CodecInv, TypeOK, EvenCount, PadInv, DoneInv
    <2>2. EncodesBase64'
      <3>1. EncodesBase64 /\ UNCHANGED <<bytes, text, phase>>
        BY <1>1 DEF vars, CodecInv
      <3>2. \/ phase' \in {"encode", "pad"}
            \/ phase \in {"decode", "done"}
        BY <1>1 DEF vars, CodecInv, TypeOK
      <3> QED
        BY <3>1, <3>2, TextStays
    <2>3. EncodeInv'
      BY <1>1 DEF vars, CodecInv, EncodeInv, BitsOfBytes
    <2>4. DecodeInv'
      BY <1>1 DEF vars, CodecInv, DecodeInv, BitsOfText
    <2> QED
      BY <2>1, <2>2, <2>3, <2>4 DEF CodecInv
  <1> QED
    BY <1>1, ReadByteStep, WriteIndexStep, WriteRestStep, AddPadStep,
       StartDecodingStep, ReadIndexStep, WriteByteStep, FinishStep DEF Next

-----------------------------------------------------------------------------
(* The theorems.                                                           *)

(* The encoder and the decoder keep the invariant.                         *)
THEOREM CodecInvariant == Spec => []CodecInv
  BY CodecInit, CodecNext, PTL DEF Spec

(* Types: the buffer never holds more than the bits it keeps.              *)
THEOREM CodecTypes == Spec => []TypeOK
  <1>1. CodecInv => TypeOK
    BY DEF CodecInv
  <1> QED
    BY <1>1, CodecInvariant, PTL

(* What encode writes is base64, for fingerprints of every length.         *)
THEOREM TextIsBase64 == Spec => []EncodesBase64
  <1>1. CodecInv => EncodesBase64
    BY DEF CodecInv
  <1> QED
    BY <1>1, CodecInvariant, PTL

(* decode gives back every fingerprint that encode was given.              *)
THEOREM FingerprintIsRestored == Spec => []FingerprintSurvives
  <1>1. CodecInv => FingerprintSurvives
    <2> SUFFICES ASSUME CodecInv, phase = "done" PROVE restored = bytes
      BY DEF FingerprintSurvives
    <2>1. restored \in Seq(ByteValues) /\ bytes \in Seq(ByteValues)
      BY DEF CodecInv, TypeOK
    <2>2. /\ 6 * position = 8 * Len(restored) + bitCount
          /\ Len(restored) <= Len(bytes)
          /\ \A j \in DOMAIN restored : restored[j] = bytes[j]
      BY DEF CodecInv, DecodeInv
    <2>3. bitCount \in 0 .. 7 /\ 6 * position >= 8 * Len(bytes) /\ position \in Nat
      BY DEF CodecInv, DoneInv, TypeOK
    <2>4. Len(restored) = Len(bytes)
      BY <2>1, <2>2, <2>3
    <2> QED
      BY <2>1, <2>2, <2>4
  <1> QED
    BY <1>1, CodecInvariant, PTL

=============================================================================
