---------------------------- MODULE Fingerprint ----------------------------
(***************************************************************************)
(* FingerprintToBase64 of lib/compact/base64.js: the bytes of a DTLS       *)
(* certificate fingerprint are written as base64, and read back by the     *)
(* peer.  Both loops collect bits in bitBuffer, of which bitCount are      *)
(* still to be written.                                                    *)
(*                                                                         *)
(* A byte stands for its two hexadecimal digits.  A character is its       *)
(* position in CHARSET, and Pad is "=".  JavaScript shifts 32-bit          *)
(* integers: what is shifted out at the left is lost.  BufferSize is the   *)
(* number of values of the buffer, 2^32 in the code; that the 32nd bit is  *)
(* a sign changes none of the bits below it, and only those are written.   *)
(***************************************************************************)
EXTENDS Integers, Sequences

CONSTANTS Fingerprints,  \* the byte sequences that are encoded
          BufferSize     \* number of values of bitBuffer

ByteValues == 0 .. 255
Indices == 0 .. 63
Pad == 64

(* A byte may join bits of which five are not written: 13 bits matter.     *)
ASSUME FingerprintAssumption ==
    /\ Fingerprints \subseteq Seq(ByteValues)
    /\ BufferSize \in Nat \ {0}
    /\ BufferSize % 8192 = 0

VARIABLES
    phase,      \* "encode", "pad", "decode" or "done"
    bytes,      \* byteArray
    bitBuffer,
    bitCount,
    position,   \* how much of the input the loop has read
    text,       \* base64String
    restored    \* hexString, as bytes

vars == <<phase, bytes, bitBuffer, bitCount, position, text, restored>>

(* 2^k for the shifts that occur.                                          *)
PowerOf2(k) == <<1, 2, 4, 8, 16, 32, 64>>[k + 1]

ShiftLeft(buffer, k) == (buffer * k) % BufferSize

-----------------------------------------------------------------------------
Init ==
    /\ phase = "encode"
    /\ bytes \in Fingerprints
    /\ bitBuffer = 0
    /\ bitCount = 0
    /\ position = 0
    /\ text = <<>>
    /\ restored = <<>>

(* for (const byte of byteArray): the next byte joins the buffer.          *)
ReadByte ==
    /\ phase = "encode"
    /\ bitCount < 6
    /\ position < Len(bytes)
    /\ position' = position + 1
    /\ bitBuffer' = ShiftLeft(bitBuffer, 256) + bytes[position + 1]
    /\ bitCount' = bitCount + 8
    /\ UNCHANGED <<phase, bytes, text, restored>>

(* while (bitCount >= 6): the six bits at the left are written.            *)
WriteIndex ==
    /\ phase = "encode"
    /\ bitCount >= 6
    /\ bitCount' = bitCount - 6
    /\ text' = Append(text, (bitBuffer \div PowerOf2(bitCount')) % 64)
    /\ UNCHANGED <<phase, bytes, bitBuffer, position, restored>>

(* Variant: the bits that are left are written without zeros.              *)
WriteRestUnshifted ==
    /\ phase = "encode"
    /\ bitCount < 6
    /\ position = Len(bytes)
    /\ phase' = "pad"
    /\ text' = IF bitCount > 0 THEN Append(text, bitBuffer % 64) ELSE text
    /\ UNCHANGED <<bytes, bitBuffer, bitCount, position, restored>>

(* if (bitCount > 0): the bits that are left, with zeros after them.       *)
WriteRest ==
    /\ phase = "encode"
    /\ bitCount < 6
    /\ position = Len(bytes)
    /\ phase' = "pad"
    /\ text' = IF bitCount > 0
               THEN Append(text, ShiftLeft(bitBuffer, PowerOf2(6 - bitCount)) % 64)
               ELSE text
    /\ UNCHANGED <<bytes, bitBuffer, bitCount, position, restored>>

(* while (base64String.length % 4 !== 0)                                   *)
AddPad ==
    /\ phase = "pad"
    /\ Len(text) % 4 # 0
    /\ text' = Append(text, Pad)
    /\ UNCHANGED <<phase, bytes, bitBuffer, bitCount, position, restored>>

(* The peer starts to decode the text it received.                         *)
StartDecoding ==
    /\ phase = "pad"
    /\ Len(text) % 4 = 0
    /\ phase' = "decode"
    /\ bitBuffer' = 0
    /\ bitCount' = 0
    /\ position' = 0
    /\ UNCHANGED <<bytes, text, restored>>

(* Variant: the loop reads on while a byte is complete.                    *)
ReadIndexEager ==
    /\ phase = "decode"
    /\ position < Len(text)
    /\ text[position + 1] # Pad
    /\ position' = position + 1
    /\ bitBuffer' = ShiftLeft(bitBuffer, 64) + text[position + 1]
    /\ bitCount' = bitCount + 6
    /\ UNCHANGED <<phase, bytes, text, restored>>

(* Variant: "=" is decoded like any other character.                       *)
ReadIndexAll ==
    /\ phase = "decode"
    /\ bitCount < 8
    /\ position < Len(text)
    /\ position' = position + 1
    /\ bitBuffer' = ShiftLeft(bitBuffer, 64) + (text[position + 1] % 64)
    /\ bitCount' = bitCount + 6
    /\ UNCHANGED <<phase, bytes, text, restored>>

(* for (const char of base64String)                                        *)
ReadIndex ==
    /\ phase = "decode"
    /\ bitCount < 8
    /\ position < Len(text)
    /\ text[position + 1] # Pad
    /\ position' = position + 1
    /\ bitBuffer' = ShiftLeft(bitBuffer, 64) + text[position + 1]
    /\ bitCount' = bitCount + 6
    /\ UNCHANGED <<phase, bytes, text, restored>>

(* while (bitCount >= 8): a byte is complete.                              *)
WriteByte ==
    /\ phase = "decode"
    /\ bitCount >= 8
    /\ bitCount' = bitCount - 8
    /\ restored' = Append(restored, (bitBuffer \div PowerOf2(bitCount')) % 256)
    /\ UNCHANGED <<phase, bytes, bitBuffer, position, text>>

(* The end of the text, or the first "=".                                  *)
Finish ==
    /\ phase = "decode"
    /\ bitCount < 8
    /\ position < Len(text) => text[position + 1] = Pad
    /\ phase' = "done"
    /\ UNCHANGED <<bytes, bitBuffer, bitCount, position, text, restored>>

Next ==
    \/ ReadByte \/ WriteIndex \/ WriteRest \/ AddPad
    \/ StartDecoding \/ ReadIndex \/ WriteByte \/ Finish

Spec == Init /\ [][Next]_vars

-----------------------------------------------------------------------------
(* Properties.                                                             *)

(* Types.  The count of bits stays within what the buffer keeps.           *)
TypeOK ==
    /\ phase \in {"encode", "pad", "decode", "done"}
    /\ bytes \in Seq(ByteValues)
    /\ bitBuffer \in 0 .. BufferSize - 1
    /\ bitCount \in 0 .. 13
    /\ position \in Nat
    /\ text \in Seq(Indices \cup {Pad})
    /\ restored \in Seq(ByteValues)

(* The byte at a position, zero after the end.                             *)
ByteAt(i) == IF i <= Len(bytes) THEN bytes[i] ELSE 0

(* Base64 by its definition: three bytes are four groups of six bits.      *)
SextetOf(k) ==
    LET i == 3 * ((k - 1) \div 4)
    IN  << ByteAt(i + 1) \div 4,
           (ByteAt(i + 1) % 4) * 16 + ByteAt(i + 2) \div 16,
           (ByteAt(i + 2) % 16) * 4 + ByteAt(i + 3) \div 64,
           ByteAt(i + 3) % 64 >>[((k - 1) % 4) + 1]

(* Whatever has been written is base64: every group of six bits, then      *)
(* "=" up to a multiple of four characters.                                *)
EncodesBase64 ==
    /\ \A k \in DOMAIN text :
          text[k] = IF 6 * (k - 1) < 8 * Len(bytes) THEN SextetOf(k) ELSE Pad
    /\ phase \in {"decode", "done"} =>
          Len(text) = 4 * ((Len(bytes) + 2) \div 3)

(* The peer sees the fingerprint of the certificate that was offered, all  *)
(* of it and nothing else.                                                 *)
FingerprintSurvives ==
    phase = "done" => restored = bytes

=============================================================================
