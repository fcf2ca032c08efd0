----------------------------- MODULE HexChunks -----------------------------
(***************************************************************************)
(* The hex conversions of struthionidae lib.rs: one call that turns a      *)
(* slice of bytes into text.  The chunks of HexStr::iter_chunks are made   *)
(* by a loop over a usize, with any chunk_size, as the function is public; *)
(* LowerHex for HexStr is that loop with CHUNK_SIZE_FAST.                  *)
(***************************************************************************)
EXTENDS Naturals, Sequences

CONSTANTS UsizeMax,  \* usize::MAX
          Bytes,     \* the values a byte takes
          MaxLen     \* bytes of the longest slice

\* No Rust allocation, and so no slice of bytes, is larger than isize::MAX.
ASSUME HexAssumption ==
  /\ {UsizeMax, MaxLen} \subseteq Nat
  /\ Bytes \subseteq 0..255
  /\ 2 * MaxLen < UsizeMax

Usize == 0..UsizeMax

VARIABLES form,   \* the conversion
          slice,  \* the bytes
          chunk,  \* ChunkIter.chunk_size
          pos,    \* ChunkIter.pos, or the bytes converted by the loops over single bytes
          slots,  \* the StrArray of to_lower_hex_array, <<>> where it is not initialized
          out,    \* the text so far
          state   \* "run", "done" or "error"

vars == <<form, slice, chunk, pos, slots, out, state>>

\* LowerHex of HexStr by chunks; UpperHex of HexStr and of HexSlice, LowerHex of HexSlice;
\* HexStr::to_string; byte_arrays::to_lower_hex_string.
Forms == {"chunks", "upper", "lower", "string", "array"}

UpperDigits == <<"0", "1", "2", "3", "4", "5", "6", "7", "8", "9", "A", "B", "C", "D", "E", "F">>
LowerDigits == <<"0", "1", "2", "3", "4", "5", "6", "7", "8", "9", "a", "b", "c", "d", "e", "f">>

\* The tables, two digits a byte.
UPPER_HEX_BYTES == [b \in 0..255 |-> <<UpperDigits[(b \div 16) + 1], UpperDigits[(b % 16) + 1]>>]
LOWER_HEX_BYTES == [b \in 0..255 |-> <<LowerDigits[(b \div 16) + 1], LowerDigits[(b % 16) + 1]>>]

\* Mutation: the wrong table.
ToHexUpper(b) == UPPER_HEX_BYTES[b]

ToHex(b) == IF form = "upper" THEN UPPER_HEX_BYTES[b] ELSE LOWER_HEX_BYTES[b]

\* The strings of s, pushed one after the other.
Joined(s) ==
  LET upTo[k \in 0..Len(s)] == IF k = 0 THEN <<>> ELSE upTo[k - 1] \o s[k]
  IN upTo[Len(s)]

HexString(bytes) == Joined([i \in DOMAIN bytes |-> ToHex(bytes[i])])

TypeOK ==
  /\ form \in Forms
  /\ slice \in Seq(Bytes) /\ Len(slice) <= MaxLen
  /\ {chunk, pos} \subseteq Usize
  /\ slots \in [DOMAIN slice -> {<<>>} \cup {LOWER_HEX_BYTES[b] : b \in Bytes}]
  /\ out \in Seq({UpperDigits[i] : i \in 1..16} \cup {LowerDigits[i] : i \in 1..16})
  /\ state \in {"run", "done", "error"}

Init ==
  /\ form \in Forms
  /\ slice \in UNION {[1..n -> Bytes] : n \in 0..MaxLen}
  /\ chunk \in Usize /\ (form # "chunks" => chunk = 1)
  /\ pos = 0
  /\ slots = [i \in DOMAIN slice |-> <<>>]
  /\ out = <<>> /\ state = "run"

Smaller(a, b) == IF a < b THEN a ELSE b

\* The writer takes the text, or fails in the middle of it and the error is passed on.
Write(text) ==
  \/ out' = out \o text /\ state' = state
  \/ state' = "error" /\ \E k \in 0..Len(text) : out' = out \o SubSeq(text, 1, k)

More(f) == state = "run" /\ form \in f /\ pos < Len(slice)

\* Mutation: chunks slide by one.
NextChunkSlides ==
  /\ More({"chunks"})
  /\ Write(HexString(SubSeq(slice, pos + 1, Smaller(pos + chunk, Len(slice)))))
  /\ pos' = pos + 1
  /\ UNCHANGED <<form, slice, chunk, slots>>

\* ChunkIter::next: at most to the slice's end, while pos moves by chunk_size.
NextChunk ==
  /\ More({"chunks"})
  /\ LET next_pos == (pos + chunk) % (UsizeMax + 1)
     IN /\ Write(HexString(SubSeq(slice, pos + 1, Smaller(next_pos, Len(slice)))))
        /\ pos' = next_pos
  /\ UNCHANGED <<form, slice, chunk, slots>>

NextByte ==
  /\ More({"upper", "lower"})
  /\ Write(ToHex(slice[pos + 1]))
  /\ pos' = pos + 1
  /\ UNCHANGED <<form, slice, chunk, slots>>

ToString ==
  /\ More({"string"})
  /\ out' = HexString(slice) /\ pos' = Len(slice)
  /\ UNCHANGED <<form, slice, chunk, slots, state>>

\* Mutation: the last slot is left out.
FillSlotShort ==
  /\ More({"array"})
  /\ slots' = IF pos + 1 < Len(slice) THEN [slots EXCEPT ![pos + 1] = ToHex(slice[pos + 1])] ELSE slots
  /\ pos' = pos + 1
  /\ UNCHANGED <<form, slice, chunk, out, state>>

FillSlot ==
  /\ More({"array"})
  /\ slots' = [slots EXCEPT ![pos + 1] = ToHex(slice[pos + 1])]
  /\ pos' = pos + 1
  /\ UNCHANGED <<form, slice, chunk, out, state>>

\* Mutation: the end is met exactly.
FinishExactly ==
  /\ state = "run" /\ pos = Len(slice)
  /\ out' = IF form = "array" THEN Joined(slots) ELSE out
  /\ state' = "done"
  /\ UNCHANGED <<form, slice, chunk, pos, slots>>

\* The loop is over. An array is joined now.
Finish ==
  /\ state = "run" /\ pos >= Len(slice)
  /\ out' = IF form = "array" THEN Joined(slots) ELSE out
  /\ state' = "done"
  /\ UNCHANGED <<form, slice, chunk, pos, slots>>

Next == NextChunk \/ NextByte \/ ToString \/ FillSlot \/ Finish

Spec == Init /\ [][Next]_vars /\ WF_vars(Next)

-----------------------------------------------------------------------------
(* Properties.                                                             *)

\* pos + chunk_size stays within a usize, for every chunk size: only the first chunk
\* may be longer than the slice, and after it the iterator is at its end.
NoOverflow == form = "chunks" /\ pos < Len(slice) => pos + chunk \in Usize

\* The two hex digits of each of the bytes, in their order.
Reference(bytes) ==
  [i \in 1..(2 * Len(bytes)) |->
     LET b == bytes[(i + 1) \div 2]
         nibble == IF i % 2 = 1 THEN b \div 16 ELSE b % 16
     IN IF form = "upper" THEN UpperDigits[nibble + 1] ELSE LowerDigits[nibble + 1]]

\* What is written is the start of the slice's hex text, whatever the chunks and wherever
\* the writer fails, and all of it in the end.
OutIsHex ==
  /\ out = SubSeq(Reference(slice), 1, Len(out))
  /\ state = "done" => Len(out) = 2 * Len(slice)

\* A chunk size of zero on a slice that is not empty is the one way not to end.
Ends == <>(state # "run") \/ [](form = "chunks" /\ chunk = 0 /\ slice # <<>>)
=============================================================================
