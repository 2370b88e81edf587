----------------------------- MODULE BitVector ------------------------------
(***************************************************************************)
(* BitVector: bits in words, which only clear gives back.                  *)
(***************************************************************************)
EXTENDS Integers, FiniteSets

CONSTANTS
    WordBits,   \* kWordBits
    MaxBits     \* bound on the positions callers use

ASSUME BitsAssumption == WordBits \in Nat \ {0} /\ MaxBits \in Nat

VARIABLES
    words,      \* words_.size()
    ones,       \* the positions of the bits set in words_
    bitCount,   \* bit_count_
    wrote,      \* history variable: the positions last written as one
    cut         \* history variable: bits that a resize left set past the end

bitVars == <<words, ones, bitCount, wrote, cut>>

Positions == 0..(MaxBits - 1)

BitInit == words = 0 /\ ones = {} /\ bitCount = 0 /\ wrote = {} /\ cut = {}

WordsNeeded(bits) == (bits + WordBits - 1) \div WordBits

(* resize: new words are zero, and no word is given up or masked. *)
SizeTo(n) ==
    /\ words' = IF WordsNeeded(n) > words THEN WordsNeeded(n) ELSE words
    /\ bitCount' = n

(* Growing makes room for a position. *)
Reach(pos) == SizeTo(IF pos >= bitCount THEN pos + 1 ELSE bitCount)

Write(pos, one) ==
    /\ ones' = IF one THEN ones \cup {pos} ELSE ones \ {pos}
    /\ wrote' = IF one THEN wrote \cup {pos} ELSE wrote \ {pos}
    /\ cut' = cut \ {pos}

(* Mutant: a bit that is not set is not cleared. *)
PushBit_KeepsOne(one) ==
    /\ bitCount < MaxBits
    /\ SizeTo(bitCount + 1)
    /\ ones' = IF one THEN ones \cup {bitCount} ELSE ones
    /\ wrote' = IF one THEN wrote \cup {bitCount} ELSE wrote \ {bitCount}
    /\ cut' = cut \ {bitCount}

(* push_back *)
PushBit(one) == bitCount < MaxBits /\ SizeTo(bitCount + 1) /\ Write(bitCount, one)

(* set and flip grow the vector, reset does not. *)
SetBit(pos) == Reach(pos) /\ Write(pos, TRUE)

Toggled(S, pos) == IF pos \in S THEN S \ {pos} ELSE S \cup {pos}

FlipBit(pos) ==
    /\ Reach(pos)
    /\ ones' = Toggled(ones, pos)
    /\ wrote' = Toggled(wrote, pos)
    /\ UNCHANGED cut

ResetBit(pos) ==
    /\ pos < bitCount
    /\ Write(pos, FALSE)
    /\ UNCHANGED <<words, bitCount>>

ResizeBits(n) ==
    /\ SizeTo(n)
    /\ cut' = cut \cup {p \in ones : p >= n}
    /\ wrote' = {p \in wrote : p < n}
    /\ UNCHANGED ones

ClearBits ==
    /\ words' = 0 /\ ones' = {} /\ bitCount' = 0 /\ wrote' = {} /\ cut' = {}

(* test_bit and count *)
TestBit(pos) == pos < bitCount /\ pos \in ones
CountBits    == Cardinality(ones)

BitNext ==
    \/ \E one \in BOOLEAN : PushBit(one)
    \/ \E pos \in Positions : SetBit(pos) \/ FlipBit(pos) \/ ResetBit(pos)
    \/ \E n \in 0..MaxBits : ResizeBits(n)
    \/ ClearBits

(* A bit reads as it was last written, and count counts those that do, but  *)
(* for bits that a resize cut off: the words keep them, count counts them, *)
(* and they come back when the vector grows, until they are written again. *)
BitsKept ==
    /\ ones \subseteq 0..(words * WordBits - 1) /\ bitCount <= words * WordBits
    /\ \A p \in Positions \ cut : TestBit(p) <=> p \in wrote
    /\ CountBits = Cardinality({p \in Positions : TestBit(p)} \cup (cut \cap ones))
=============================================================================
