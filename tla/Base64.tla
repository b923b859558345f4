------------------------------- MODULE Base64 -------------------------------
(***************************************************************************)
(* How yaradec recovers the text behind a base64 modifier (b64.py).        *)
(*                                                                         *)
(* YARA searches for three encodings of the text, made with 0, 1 and 2     *)
(* bytes in front, each cut to the digits that the text alone determines;  *)
(* a compiled rule holds these permutations and not the text.  recover     *)
(* decodes a prefix (seed) of each permutation, tries every tail of at     *)
(* most MaxTail bytes after it and accepts a candidate whose permutations  *)
(* include all those observed.  The seeds come from a Python set: their    *)
(* order is any order.                                                     *)
(*                                                                         *)
(* A byte is four pairs of bits and a digit is three: a text is the        *)
(* sequence of its pairs, four to a byte, and encoding only regroups them. *)
(* In the program a pair has four values.                                  *)
(***************************************************************************)
EXTENDS Integers, Sequences, FiniteSetsExt

CONSTANT PairValues

ASSUME Base64Assumption == PairValues \in Nat \ {0}

Pair == 0 .. PairValues - 1
Digit == Pair \X Pair \X Pair
Plaintext == {t \in Seq(Pair) : Len(t) % 4 = 0}

MaxTail == 2   \* no caller gives another; _tails has no longer ones

VARIABLES
    searching,   \* a call of recover is in progress
    observed,    \* its argument, as a set
    seeds,       \* the seeds to be tried after this one
    seed,        \* the seed being tried
    tail,        \* the length of the tails to be tried next
    found        \* the answer, <<>> for None

bvars == <<searching, observed, seeds, seed, tail, found>>

-----------------------------------------------------------------------------
Leading == <<0, 2, 3>>

Determined(count) == (4 * count) \div 3

(* expand: permutation i encodes i - 1 bytes and the text, and keeps the   *)
(* digits Leading[i] + 1 .. Determined, none of which has a pair of those. *)
Ahead(i) == 3 * Leading[i] - 4 * (i - 1)

DigitAt(text_, at) == <<text_[at + 1], text_[at + 2], text_[at + 3]>>

Permutation(text_, i) ==
    [n \in 1 .. Determined(Len(text_) \div 4 + i - 1) - Leading[i] |->
       DigitAt(text_, Ahead(i) + 3 * (n - 1))]

Expanded(text_) == {Permutation(text_, i) : i \in 1 .. 3}

(* _decode_prefix: the whole groups of four digits, as text.               *)
DecodePrefix(digits) ==
    [n \in 1 .. 12 * (Len(digits) \div 4) |-> digits[(n - 1) \div 3 + 1][((n - 1) % 3) + 1]]

-----------------------------------------------------------------------------
SearchInit ==
    /\ searching = FALSE /\ observed = {} /\ found = <<>>
    /\ seeds = {} /\ seed = <<>> /\ tail = 0

(* What is no row of digits is in no encoding: whatever b64decode makes of *)
(* it, with one such permutation observed no candidate is accepted.        *)
Recover(permutations) ==
    /\ ~ searching
    /\ searching' = TRUE /\ observed' = permutations /\ found' = <<>>
    /\ seeds' = {DecodePrefix(perm) : perm \in {q \in permutations : q \in Seq(Digit)}}
    /\ seed' = <<>> /\ tail' = MaxTail + 1

NextSeed ==
    /\ searching /\ tail > MaxTail
    /\ \E s \in seeds : seed' = s /\ seeds' = seeds \ {s}
    /\ tail' = 0
    /\ UNCHANGED <<searching, observed, found>>

(* _tails lists the tails of a length in the order of their bytes; the     *)
(* candidate that is returned is the first that is accepted.               *)
Tails == [1 .. 4 * tail -> Pair]

Precedes(t, u) == \E n \in DOMAIN t : t[n] < u[n] /\ \A m \in 1 .. n - 1 : t[m] = u[m]

AcceptedByOne(text_) == text_ # <<>> /\ observed \cap Expanded(text_) # {}

Accepted(text_) == text_ # <<>> /\ observed \subseteq Expanded(text_)

TryTails ==
    /\ searching /\ tail <= MaxTail
    /\ \E taken \in {{t \in Tails : Accepted(seed \o t)}} :
         \/ taken = {} /\ tail' = tail + 1 /\ UNCHANGED <<searching, found>>
         \/ \E t \in taken :
              /\ \A u \in taken : ~ Precedes(u, t)
              /\ found' = seed \o t /\ searching' = FALSE /\ UNCHANGED tail
    /\ UNCHANGED <<observed, seeds, seed>>

NotRecovered ==
    /\ searching /\ tail > MaxTail /\ seeds = {}
    /\ searching' = FALSE
    /\ UNCHANGED <<observed, seeds, seed, tail, found>>

SearchStep == NextSeed \/ TryTails \/ NotRecovered
=============================================================================
