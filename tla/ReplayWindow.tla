---------------------------- MODULE ReplayWindow ----------------------------
(***************************************************************************)
(* The anti-replay window and the sequence counter of an IPsec security    *)
(* association (router::ipsec::ReplayWindow, OutboundSequence).  The wire  *)
(* carries the low word of a sequence number; with extended sequence       *)
(* numbers (esn) the receiver reconstructs the high word around the        *)
(* highest sequence number it has authenticated.                           *)
(*                                                                         *)
(* A window is a record [esn, highest, bitmap]; the bitmap is the set of   *)
(* its bit positions, the distances behind highest.  An optional result is *)
(* a set with at most one element.                                         *)
(***************************************************************************)
EXTENDS Integers

CONSTANTS WordSize,   \* 2^32: values of the word that is transmitted
          Width       \* width_, the length of the window

\* Constructors take 1 to 64; the reconstruction rules are for a window "far
\* smaller than 2^31".
ASSUME ReplayWindowAssumption ==
  /\ WordSize \in Nat /\ Width \in Nat \ {0}
  /\ 2 * Width <= WordSize

Distances == 0 .. Width - 1
Low(sequence) == sequence % WordSize
Largest(esn) == (IF esn THEN WordSize * WordSize ELSE WordSize) - 1

EmptyWindow(esn) == [esn |-> esn, highest |-> 0, bitmap |-> {}]

\* A slip in reconstruct(): near the start of a word, the last words before it
\* are taken one too few.
SubspaceLate(highest, low) ==
  LET behind == Width - 1
      highestLow == highest % WordSize
      highestHigh == highest \div WordSize
  IN CASE highestLow < behind /\ low > WordSize - (behind - highestLow) ->
            highestHigh - 1
       [] highestLow >= behind /\ low < highestLow - behind ->
            highestHigh + 1
       [] OTHER -> highestHigh

\* The high word that belongs to a low word: the previous one, the current one
\* or the next one.
Subspace(highest, low) ==
  LET behind == Width - 1
      highestLow == highest % WordSize
      highestHigh == highest \div WordSize
  IN CASE highestLow < behind /\ low >= WordSize - (behind - highestLow) ->
            highestHigh - 1
       [] highestLow >= behind /\ low < highestLow - behind ->
            highestHigh + 1
       [] OTHER -> highestHigh

Reconstruct(w, low) ==
  IF low = 0 /\ (~w.esn \/ w.highest = 0) THEN {}
  ELSE IF ~w.esn \/ w.highest = 0 THEN {low}
  ELSE {high * WordSize + low :
          high \in {Subspace(w.highest, low)} \cap (0 .. WordSize - 1)}

\* Not behind the window and not seen: what check() and commit() both ask.
Unseen(w, sequence) ==
  \/ w.highest = 0
  \/ sequence > w.highest
  \/ /\ w.highest - sequence < Width
     /\ w.highest - sequence \notin w.bitmap

\* check(): the sequence number the packet is authenticated with, if any.
Admissible(w, low) == {s \in Reconstruct(w, low) : Unseen(w, s)}

CanCommit(w, sequence) ==
  /\ sequence # 0
  /\ w.esn \/ sequence < WordSize
  /\ Unseen(w, sequence)

\* A slip in commit(): the bits move one place too few.
CommitShortShift(w, sequence) ==
  IF w.highest = 0 \/ sequence > w.highest
  THEN [w EXCEPT !.highest = sequence,
                 !.bitmap = {0} \union
                    ({d + sequence - w.highest - 1 : d \in w.bitmap} \cap Distances)]
  ELSE [w EXCEPT !.bitmap = @ \union {w.highest - sequence}]

Commit(w, sequence) ==
  IF w.highest = 0 \/ sequence > w.highest
  THEN [w EXCEPT !.highest = sequence,
                 !.bitmap = {0} \union
                    ({d + sequence - w.highest : d \in w.bitmap} \cap Distances)]
  ELSE [w EXCEPT !.bitmap = @ \union {w.highest - sequence}]

\* What restore() asks of a saved window before it replaces the live one.
Restorable(w) ==
  /\ w.esn \/ w.highest < WordSize
  /\ w.bitmap \subseteq Distances
  /\ (w.highest = 0) = (w.bitmap = {})
  /\ w.highest # 0 => 0 \in w.bitmap

\* The sequence numbers the window can tell apart by their low word: the window
\* itself and what follows it up to one word.
InReach(w, sequence) ==
  /\ sequence > w.highest - Width
  /\ IF w.esn THEN sequence <= w.highest - Width + WordSize
              ELSE sequence < WordSize
=============================================================================
