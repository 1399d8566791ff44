-------------------------- MODULE RDTSeqnumProofs --------------------------
(***************************************************************************)
(* Sequence numbers that wrap, for every width and number of packet types. *)
(***************************************************************************)
EXTENDS RDTSeqnum, TLAPS

USE SeqnumAssumption

(* Division with remainder by the number of data packet types.             *)
LEMMA Division ==
    ASSUME NEW n \in Nat
    PROVE  /\ seqnum(n) \in Seqnum
           /\ \E q \in Nat : n = q * DataTypes + seqnum(n)
  <1>1. /\ n % DataTypes \in 0 .. DataTypes - 1
        /\ n \div DataTypes \in Nat
        /\ n = (n \div DataTypes) * DataTypes + (n % DataTypes)
    BY SMTT(30)
  <1> QED BY <1>1 DEF seqnum, Seqnum

(* The gaps that the insertion loop computes are integers.                 *)
LEMMA CompareType ==
    ASSUME NEW m \in Nat, NEW n \in Nat
    PROVE  compare_seqnum(seqnum(m), seqnum(n)) \in Int
  <1>1. seqnum(m) \in Seqnum
    BY Division
  <1>2. seqnum(n) \in Seqnum
    BY Division
  <1> QED BY <1>1, <1>2 DEF compare_seqnum, gint16, Seqnum, Half

(* The sequence numbers of two packets at a distance below DataTypes       *)
(* differ by that distance, less DataTypes if the numbering wrapped.       *)
LEMMA WrapOnce ==
    ASSUME NEW m \in Nat, NEW n \in Nat, m <= n, n - m < DataTypes
    PROVE  \/ seqnum(n) - seqnum(m) = n - m
           \/ seqnum(n) - seqnum(m) = n - m - DataTypes
  <1>1. PICK q \in Nat : n = q * DataTypes + seqnum(n)
    BY Division
  <1>2. PICK p \in Nat : m = p * DataTypes + seqnum(m)
    BY Division
  <1>3. seqnum(n) \in 0 .. DataTypes - 1 /\ seqnum(m) \in 0 .. DataTypes - 1
    BY Division DEF Seqnum
  <1>4. (q - p) * DataTypes = n - m - (seqnum(n) - seqnum(m))
    BY <1>1, <1>2, <1>3
  <1>5. q - p < 2
    <2> SUFFICES ASSUME q - p >= 2 PROVE FALSE
      OBVIOUS
    <2>1. (q - p) * DataTypes >= 2 * DataTypes
      OBVIOUS
    <2> QED BY <2>1, <1>3, <1>4
  <1>6. q - p > -1
    <2> SUFFICES ASSUME q - p <= -1 PROVE FALSE
      OBVIOUS
    <2>1. (q - p) * DataTypes <= -DataTypes
      OBVIOUS
    <2> QED BY <2>1, <1>3, <1>4
  <1>7. q - p = 0 \/ q - p = 1
    BY <1>5, <1>6
  <1>8. CASE q - p = 0
    BY <1>8, <1>3, <1>4
  <1>9. CASE q - p = 1
    BY <1>9, <1>3, <1>4
  <1> QED BY <1>7, <1>8, <1>9

(* gst_rdt_buffer_compare_seqnum orders two packets by their position in   *)
(* the stream as long as they are less than Margin apart.                  *)
LEMMA CompareSeqnum ==
    ASSUME NEW m \in Nat, NEW n \in Nat, n - m < Margin, m - n < Margin
    PROVE  /\ m < n => compare_seqnum(seqnum(m), seqnum(n)) > 0
           /\ m = n => compare_seqnum(seqnum(m), seqnum(n)) = 0
           /\ m > n => compare_seqnum(seqnum(m), seqnum(n)) < 0
  <1>0. Half \in Nat /\ SeqMod = 2 * Half
    BY DEF Half
  <1>1. seqnum(n) \in 0 .. DataTypes - 1 /\ seqnum(m) \in 0 .. DataTypes - 1
    BY Division DEF Seqnum
  <1>2. Margin <= DataTypes
    BY <1>0 DEF Margin
  <1>3. CASE m <= n
    <2>1. \/ seqnum(n) - seqnum(m) = n - m
          \/ seqnum(n) - seqnum(m) = n - m - DataTypes
      BY <1>0, <1>2, <1>3, WrapOnce DEF Margin
    <2> QED BY <1>0, <1>1, <1>3, <2>1 DEF compare_seqnum, gint16, Margin
  <1>4. CASE n <= m
    <2>1. \/ seqnum(m) - seqnum(n) = m - n
          \/ seqnum(m) - seqnum(n) = m - n - DataTypes
      BY <1>0, <1>2, <1>4, WrapOnce DEF Margin
    <2> QED BY <1>0, <1>1, <1>4, <2>1 DEF compare_seqnum, gint16, Margin
  <1> QED BY <1>3, <1>4

=============================================================================
