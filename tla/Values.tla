------------------------------- MODULE Values -------------------------------
(***************************************************************************)
(* String values (common/types.go): their storage format and the           *)
(* neighbours that exclusive bounds of an index scan are turned into.      *)
(* A string is a sequence of at most StringLength bytes; in storage it is  *)
(* padded with zero bytes, and a first byte MaxByte (0xFF) stands for NULL.*)
(***************************************************************************)
EXTENDS Integers, Sequences, SequencesExt

CONSTANTS
  StringLength,  \* 32 in the code
  MaxByte        \* 255 in the code

Bytes == 0 .. MaxByte
Strings == UNION {[1 .. n -> Bytes] : n \in 0 .. StringLength}
NullString == <<-1>>   \* not a sequence of bytes

Padded(s, byte) == s \o [i \in 1 .. StringLength - Len(s) |-> byte]

\* Value.WriteTo and AsValue, for StringType.
WriteTo(s) == IF s = NullString THEN Padded(<<MaxByte>>, 0) ELSE Padded(s, 0)
AsValue(source) ==
  LET zero == SelectInSeq(source, LAMBDA b : b = 0)
  IN  IF source[1] = MaxByte THEN NullString
      ELSE IF zero = 0 THEN source ELSE SubSeq(source, 1, zero - 1)

\* The order of Compare on two strings that are not NULL.
Less(s, t) ==
  \E n \in 0 .. Len(s) :
     /\ n < Len(t) /\ SubSeq(s, 1, n) = SubSeq(t, 1, n)
     /\ n = Len(s) \/ s[n + 1] < t[n + 1]

Overflows(s) == Len(s) = StringLength /\ \A i \in DOMAIN s : s[i] = MaxByte

\* Variant: the bytes after the carry keep their value.
nextLexStringKeepsTail(s) ==
  IF Len(s) < StringLength THEN Append(s, 0)
  ELSE LET i == SelectLastInSeq(s, LAMBDA b : b # MaxByte) IN [s EXCEPT ![i] = @ + 1]

\* A full string is counted up, with carry; any other one gets a zero byte.
nextLexString(s) ==
  IF Len(s) < StringLength THEN Append(s, 0)
  ELSE LET i == SelectLastInSeq(s, LAMBDA b : b # MaxByte)
       IN  [j \in DOMAIN s |-> IF j < i THEN s[j] ELSE IF j = i THEN s[j] + 1 ELSE 0]

prevLexString(s) ==
  IF Last(s) = 0 THEN Front(s) ELSE Padded([s EXCEPT ![Len(s)] = @ - 1], MaxByte)
-----------------------------------------------------------------------------
Successor(s) == CHOOSE t \in Strings : Less(s, t) /\ \A u \in Strings : Less(s, u) => ~Less(u, t)

\* What Value.Increment makes of a string is, in storage, its successor among
\* all strings of up to StringLength bytes, carries included.
IncrementIsNext ==
  \A s \in Strings : Overflows(s) \/ WriteTo(nextLexString(s)) = WriteTo(Successor(s))

\* Value.Decrement of an exclusive upper bound, once it has been through a stored
\* key, cuts the stored strings in two exactly where the bound does: none that
\* satisfies col < s lies above the key, and none that does not lies below.
BelowBoundExact ==
  LET held == {AsValue(WriteTo(s)) : s \in Strings} \ {NullString}
      key(s) == AsValue(WriteTo(prevLexString(s)))
  IN  \A s \in Strings \ {<<>>} : key(s) # NullString =>
        \A t \in held : Less(t, s) <=> (t = key(s) \/ Less(t, key(s)))
=============================================================================
