------------------------------ MODULE RomDiff ------------------------------
(***************************************************************************)
(* romdiff.c: the difference between two ROMs as a row of tokens, the      *)
(* cheapest one found from the end of the file to its start, and the       *)
(* decoder that makes the new ROM from the old one.  A token is the bytes  *)
(* it is in the file; an address is its lowest two digits and one bit of   *)
(* the first byte.                                                         *)
(***************************************************************************)
EXTENDS Integers, Sequences, FiniteSets, SequencesExt, FiniteSetsExt

CONSTANTS
  FILE_SIZE,
  Digit,       \* values of a byte in an address, 256
  MaxExact,    \* longest exact match, 62
  MaxApprox,   \* longest approximate match, 64
  Bits,        \* bits of a byte of the bitmap, 8
  OldRoms, NewRoms   \* contents: bytes 0 and 1

RomDiffAssumption ==
  /\ FILE_SIZE \in Nat \ {0} /\ Bits \in Nat \ {0} /\ Digit \in Nat \ {0}
  /\ MaxExact \in 1 .. 62 /\ MaxApprox \in 1 .. 64 /\ FILE_SIZE <= 2 * Digit * Digit
  /\ \A r \in OldRoms \cup NewRoms : r \in [0 .. FILE_SIZE - 1 -> {0, 1}]

VARIABLES
  ref, new,
  behind,      \* what lies behind the array of costs
  i,           \* the byte at hand, from the end
  costs, next_pos, tokens,
  at,          \* "encode", "emit", "decode", "end" or "error"
  ofs, diff, out

vars == <<ref, new, behind, i, costs, next_pos, tokens, at, ofs, diff, out>>

Infinite == 999
Positions == 0 .. FILE_SIZE - 1
xor(a, b) == IF a = b THEN 0 ELSE 1

Init ==
  /\ ref \in OldRoms /\ new \in NewRoms /\ behind \in {0, Infinite}
  /\ i = FILE_SIZE - 1
  /\ costs = [p \in Positions |-> Infinite] /\ next_pos = costs
  /\ tokens = [p \in Positions |-> << >>]
  /\ at = "encode" /\ ofs = 0 /\ diff = << >> /\ out = << >>

-----------------------------------------------------------------------------
(* The encoder *)

Cost(p) == IF p = FILE_SIZE THEN behind ELSE costs[p]

\* First byte of a token with the high bit of the address, and its two digits.
Head2(first, addr) ==
  <<first + addr \div (Digit * Digit), addr % Digit, (addr \div Digit) % Digit>>

literal ==
  [cost |-> IF i = FILE_SIZE - 1 THEN 2 ELSE costs[i + 1] + 2,
   next |-> i + 1, token |-> <<0, xor(new[i], ref[i])>>]

\* Length of the match of the bytes here with those at j.
MatchLength(j) ==
  LET room == Min({MaxExact, FILE_SIZE - i, FILE_SIZE - j})
  IN Max({n \in 0 .. room : \A k \in 0 .. n - 1 : new[i + k] = ref[j + k]})

Differ(j, l) == ref[j + l] # new[i + l]

\* One byte of the bitmap for every Bits bytes, then what to change in those
\* that differ.
BitmapLength(count) == (count + Bits - 1) \div Bits
Bitmap(j, count) ==
  [b \in 1 .. BitmapLength(count) |->
     FoldSet(LAMBDA l, sum : sum + 2 ^ (l % Bits), 0,
             {l \in 0 .. count - 1 : l \div Bits = b - 1 /\ Differ(j, l)})]

Patches(j, count) ==
  [k \in 1 .. Cardinality({l \in 0 .. count - 1 : Differ(j, l)}) |-> 1]
approx_token(j, count) ==
  Head2(128 + 2 * (count - 1), j) \o Bitmap(j, count) \o Patches(j, count)

\* The length the search reckons with, kept up as the match grows from k = mlen.
modelled_length(j, mlen, k) ==
  3 + BitmapLength(mlen)
    + Cardinality({l \in mlen .. k : Differ(j, l)})
    + Cardinality({l \in mlen .. k : l % Bits = 0})

\* A match that ends with byte k is reckoned with the cost of going on at k,
\* and goes on behind it.
approximate(j, k) ==
  [cost |-> modelled_length(j, MatchLength(j), k) + costs[i + k],
   next |-> i + k + 1, token |-> approx_token(j, k + 1)]
ApproximateMatches ==
  {<<j, k>> \in Positions \X (0 .. Min({MaxApprox, FILE_SIZE - i}) - 1) :
     MatchLength(j) > 0 /\ k >= MatchLength(j) /\ j + k < FILE_SIZE}

\* The first of the cheapest, when it is cheaper than the literal.
Cheapest(matches) ==
  LET cost(m) == approximate(m[1], m[2]).cost
      least == {m \in matches : \A n \in matches : cost(m) <= cost(n)}
      m == CHOOSE m \in least :
             \A n \in least : m[1] < n[1] \/ (m[1] = n[1] /\ m[2] <= n[2])
  IN IF matches # { } /\ cost(m) < literal.cost THEN approximate(m[1], m[2]) ELSE literal

\* Exact matches are tried last, all from the first place with the longest; one
\* up to the end of the file is compared by what lies behind the costs.
best_len == Max({MatchLength(j) : j \in Positions})
best_addr == Min({j \in Positions : MatchLength(j) = best_len})
exact(best, len) ==
  IF best.cost > Cost(i + len) + 3
  THEN [cost |-> IF i + len = FILE_SIZE THEN 3 ELSE costs[i + len] + 3,
        next |-> i + len, token |-> Head2(2 + 2 * (len - 1), best_addr)]
  ELSE best

\* A match must be as long as the search reckoned it.
EncodeByte ==
  LET best == FoldLeft(exact, Cheapest(ApproximateMatches), [len \in 1 .. best_len |-> len])
  IN /\ at = "encode"
     /\ IF \E m \in ApproximateMatches :
             /\ approximate(m[1], m[2]).cost < literal.cost
             /\ modelled_length(m[1], MatchLength(m[1]), m[2]) # Len(approx_token(m[1], m[2] + 1))
        THEN at' = "error" /\ UNCHANGED <<i, costs, next_pos, tokens>>
        ELSE /\ costs' = [costs EXCEPT ![i] = best.cost]
             /\ next_pos' = [next_pos EXCEPT ![i] = best.next]
             /\ tokens' = [tokens EXCEPT ![i] = best.token]
             /\ i' = i - 1 /\ at' = IF i = 0 THEN "emit" ELSE "encode"
     /\ UNCHANGED <<ref, new, behind, ofs, diff, out>>

\* The tokens are written along next_pos; one that leads out of the file or
\* backwards is an error.
EmitToken ==
  /\ at = "emit"
  /\ IF ofs = FILE_SIZE THEN at' = "decode" /\ ofs' = 1 /\ UNCHANGED diff
     ELSE IF next_pos[ofs] > FILE_SIZE \/ next_pos[ofs] <= ofs
     THEN at' = "error" /\ UNCHANGED <<ofs, diff>>
     ELSE diff' = diff \o tokens[ofs] /\ ofs' = next_pos[ofs] /\ UNCHANGED at
  /\ UNCHANGED <<ref, new, behind, i, costs, next_pos, tokens, out>>

-----------------------------------------------------------------------------
(* The decoder; ofs is the place in the diff *)

Address(first) == (first % 2) * Digit * Digit + diff[ofs + 1] + diff[ofs + 2] * Digit
Copied(addr, count) == [n \in 1 .. count |-> ref[addr + n - 1]]

DecodeLiteral(first) ==
  /\ first = 0
  /\ out' = Append(out, xor(ref[Len(out)], diff[ofs + 1])) /\ ofs' = ofs + 2
DecodeExact(first) ==
  /\ first \in 2 .. 127
  /\ out' = out \o Copied(Address(first), (first - 2) \div 2 + 1) /\ ofs' = ofs + 3
DecodeApprox(first) ==
  LET count == (first - 128) \div 2 + 1
      bitmap == ofs + 3
      patch == bitmap + BitmapLength(count)
      set == {l \in 0 .. count - 1 :
                (diff[bitmap + l \div Bits] \div 2 ^ (l % Bits)) % 2 = 1}
      Patch(l) == diff[patch + Cardinality({m \in set : m < l})]
      copy == Copied(Address(first), count)
  IN /\ first >= 128
     /\ out' = out \o [n \in 1 .. count |->
                         IF n - 1 \in set THEN xor(copy[n], Patch(n - 1)) ELSE copy[n]]
     /\ ofs' = patch + Cardinality(set)

decode_diff ==
  /\ at = "decode"
  /\ IF ofs > Len(diff) THEN at' = "end" /\ UNCHANGED <<out, ofs>>
     ELSE /\ at' = at
          /\ DecodeLiteral(diff[ofs]) \/ DecodeExact(diff[ofs]) \/ DecodeApprox(diff[ofs])
  /\ UNCHANGED <<ref, new, behind, i, costs, next_pos, tokens, diff>>

Next == EncodeByte \/ EmitToken \/ decode_diff

Spec == Init /\ [][Next]_vars

-----------------------------------------------------------------------------
(* Properties *)

\* The new ROM comes out of the difference and the old one, whatever lies behind
\* the array of costs.
NewRomComesBack ==
  /\ at # "error"
  /\ at = "end" => Len(out) = FILE_SIZE /\ \A p \in Positions : out[p + 1] = new[p]

\* The difference is never longer than the search reckoned, nor than literals
\* for all bytes.
NoLongerThanReckoned ==
  at = "end" => Len(diff) <= costs[0] /\ costs[0] <= 2 * FILE_SIZE
=============================================================================
