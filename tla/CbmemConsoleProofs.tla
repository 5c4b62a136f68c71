------------------------- MODULE CbmemConsoleProofs -------------------------
(***************************************************************************)
(* Proofs about CbmemConsole for buffers of any size and any number of     *)
(* bytes and resets: the types, and that the log in CBMEM is kept.         *)
(***************************************************************************)
EXTENDS CbmemConsole, SequenceTheorems, TLAPS

-----------------------------------------------------------------------------
(* Buffers.                                                                *)

\* The buffers that have been set up with n bytes of body, and those that are
\* blank or invalidated.
Memory(n) == [0 .. n - 1 -> Nat]
Ring(n) == [size : {n}, cursor : 0 .. n - 1, overflow : BOOLEAN, body : Memory(n)]
Unused(n) == [size : {0}, cursor : 0 .. n - 1, overflow : BOOLEAN, body : Memory(n)]

\* The sequence s2 is s with d at its end, and without its first k elements.
Pushed(s, s2, d, k) ==
    /\ s2 \in Seq(Nat) /\ Len(s2) = Len(s) + 1 - k /\ Len(s2) >= 1
    /\ \A i \in 1 .. Len(s2) - 1 : s2[i] = s[i + k]
    /\ s2[Len(s2)] = d

\* A function on 1 .. m is a sequence.
LEMMA FunctionIsSeq ==
    ASSUME NEW S, NEW m \in Nat, NEW f \in [1 .. m -> S]
    PROVE  f \in Seq(S) /\ Len(f) = m
OBVIOUS

\* A ring holds what its readers take, oldest first.
LEMMA ContentsIs ==
    ASSUME NEW n \in Nat \ {0}, NEW r \in Ring(n)
    PROVE  /\ Contents(r) \in Seq(Nat)
           /\ Len(Contents(r)) = IF r.overflow THEN n ELSE r.cursor
           /\ \A i \in 1 .. Len(Contents(r)) :
                Contents(r)[i] =
                  IF r.overflow /\ i <= n - r.cursor THEN r.body[r.cursor + i - 1]
                  ELSE IF r.overflow THEN r.body[i - 1 - (n - r.cursor)]
                  ELSE r.body[i - 1]
<1>1. PICK c \in 0 .. n - 1, b \in [0 .. n - 1 -> Nat] :
         /\ r.size = n /\ r.cursor = c /\ r.body = b /\ r.overflow \in BOOLEAN
    BY DEF Ring, Memory
<1>0. c \in Nat /\ n - c \in Nat /\ c <= n
    OBVIOUS
<1> DEFINE old == [i \in 1 .. n - c |-> b[c + i - 1]]
           new == [i \in 1 .. c |-> b[i - 1]]
<1>2. old \in Seq(Nat) /\ Len(old) = n - c
    <2>1. old \in [1 .. n - c -> Nat]
        OBVIOUS
    <2> HIDE DEF old
    <2> QED BY <1>0, <2>1, FunctionIsSeq
<1>3. new \in Seq(Nat) /\ Len(new) = c
    <2>1. new \in [1 .. c -> Nat]
        OBVIOUS
    <2> HIDE DEF new
    <2> QED BY <1>0, <2>1, FunctionIsSeq
<1>4. Slice(r, r.cursor, r.size) = old /\ Slice(r, 0, r.cursor) = new
    <2>1. c - 0 = c /\ \A i \in 1 .. c : 0 + i - 1 = i - 1
        BY <1>0
    <2> QED BY <1>1, <2>1 DEF Slice
<1>5. CASE r.overflow
    <2>1. Contents(r) = old \o new
        BY <1>4, <1>5 DEF Contents
    <2>2. /\ Contents(r) \in Seq(Nat) /\ Len(Contents(r)) = n
          /\ \A i \in 1 .. n : Contents(r)[i] = IF i <= n - c THEN old[i]
                                                ELSE new[i - (n - c)]
        <3> HIDE DEF old, new
        <3>1. /\ old \o new \in Seq(Nat) /\ Len(old \o new) = Len(old) + Len(new)
              /\ \A i \in 1 .. Len(old) + Len(new) :
                    (old \o new)[i] = IF i <= Len(old) THEN old[i]
                                      ELSE new[i - Len(old)]
            BY <1>2, <1>3, ConcatProperties
        <3>2. Len(old) + Len(new) = n
            BY <1>0, <1>2, <1>3
        <3> QED BY <1>2, <2>1, <3>1, <3>2, Zenon
    <2>3. \A i \in 1 .. n : IF i <= n - c THEN i \in 1 .. n - c
                            ELSE /\ i - (n - c) \in 1 .. c
                                 /\ i - (n - c) - 1 = i - 1 - (n - c)
        BY <1>0
    <2> QED BY <1>1, <1>5, <2>2, <2>3
<1>6. CASE ~r.overflow
    <2>1. Contents(r) = <<>> \o new
        BY <1>4, <1>6 DEF Contents
    <2>2. Contents(r) = new
        <3> HIDE DEF new
        <3> QED BY <1>3, <2>1, ConcatEmptySeq
    <2> QED BY <1>1, <1>3, <1>6, <2>2
<1> QED BY <1>5, <1>6

\* cbmemc_tx_byte appends to a ring; the oldest byte goes once it is full.
LEMMA TxByte ==
    ASSUME NEW n \in Nat \ {0}, NEW r \in Ring(n), NEW d \in Nat
    PROVE  /\ cbmemc_tx_byte(r, d) \in Ring(n)
           /\ r.overflow => cbmemc_tx_byte(r, d).overflow
           /\ Pushed(Contents(r), Contents(cbmemc_tx_byte(r, d)), d,
                     IF r.overflow THEN 1 ELSE 0)
<1>1. PICK c \in 0 .. n - 1, b \in [0 .. n - 1 -> Nat] :
         /\ r.size = n /\ r.cursor = c /\ r.body = b /\ r.overflow \in BOOLEAN
    BY DEF Ring, Memory
<1>0. c \in Nat /\ n - c \in Nat /\ c < n
    OBVIOUS
<1> DEFINE b2 == [b EXCEPT ![c] = d]
           wrap == c + 1 >= n
           c2 == IF wrap THEN 0 ELSE c + 1
           r2 == cbmemc_tx_byte(r, d)
<1>2. r2 = [size |-> n, cursor |-> c2, overflow |-> r.overflow \/ wrap, body |-> b2]
    BY <1>1 DEF cbmemc_tx_byte, Wraps
<1>3. c2 \in 0 .. n - 1 /\ b2 \in [0 .. n - 1 -> Nat]
    BY <1>0
<1>4. (r.overflow \/ wrap) \in BOOLEAN
    BY <1>1
<1>5. r2 \in Ring(n)
    <2> HIDE DEF b2, wrap, c2, r2
    <2> QED BY <1>2, <1>3, <1>4, Zenon DEF Ring, Memory
<1>6. r2.size = n /\ r2.cursor = c2 /\ r2.body = b2 /\ (r2.overflow <=> r.overflow \/ wrap)
    <2> HIDE DEF b2, wrap, c2, r2
    <2> QED BY <1>2
<1> HIDE DEF r2
<1>7. b2[c] = d /\ \A i \in 0 .. n - 1 : i # c => b2[i] = b[i]
    OBVIOUS
<1> HIDE DEF b2
<1>8. /\ Contents(r) \in Seq(Nat) /\ Contents(r2) \in Seq(Nat)
      /\ Len(Contents(r)) = IF r.overflow THEN n ELSE c
      /\ Len(Contents(r2)) = IF r.overflow \/ wrap THEN n ELSE c2
    BY <1>1, <1>5, <1>6, ContentsIs
<1>9. \A i \in 1 .. Len(Contents(r)) :
         Contents(r)[i] = IF r.overflow /\ i <= n - c THEN b[c + i - 1]
                          ELSE IF r.overflow THEN b[i - 1 - (n - c)] ELSE b[i - 1]
    BY <1>1, ContentsIs
<1>10. \A i \in 1 .. Len(Contents(r2)) :
         Contents(r2)[i] =
           IF (r.overflow \/ wrap) /\ i <= n - c2 THEN b2[c2 + i - 1]
           ELSE IF r.overflow \/ wrap THEN b2[i - 1 - (n - c2)] ELSE b2[i - 1]
    <2>1. \A i \in 1 .. Len(Contents(r2)) :
             Contents(r2)[i] =
               IF r2.overflow /\ i <= n - r2.cursor THEN r2.body[r2.cursor + i - 1]
               ELSE IF r2.overflow THEN r2.body[i - 1 - (n - r2.cursor)]
               ELSE r2.body[i - 1]
        BY <1>5, ContentsIs
    <2> HIDE DEF c2, wrap
    <2> QED BY <1>6, <2>1, Zenon
<1>11. CASE ~r.overflow
    <2>1. Len(Contents(r)) = c /\ Len(Contents(r2)) = c + 1
        BY <1>0, <1>8, <1>11
    <2>2. \A i \in 1 .. c + 1 : Contents(r2)[i] = b2[i - 1]
        <3>1. CASE wrap
            <4>1. c2 = 0 /\ \A i \in 1 .. c + 1 : i <= n - c2 /\ c2 + i - 1 = i - 1
                BY <1>0, <3>1
            <4> QED BY <1>10, <2>1, <3>1, <4>1
        <3>2. CASE ~wrap
            BY <1>10, <1>11, <2>1, <3>2
        <3> QED BY <3>1, <3>2
    <2>3. \A i \in 1 .. c : Contents(r)[i] = b[i - 1]
        BY <1>9, <1>11, <2>1
    <2>4. \A i \in 1 .. c : i - 1 \in 0 .. n - 1 /\ i - 1 # c /\ i \in 1 .. c + 1
        BY <1>0
    <2>5. \A i \in 1 .. c : Contents(r2)[i] = Contents(r)[i]
        BY <1>7, <2>2, <2>3, <2>4
    <2>6. Contents(r2)[c + 1] = d
        BY <1>0, <1>7, <2>2
    <2> QED BY <1>0, <1>5, <1>8, <1>11, <2>1, <2>5, <2>6 DEF Pushed, r2
<1>12. CASE r.overflow
    <2>1. Len(Contents(r)) = n /\ Len(Contents(r2)) = n
        BY <1>8, <1>12
    <2>2. ASSUME NEW i \in 1 .. n
          PROVE  Contents(r2)[i] = IF i = n THEN d ELSE Contents(r)[i + 1]
        <3>1. Contents(r2)[i] = IF i <= n - c2 THEN b2[c2 + i - 1]
                                ELSE b2[i - 1 - (n - c2)]
            BY <1>10, <1>12, <2>1
        <3>2. i # n => Contents(r)[i + 1] = IF i + 1 <= n - c THEN b[c + i]
                                            ELSE b[i - (n - c)]
            <4>1. i # n => i + 1 \in 1 .. n /\ c + (i + 1) - 1 = c + i
                           /\ (i + 1) - 1 - (n - c) = i - (n - c)
                BY <1>0
            <4> QED BY <1>9, <1>12, <2>1, <4>1
        <3>3. CASE wrap
            <4>1. c = n - 1 /\ c2 = 0
                BY <1>0, <3>3
            <4>2. Contents(r2)[i] = b2[i - 1]
                BY <3>1, <4>1
            <4>3. i # n => Contents(r)[i + 1] = b[i - 1] /\ i - 1 # c
                           /\ i - 1 \in 0 .. n - 1
                BY <3>2, <4>1
            <4> QED BY <1>7, <4>1, <4>2, <4>3
        <3>4. CASE ~wrap /\ i <= n - c2
            <4>1. c2 = c + 1 /\ i + 1 <= n - c /\ c2 + i - 1 = c + i /\ i # n
                  /\ c + i \in 0 .. n - 1 /\ c + i # c
                BY <1>0, <3>4
            <4> QED BY <1>7, <3>1, <3>2, <3>4, <4>1
        <3>5. CASE ~wrap /\ ~(i <= n - c2)
            <4>1. c2 = c + 1 /\ ~(i + 1 <= n - c)
                  /\ i - 1 - (n - c2) = i - (n - c) /\ i - (n - c) \in 0 .. n - 1
                  /\ (i = n => i - (n - c) = c) /\ (i # n => i - (n - c) # c)
                BY <1>0, <3>5
            <4> QED BY <1>7, <3>1, <3>2, <3>5, <4>1
        <3> QED BY <3>3, <3>4, <3>5
    <2>3. n \in 1 .. n /\ \A i \in 1 .. n - 1 : i \in 1 .. n /\ i # n
        OBVIOUS
    <2> QED BY <1>5, <1>6, <1>8, <1>12, <2>1, <2>2, <2>3 DEF Pushed, r2
<1> QED BY <1>11, <1>12

-----------------------------------------------------------------------------
(* The log and what waits to join it.                                      *)

Logged(s, lost, n) ==
    /\ s \in Seq(Nat)
    /\ \A i \in 1 .. Len(s) : s[i] <= n
    /\ \A i, j \in 1 .. Len(s) :
          i < j /\ s[i] # Warning /\ s[j] # Warning => s[i] < s[j]
    /\ \A i \in 1 .. Len(s) - 1 :
          s[i] # Warning /\ s[i + 1] # Warning => s[i] + 1 .. s[i + 1] - 1 \subseteq lost

\* Whatever was logged after the end of s is lost.
Reaches(s, lost, n) ==
    /\ Len(s) > 0 /\ s[Len(s)] # Warning => s[Len(s)] + 1 .. n \subseteq lost
    /\ n = 0 \/ n \in lost \/ (Len(s) > 0 /\ s[Len(s)] = n)

\* The log l is in order up to where the pending bytes c go on, and the two
\* together end with the n-th byte.
Stream(l, c, lost, n) ==
    /\ Logged(l, lost, n) /\ Logged(c, lost, n)
    /\ \A i \in 1 .. Len(l), j \in 1 .. Len(c) :
          l[i] # Warning /\ c[j] # Warning => l[i] < c[j]
    /\ Len(c) > 0 => c[Len(c)] # Warning /\ Reaches(c, lost, n)
    /\ Len(c) = 0 => Reaches(l, lost, n)

\* Where the two meet nothing is missing; an early buffer that has overflowed
\* meets the log only after its warning.
Seam(l, c, lost) ==
    Len(l) > 0 /\ Len(c) > 0 /\ l[Len(l)] # Warning /\ c[1] # Warning =>
        l[Len(l)] + 1 .. c[1] - 1 \subseteq lost

\* Logging the next byte at the end of a log that reaches the last one.
LEMMA LoggedNext ==
    ASSUME NEW s, NEW s2, NEW lost, NEW n \in Nat, NEW k \in 0 .. 1,
           Logged(s, lost, n), Len(s) > 0 => Reaches(s, lost, n),
           Pushed(s, s2, n + 1, k)
    PROVE  Logged(s2, lost, n + 1) /\ Reaches(s2, lost, n + 1)
<1>0. s \in Seq(Nat) /\ s2 \in Seq(Nat)
    BY DEF Logged, Pushed
<1>1. /\ s \in Seq(Nat) /\ s2 \in Seq(Nat) /\ Len(s) \in Nat /\ Len(s2) \in Nat
      /\ Len(s2) = Len(s) + 1 - k /\ Len(s2) >= 1
      /\ \A i \in 1 .. Len(s) : s[i] \in Nat
    <2>1. Len(s) \in Nat /\ Len(s2) \in Nat /\ \A i \in 1 .. Len(s) : s[i] \in Nat
        BY <1>0
    <2>2. Len(s2) = Len(s) + 1 - k /\ Len(s2) >= 1
        BY DEF Pushed
    <2> QED BY <1>0, <2>1, <2>2
<1>2. \A i \in 1 .. Len(s2) - 1 : i + k \in 1 .. Len(s) /\ s2[i] = s[i + k]
    <2>1. \A i \in 1 .. Len(s2) - 1 : s2[i] = s[i + k]
        BY DEF Pushed
    <2>2. \A i \in 1 .. Len(s2) - 1 : i + k \in 1 .. Len(s)
        BY <1>1
    <2> QED BY <2>1, <2>2
<1>3. s2[Len(s2)] = n + 1
    BY DEF Pushed
<1>4. ASSUME NEW i \in 1 .. Len(s2) PROVE s2[i] <= n + 1
    <2>1. CASE i = Len(s2)
        BY <1>3, <2>1
    <2>2. CASE i # Len(s2)
        <3>1. i \in 1 .. Len(s2) - 1
            BY <1>1, <2>2
        <3>2. s[i + k] \in Nat /\ s[i + k] <= n
            BY <1>1, <1>2, <3>1 DEF Logged
        <3> QED BY <1>2, <3>1, <3>2
    <2> QED BY <2>1, <2>2
<1>5. ASSUME NEW i \in 1 .. Len(s2), NEW j \in 1 .. Len(s2), i < j,
             s2[i] # Warning, s2[j] # Warning
      PROVE  s2[i] < s2[j]
    <2>0. i \in 1 .. Len(s2) - 1
        BY <1>1, <1>5
    <2>1. s2[i] = s[i + k] /\ i + k \in 1 .. Len(s)
        BY <1>2, <2>0
    <2>2. CASE j = Len(s2)
        BY <1>1, <1>3, <2>1, <2>2 DEF Logged
    <2>3. CASE j # Len(s2)
        <3>0. j \in 1 .. Len(s2) - 1 /\ i + k < j + k
            BY <1>1, <1>5, <2>3
        <3>1. s2[j] = s[j + k] /\ j + k \in 1 .. Len(s)
            BY <1>2, <3>0
        <3> QED BY <1>5, <2>1, <3>0, <3>1 DEF Logged
    <2> QED BY <2>2, <2>3
<1>6. ASSUME NEW i \in 1 .. Len(s2) - 1, s2[i] # Warning, s2[i + 1] # Warning
      PROVE  s2[i] + 1 .. s2[i + 1] - 1 \subseteq lost
    <2>1. s2[i] = s[i + k] /\ i + k \in 1 .. Len(s)
        BY <1>2
    <2>2. CASE i + 1 = Len(s2)
        <3>1. i + k = Len(s) /\ Len(s) > 0
            BY <1>1, <2>1, <2>2
        <3>2. s[Len(s)] + 1 .. n \subseteq lost
            BY <1>6, <2>1, <3>1 DEF Reaches
        <3>3. s2[i + 1] - 1 = n
            BY <1>3, <2>2
        <3> QED BY <2>1, <3>1, <3>2, <3>3
    <2>3. CASE i + 1 # Len(s2)
        <3>1. i + 1 \in 1 .. Len(s2) - 1 /\ (i + 1) + k = (i + k) + 1
              /\ i + k \in 1 .. Len(s) - 1
            BY <1>1, <2>3
        <3>2. s2[i + 1] = s[(i + k) + 1]
            BY <1>2, <3>1
        <3> QED BY <1>6, <2>1, <3>1, <3>2 DEF Logged
    <2> QED BY <2>2, <2>3
<1>7. Reaches(s2, lost, n + 1)
    <2>1. (n + 1) + 1 .. n + 1 = {}
        OBVIOUS
    <2> QED BY <1>1, <1>3, <2>1 DEF Reaches
<1> QED BY <1>1, <1>4, <1>5, <1>6, <1>7 DEF Logged

\* Log, with an early buffer in use.
LEMMA LogEarly ==
    ASSUME NEW l, NEW c, NEW c2, NEW lost, NEW n \in Nat, NEW k \in 0 .. 1,
           Stream(l, c, lost, n), Pushed(c, c2, n + 1, k)
    PROVE  /\ Stream(l, c2, lost, n + 1)
           /\ Seam(l, c, lost) /\ k = 0 => Seam(l, c2, lost)
<1>0. l \in Seq(Nat) /\ c \in Seq(Nat) /\ c2 \in Seq(Nat)
    BY DEF Stream, Logged, Pushed
<1>1. /\ Len(l) \in Nat /\ Len(c) \in Nat /\ Len(c2) \in Nat
      /\ Len(c2) = Len(c) + 1 - k /\ Len(c2) >= 1
      /\ \A i \in 1 .. Len(l) : l[i] \in Nat /\ l[i] <= n
      /\ c2[Len(c2)] = n + 1
      /\ \A i \in 1 .. Len(c2) - 1 : i + k \in 1 .. Len(c) /\ c2[i] = c[i + k]
    <2>1. /\ Len(l) \in Nat /\ Len(c) \in Nat /\ Len(c2) \in Nat
          /\ \A i \in 1 .. Len(l) : l[i] \in Nat
        BY <1>0
    <2>2. \A i \in 1 .. Len(l) : l[i] <= n
        BY DEF Stream, Logged
    <2>3. /\ Len(c2) = Len(c) + 1 - k /\ Len(c2) >= 1 /\ c2[Len(c2)] = n + 1
          /\ \A i \in 1 .. Len(c2) - 1 : c2[i] = c[i + k]
        BY DEF Pushed
    <2>4. \A i \in 1 .. Len(c2) - 1 : i + k \in 1 .. Len(c)
        BY <2>1, <2>3
    <2> QED BY <2>1, <2>2, <2>3, <2>4
<1>2. Logged(c2, lost, n + 1) /\ Reaches(c2, lost, n + 1)
    BY LoggedNext DEF Stream
<1>3. Logged(l, lost, n + 1)
    <2>1. \A i \in 1 .. Len(l) : l[i] <= n + 1
        BY <1>1
    <2> QED BY <2>1 DEF Stream, Logged
<1>4. ASSUME NEW i \in 1 .. Len(l), NEW j \in 1 .. Len(c2),
             l[i] # Warning, c2[j] # Warning
      PROVE  l[i] < c2[j]
    <2>1. CASE j = Len(c2)
        BY <1>1, <2>1
    <2>2. CASE j # Len(c2)
        <3>0. j \in 1 .. Len(c2) - 1
            BY <1>1, <2>2
        <3>1. c2[j] = c[j + k] /\ j + k \in 1 .. Len(c)
            BY <1>1, <3>0
        <3> QED BY <1>4, <3>1 DEF Stream
    <2> QED BY <2>1, <2>2
<1>5. c2[Len(c2)] # Warning
    BY <1>1 DEF Warning
<1>6. ASSUME Seam(l, c, lost), k = 0 PROVE Seam(l, c2, lost)
    <2>1. CASE Len(c) = 0
        <3>1. Len(c2) = 1 /\ c2[1] - 1 = n
            BY <1>1, <1>6, <2>1
        <3> QED BY <2>1, <3>1 DEF Stream, Reaches, Seam
    <2>2. CASE Len(c) # 0
        <3>1. c2[1] = c[1] /\ Len(c) > 0
            BY <1>1, <1>6, <2>2
        <3> QED BY <1>6, <3>1 DEF Seam
    <2> QED BY <2>1, <2>2
<1> QED BY <1>1, <1>2, <1>3, <1>4, <1>5, <1>6 DEF Stream

\* Log, with the CBMEM console in use.
LEMMA LogCbmem ==
    ASSUME NEW l, NEW l2, NEW lost, NEW n \in Nat, NEW k \in 0 .. 1,
           Stream(l, <<>>, lost, n), Pushed(l, l2, n + 1, k)
    PROVE  Stream(l2, <<>>, lost, n + 1)
<1>1. Len(<<>>) = 0 /\ <<>> \in Seq(Nat)
    OBVIOUS
<1>2. Logged(l2, lost, n + 1) /\ Reaches(l2, lost, n + 1)
    BY <1>1, LoggedNext DEF Stream
<1>3. Logged(<<>>, lost, n + 1)
    BY <1>1 DEF Logged
<1> QED BY <1>1, <1>2, <1>3 DEF Stream

\* Log, with no buffer.
LEMMA LogNone ==
    ASSUME NEW l, NEW lost, NEW n \in Nat, Stream(l, <<>>, lost, n)
    PROVE  Stream(l, <<>>, lost \cup {n + 1}, n + 1)
<1>1. Len(<<>>) = 0 /\ <<>> \in Seq(Nat)
    OBVIOUS
<1>2. l \in Seq(Nat) /\ Len(l) \in Nat /\ \A i \in 1 .. Len(l) : l[i] \in Nat
    BY DEF Stream, Logged
<1>3. Logged(l, lost \cup {n + 1}, n + 1) /\ Logged(<<>>, lost \cup {n + 1}, n + 1)
    <2>1. \A i \in 1 .. Len(l) : l[i] <= n + 1
        BY <1>2 DEF Stream, Logged
    <2> QED BY <1>1, <1>2, <2>1 DEF Stream, Logged
<1>4. Reaches(l, lost \cup {n + 1}, n + 1)
    <2>1. ASSUME Len(l) > 0, l[Len(l)] # Warning
          PROVE  l[Len(l)] + 1 .. n + 1 \subseteq lost \cup {n + 1}
        <3>1. l[Len(l)] + 1 .. n \subseteq lost
            BY <1>1, <2>1 DEF Stream, Reaches
        <3>2. l[Len(l)] \in Nat
            BY <1>2, <2>1
        <3> QED BY <3>1, <3>2
    <2> QED BY <2>1 DEF Reaches
<1> QED BY <1>1, <1>3, <1>4 DEF Stream

\* More may be lost.
LEMMA LoseMore ==
    ASSUME NEW l, NEW c, NEW lost, NEW more, NEW n \in Nat, Stream(l, c, lost, n)
    PROVE  /\ Stream(l, c, lost \cup more, n)
           /\ Seam(l, c, lost) => Seam(l, c, lost \cup more)
<1>1. Logged(l, lost \cup more, n) /\ Logged(c, lost \cup more, n)
    BY DEF Stream, Logged
<1>2. \A s : Reaches(s, lost, n) => Reaches(s, lost \cup more, n)
    BY DEF Reaches
<1>3. Seam(l, c, lost) => Seam(l, c, lost \cup more)
    BY DEF Seam
<1> QED BY <1>1, <1>2, <1>3 DEF Stream

\* The warning goes in front of what waits.
LEMMA Warned ==
    ASSUME NEW l, NEW c, NEW lost, NEW n \in Nat, Stream(l, c, lost, n), Len(c) > 0
    PROVE  Stream(l, <<Warning>> \o c, lost, n) /\ Seam(l, <<Warning>> \o c, lost)
<1> DEFINE c2 == <<Warning>> \o c
<1>0. l \in Seq(Nat) /\ c \in Seq(Nat)
    BY DEF Stream, Logged
<1>1. c2 \in Seq(Nat) /\ Len(c2) = 1 + Len(c) /\ c2[1] = 0
      /\ \A i \in 2 .. Len(c2) : c2[i] = c[i - 1]
    <2>1. <<Warning>> \in Seq(Nat) /\ Len(<<Warning>>) = 1 /\ <<Warning>>[1] = 0
        BY DEF Warning
    <2>2. Len(c) \in Nat
        BY <1>0
    <2>3. /\ c2 \in Seq(Nat) /\ Len(c2) = 1 + Len(c)
          /\ \A i \in 1 .. Len(<<Warning>>) + Len(c) :
                c2[i] = IF i <= Len(<<Warning>>) THEN <<Warning>>[i]
                        ELSE c[i - Len(<<Warning>>)]
        <3> DEFINE w == <<Warning>>
        <3>1. w \in Seq(Nat) /\ Len(w) = 1
            BY <2>1
        <3> HIDE DEF w
        <3>2. /\ w \o c \in Seq(Nat) /\ Len(w \o c) = Len(w) + Len(c)
              /\ \A i \in 1 .. Len(w) + Len(c) :
                    (w \o c)[i] = IF i <= Len(w) THEN w[i] ELSE c[i - Len(w)]
            BY <1>0, <3>1, ConcatProperties
        <3>3. Len(w \o c) = 1 + Len(c)
            BY <3>1, <3>2
        <3> QED BY <3>2, <3>3, Zenon DEF w
    <2> HIDE DEF c2
    <2> QED BY <2>1, <2>2, <2>3
<1> HIDE DEF c2
<1>2. Len(c) \in Nat /\ Len(c2) \in Nat /\ Len(c2) >= 2 /\ Len(l) \in Nat
      /\ \A i \in 1 .. Len(c) : c[i] \in Nat
    BY <1>0, <1>1
<1>3. \A i \in 1 .. Len(c2) : i # 1 => i - 1 \in 1 .. Len(c) /\ c2[i] = c[i - 1]
    <2>1. \A i \in 1 .. Len(c2) : i # 1 => i - 1 \in 1 .. Len(c) /\ i \in 2 .. Len(c2)
        BY <1>1, <1>2
    <2> QED BY <1>1, <2>1
<1>4. Logged(c2, lost, n)
    <2>1. ASSUME NEW i \in 1 .. Len(c2) PROVE c2[i] <= n
        <3>1. CASE i = 1
            BY <1>1, <3>1
        <3>2. CASE i # 1
            BY <1>3, <3>2 DEF Stream, Logged
        <3> QED BY <3>1, <3>2
    <2>2. ASSUME NEW i \in 1 .. Len(c2), NEW j \in 1 .. Len(c2), i < j,
                 c2[i] # Warning, c2[j] # Warning
          PROVE  c2[i] < c2[j]
        <3>1. i # 1 /\ j # 1 /\ i - 1 < j - 1
            BY <1>1, <1>2, <2>2 DEF Warning
        <3>2. /\ c2[i] = c[i - 1] /\ i - 1 \in 1 .. Len(c)
              /\ c2[j] = c[j - 1] /\ j - 1 \in 1 .. Len(c)
            BY <1>3, <3>1
        <3> QED BY <2>2, <3>1, <3>2 DEF Stream, Logged
    <2>3. ASSUME NEW i \in 1 .. Len(c2) - 1, c2[i] # Warning, c2[i + 1] # Warning
          PROVE  c2[i] + 1 .. c2[i + 1] - 1 \subseteq lost
        <3>1. i # 1 /\ i + 1 # 1 /\ i - 1 \in 1 .. Len(c) - 1 /\ i + 1 \in 1 .. Len(c2)
              /\ i \in 1 .. Len(c2) /\ (i + 1) - 1 = (i - 1) + 1
            <4>1. i # 1
                BY <1>1, <2>3 DEF Warning
            <4> QED BY <1>1, <1>2, <4>1
        <3>2. c2[i] = c[i - 1] /\ c2[i + 1] = c[(i - 1) + 1]
            BY <1>3, <3>1
        <3> QED BY <2>3, <3>1, <3>2 DEF Stream, Logged
    <2> QED BY <1>1, <2>1, <2>2, <2>3 DEF Logged
<1>5. ASSUME NEW i \in 1 .. Len(l), NEW j \in 1 .. Len(c2),
             l[i] # Warning, c2[j] # Warning
      PROVE  l[i] < c2[j]
    <2>1. j # 1
        BY <1>1, <1>5 DEF Warning
    <2>2. j - 1 \in 1 .. Len(c) /\ c2[j] = c[j - 1]
        BY <1>3, <2>1
    <2> QED BY <1>5, <2>2 DEF Stream
<1>6. c2[Len(c2)] = c[Len(c)]
    <2>1. Len(c2) \in 1 .. Len(c2) /\ Len(c2) # 1 /\ Len(c2) - 1 = Len(c)
        BY <1>1, <1>2
    <2> QED BY <1>3, <2>1
<1>7. c2[Len(c2)] # Warning /\ Reaches(c2, lost, n)
    BY <1>2, <1>6 DEF Stream, Reaches
<1>8. Seam(l, c2, lost)
    BY <1>1 DEF Seam, Warning
<1> QED BY <1>2, <1>4, <1>5, <1>7, <1>8 DEF Stream, c2

\* A byte goes from the front of what waits to the end of the log.
LEMMA CopyByte ==
    ASSUME NEW l, NEW l2, NEW c, NEW lost, NEW n \in Nat, NEW k \in 0 .. 1,
           Stream(l, c, lost, n), Seam(l, c, lost), Len(c) > 0,
           Pushed(l, l2, Head(c), k)
    PROVE  Stream(l2, Tail(c), lost, n) /\ Seam(l2, Tail(c), lost)
<1> DEFINE c2 == Tail(c)
<1>0. l \in Seq(Nat) /\ c \in Seq(Nat) /\ l2 \in Seq(Nat)
    BY DEF Stream, Logged, Pushed
<1>1. /\ Len(l) \in Nat /\ Len(c) \in Nat /\ Len(l2) \in Nat
      /\ \A i \in 1 .. Len(l) : l[i] \in Nat
      /\ \A i \in 1 .. Len(c) : c[i] \in Nat
    BY <1>0
<1>2. Head(c) = c[1] /\ c2 \in Seq(Nat) /\ Len(c2) = Len(c) - 1
      /\ \A i \in 1 .. Len(c2) : c2[i] = c[i + 1]
    BY <1>0, <1>1
<1> HIDE DEF c2
<1>3. /\ Len(l2) = Len(l) + 1 - k /\ Len(l2) >= 1 /\ l2[Len(l2)] = c[1]
      /\ \A i \in 1 .. Len(l2) - 1 : l2[i] = l[i + k]
    BY <1>2 DEF Pushed
<1>4. \A i \in 1 .. Len(l2) : i # Len(l2) => /\ i \in 1 .. Len(l2) - 1
                                            /\ i + k \in 1 .. Len(l)
    BY <1>1, <1>3
<1>5. \A i \in 1 .. Len(l2) : i # Len(l2) => l2[i] = l[i + k] /\ i + k \in 1 .. Len(l)
    BY <1>3, <1>4
<1>6. \A i \in 1 .. Len(c2) : i + 1 \in 1 .. Len(c) /\ i + 1 # 1 /\ 1 < i + 1
    BY <1>1, <1>2
<1>7. 1 \in 1 .. Len(c) /\ Len(c2) \in Nat
    BY <1>1, <1>2
<1>8. Logged(l2, lost, n)
    <2>1. ASSUME NEW i \in 1 .. Len(l2) PROVE l2[i] <= n
        <3>1. CASE i = Len(l2)
            BY <1>3, <1>7, <3>1 DEF Stream, Logged
        <3>2. CASE i # Len(l2)
            BY <1>5, <3>2 DEF Stream, Logged
        <3> QED BY <3>1, <3>2
    <2>2. ASSUME NEW i \in 1 .. Len(l2), NEW j \in 1 .. Len(l2), i < j,
                 l2[i] # Warning, l2[j] # Warning
          PROVE  l2[i] < l2[j]
        <3>1. i # Len(l2)
            BY <1>1, <2>2
        <3>2. l2[i] = l[i + k] /\ i + k \in 1 .. Len(l)
            BY <1>5, <3>1
        <3>3. CASE j = Len(l2)
            <4>1. l2[j] = c[1]
                BY <1>3, <3>3
            <4> QED BY <1>7, <2>2, <3>2, <4>1 DEF Stream
        <3>4. CASE j # Len(l2)
            <4>1. l2[j] = l[j + k] /\ j + k \in 1 .. Len(l)
                BY <1>5, <3>4
            <4>2. i + k < j + k
                BY <2>2
            <4> QED BY <2>2, <3>2, <4>1, <4>2 DEF Stream, Logged
        <3> QED BY <3>3, <3>4
    <2>3. ASSUME NEW i \in 1 .. Len(l2) - 1, l2[i] # Warning, l2[i + 1] # Warning
          PROVE  l2[i] + 1 .. l2[i + 1] - 1 \subseteq lost
        <3>0. i \in 1 .. Len(l2) /\ i # Len(l2) /\ i + 1 \in 1 .. Len(l2)
            BY <1>1
        <3>1. l2[i] = l[i + k] /\ i + k \in 1 .. Len(l)
            BY <1>5, <3>0
        <3>2. CASE i + 1 = Len(l2)
            <4>1. i + k = Len(l) /\ Len(l) > 0
                BY <1>1, <1>3, <3>1, <3>2
            <4>2. l2[i + 1] = c[1] /\ l2[i] = l[Len(l)]
                BY <1>3, <3>1, <3>2, <4>1
            <4> QED BY <2>3, <4>1, <4>2 DEF Seam
        <3>3. CASE i + 1 # Len(l2)
            <4>1. l2[i + 1] = l[(i + 1) + k]
                BY <1>5, <3>0, <3>3
            <4>2. (i + 1) + k = (i + k) + 1 /\ i + k \in 1 .. Len(l) - 1
                BY <1>1, <1>3, <3>3
            <4>3. l2[i + 1] = l[(i + k) + 1]
                BY <4>1, <4>2
            <4> QED BY <2>3, <3>1, <4>2, <4>3 DEF Stream, Logged
        <3> QED BY <3>2, <3>3
    <2> QED BY <1>0, <2>1, <2>2, <2>3 DEF Logged
<1>9. Logged(c2, lost, n)
    <2>1. \A i \in 1 .. Len(c2) : c2[i] <= n
        BY <1>2, <1>6 DEF Stream, Logged
    <2>2. ASSUME NEW i \in 1 .. Len(c2), NEW j \in 1 .. Len(c2), i < j,
                 c2[i] # Warning, c2[j] # Warning
          PROVE  c2[i] < c2[j]
        <3>1. i + 1 \in 1 .. Len(c) /\ j + 1 \in 1 .. Len(c) /\ i + 1 < j + 1
            BY <1>6, <2>2
        <3> QED BY <1>2, <2>2, <3>1 DEF Stream, Logged
    <2>3. ASSUME NEW i \in 1 .. Len(c2) - 1, c2[i] # Warning, c2[i + 1] # Warning
          PROVE  c2[i] + 1 .. c2[i + 1] - 1 \subseteq lost
        <3>1. i \in 1 .. Len(c2) /\ i + 1 \in 1 .. Len(c2) /\ i + 1 \in 1 .. Len(c) - 1
            BY <1>1, <1>2, <1>7
        <3>2. c2[i] = c[i + 1] /\ c2[i + 1] = c[(i + 1) + 1]
            BY <1>2, <3>1
        <3> QED BY <2>3, <3>1, <3>2 DEF Stream, Logged
    <2> QED BY <1>2, <2>1, <2>2, <2>3 DEF Logged
<1>10. ASSUME NEW i \in 1 .. Len(l2), NEW j \in 1 .. Len(c2),
              l2[i] # Warning, c2[j] # Warning
       PROVE  l2[i] < c2[j]
    <2>1. c2[j] = c[j + 1] /\ j + 1 \in 1 .. Len(c) /\ 1 < j + 1
        BY <1>2, <1>6
    <2>2. CASE i = Len(l2)
        <3>1. l2[i] = c[1]
            BY <1>3, <2>2
        <3> QED BY <1>7, <1>10, <2>1, <3>1 DEF Stream, Logged
    <2>3. CASE i # Len(l2)
        <3>1. l2[i] = l[i + k] /\ i + k \in 1 .. Len(l)
            BY <1>5, <2>3
        <3> QED BY <1>10, <2>1, <3>1 DEF Stream
    <2> QED BY <2>2, <2>3
<1>11. CASE Len(c2) = 0
    <2>1. Len(c) = 1 /\ l2[Len(l2)] = c[Len(c)]
        <3>1. \A m \in Nat : 0 = m - 1 => m = 1
            OBVIOUS
        <3> QED BY <1>1, <1>2, <1>3, <1>11, <3>1, Zenon
    <2>2. Reaches(l2, lost, n)
        BY <1>3, <2>1 DEF Stream, Reaches
    <2>3. Seam(l2, c2, lost)
        BY <1>11 DEF Seam
    <2>4. ~(Len(c2) > 0)
        BY <1>11
    <2> QED BY <1>8, <1>9, <1>10, <2>2, <2>3, <2>4 DEF Stream, c2
<1>12. CASE Len(c2) > 0
    <2>1. Len(c2) \in 1 .. Len(c2) /\ Len(c2) + 1 = Len(c) /\ 1 \in 1 .. Len(c2)
        BY <1>1, <1>2, <1>7, <1>12
    <2>2. c2[Len(c2)] = c[Len(c)] /\ c2[1] = c[1 + 1]
        BY <1>2, <2>1
    <2>3. c2[Len(c2)] # Warning /\ Reaches(c2, lost, n)
        BY <1>12, <2>2 DEF Stream, Reaches
    <2>4. Seam(l2, c2, lost)
        <3>1. 1 \in 1 .. Len(c) - 1
            BY <1>1, <2>1
        <3> QED BY <1>3, <2>2, <3>1 DEF Seam, Stream, Logged
    <2>5. Len(c2) # 0
        BY <1>12
    <2> QED BY <1>8, <1>9, <1>10, <2>3, <2>4, <2>5 DEF Stream, c2
<1> QED BY <1>7, <1>11, <1>12

\* What waits is lost, and with it every byte after the newest one in the log.
LEMMA Lose ==
    ASSUME NEW l, NEW c, NEW lost, NEW n \in Nat, Stream(l, c, lost, n)
    PROVE  LET more == {i \in 1 .. n : \A j \in Range(l) : j < i}
           IN  Stream(l, <<>>, lost \cup more, n) /\ Seam(l, <<>>, lost \cup more)
<1> DEFINE more == {i \in 1 .. n : \A j \in Range(l) : j < i}
<1>0. l \in Seq(Nat) /\ c \in Seq(Nat)
    BY DEF Stream, Logged
<1>1. /\ Len(l) \in Nat /\ Len(c) \in Nat
      /\ \A i \in 1 .. Len(l) : l[i] \in Nat
      /\ \A i \in 1 .. Len(c) : c[i] \in Nat
    BY <1>0
<1>2. \A j \in Range(l) : \E i \in 1 .. Len(l) : j = l[i]
    BY <1>0 DEF Range
<1>3. <<>> \in Seq(Nat) /\ Len(<<>>) = 0
    OBVIOUS
<1>4. Logged(l, lost \cup more, n) /\ Logged(<<>>, lost \cup more, n)
    <2> HIDE DEF more
    <2> QED BY <1>3 DEF Stream, Logged
<1>5. ASSUME Len(l) > 0, l[Len(l)] # Warning, NEW i \in l[Len(l)] + 1 .. n
      PROVE  i \in more
    <2>1. Len(l) \in 1 .. Len(l) /\ l[Len(l)] \in Nat
        BY <1>1, <1>5
    <2>2. i \in 1 .. n /\ l[Len(l)] < i
        BY <2>1
    <2>3. ASSUME NEW m \in 1 .. Len(l) PROVE l[m] < i
        <3>1. CASE l[m] = Warning
            BY <2>2, <3>1 DEF Warning
        <3>2. CASE m = Len(l)
            BY <2>2, <3>2
        <3>3. CASE m # Len(l) /\ l[m] # Warning
            <4>1. m < Len(l)
                BY <1>1, <3>3
            <4>2. l[m] < l[Len(l)]
                BY <1>5, <2>1, <3>3, <4>1 DEF Stream, Logged
            <4>3. l[m] \in Nat
                BY <1>1
            <4> QED BY <2>1, <2>2, <4>2, <4>3
        <3> QED BY <3>1, <3>2, <3>3
    <2> QED BY <1>2, <2>2, <2>3
<1>6. n = 0 \/ n \in lost \cup more \/ (Len(l) > 0 /\ l[Len(l)] = n)
    <2>1. CASE Len(c) = 0
        BY <2>1 DEF Stream, Reaches
    <2>2. CASE Len(c) # 0 /\ n # 0
        <3>1. Len(c) \in 1 .. Len(c) /\ c[Len(c)] # Warning /\ c[Len(c)] <= n
              /\ c[Len(c)] \in Nat /\ Len(c) > 0
            BY <1>1, <2>2 DEF Stream, Logged
        <3>2. ASSUME NEW m \in 1 .. Len(l) PROVE l[m] < n
            <4>1. CASE l[m] = Warning
                BY <2>2, <4>1 DEF Warning
            <4>2. CASE l[m] # Warning
                <5>1. l[m] < c[Len(c)]
                    BY <3>1, <4>2 DEF Stream
                <5>2. l[m] \in Nat
                    BY <1>1
                <5> QED BY <3>1, <5>1, <5>2
            <4> QED BY <4>1, <4>2
        <3>3. n \in 1 .. n
            BY <2>2
        <3> QED BY <1>2, <3>2, <3>3
    <2> QED BY <2>1, <2>2
<1> HIDE DEF more
<1>7. Reaches(l, lost \cup more, n)
    BY <1>5, <1>6 DEF Reaches
<1>8. Stream(l, <<>>, lost \cup more, n)
    BY <1>3, <1>4, <1>7 DEF Stream
<1>9. Seam(l, <<>>, lost \cup more)
    BY <1>3 DEF Seam
<1> QED BY <1>8, <1>9 DEF more

\* With nothing kept everything is lost.
LEMMA NothingKept ==
    ASSUME NEW n \in Nat
    PROVE  Stream(<<>>, <<>>, 1 .. n, n) /\ Seam(<<>>, <<>>, 1 .. n)
<1>1. <<>> \in Seq(Nat) /\ Len(<<>>) = 0
    OBVIOUS
<1>2. Logged(<<>>, 1 .. n, n)
    BY <1>1 DEF Logged
<1>3. Reaches(<<>>, 1 .. n, n)
    BY <1>1 DEF Reaches
<1> QED BY <1>1, <1>2, <1>3 DEF Stream, Seam

-----------------------------------------------------------------------------
(* The operations on one buffer.                                           *)

\* Every buffer has room for a byte.
LEMMA BodySize == \A b \in Buffers : Body(b) \in Nat \ {0}
BY SizeAssumption DEF Body

\* What the size field tells of a buffer.
LEMMA RingSize ==
    ASSUME NEW n \in Nat \ {0}, NEW r
    PROVE  /\ r \in Ring(n) => r.size = n /\ r.size > 0
           /\ r \in Unused(n) => r.size = 0 /\ ~(r.size > 0)
           /\ r \in Ring(n) \cup Unused(n) =>
                /\ r.size \in {0, n} /\ r.cursor \in 0 .. n - 1
                /\ DOMAIN r.body = 0 .. n - 1 /\ r.body \in Memory(n)
                /\ r.overflow \in BOOLEAN
<1>1. r \in Ring(n) => /\ r.size = n /\ r.cursor \in 0 .. n - 1
                       /\ r.body \in [0 .. n - 1 -> Nat] /\ r.overflow \in BOOLEAN
    BY DEF Ring, Memory
<1>2. r \in Unused(n) => /\ r.size = 0 /\ r.cursor \in 0 .. n - 1
                         /\ r.body \in [0 .. n - 1 -> Nat] /\ r.overflow \in BOOLEAN
    BY DEF Unused, Memory
<1>3. n > 0 /\ ~(0 > 0)
    OBVIOUS
<1>4. r \in Ring(n) => r.size = n /\ r.size > 0
    BY <1>1, <1>3, Zenon
<1>5. r \in Unused(n) => r.size = 0 /\ ~(r.size > 0)
    BY <1>2, <1>3, Zenon
<1>6. r \in Ring(n) \cup Unused(n) =>
         /\ r.size \in {0, n} /\ r.cursor \in 0 .. n - 1
         /\ DOMAIN r.body = 0 .. n - 1 /\ r.body \in Memory(n)
         /\ r.overflow \in BOOLEAN
    BY <1>1, <1>2, Zenon DEF Memory
<1> QED BY <1>4, <1>5, <1>6

\* Nothing has been written yet.
LEMMA EmptyContents ==
    ASSUME NEW r, ~r.overflow, r.cursor = 0
    PROVE  Contents(r) = <<>>
<1>1. Slice(r, 0, r.cursor) = <<>>
    BY DEF Slice
<1> QED BY <1>1 DEF Contents

\* Memory that lost its contents is not taken for a console.
LEMMA BlankIs ==
    ASSUME NEW b \in Buffers
    PROVE  Blank(b) \in Unused(Body(b)) /\ Blank(b).cursor = 0 /\ ~Blank(b).overflow
<1>1. Body(b) \in Nat \ {0} /\ 0 \in 0 .. Body(b) - 1
    BY BodySize
<1>2. [i \in 0 .. Body(b) - 1 |-> Warning] \in [0 .. Body(b) - 1 -> Nat]
    BY DEF Warning
<1>3. Blank(b) \in Unused(Body(b))
    BY <1>1, <1>2, Zenon DEF Blank, Unused, Memory
<1> QED BY <1>3 DEF Blank

\* init_console_ptr keeps a console and makes one of anything else.
LEMMA InitPtr ==
    ASSUME NEW n \in Nat \ {0}, NEW r
    PROVE  /\ r \in Ring(n) => init_console_ptr(r, n) = r
           /\ r \in Unused(n) =>
                /\ init_console_ptr(r, n) \in Ring(n)
                /\ init_console_ptr(r, n).cursor = 0
                /\ ~init_console_ptr(r, n).overflow
                /\ Contents(init_console_ptr(r, n)) = <<>>
<1>1. ASSUME r \in Ring(n) PROVE init_console_ptr(r, n) = r
    <2>1. r.size = n /\ r.cursor < r.size
        BY <1>1 DEF Ring
    <2> QED BY <2>1 DEF init_console_ptr, buffer_valid
<1>2. ASSUME r \in Unused(n)
      PROVE  /\ init_console_ptr(r, n) \in Ring(n)
             /\ init_console_ptr(r, n).cursor = 0
             /\ ~init_console_ptr(r, n).overflow
    <2>1. r.size = 0 /\ r.body \in Memory(n)
        BY <1>2 DEF Unused
    <2>2. init_console_ptr(r, n) =
            [size |-> n, cursor |-> 0, overflow |-> FALSE, body |-> r.body]
        <3>1. r.size # n
            BY <2>1
        <3> QED BY <3>1 DEF init_console_ptr, buffer_valid
    <2>3. 0 \in 0 .. n - 1
        OBVIOUS
    <2>4. [size |-> n, cursor |-> 0, overflow |-> FALSE, body |-> r.body] \in Ring(n)
        BY <2>1, <2>3, Zenon DEF Ring
    <2> QED BY <2>2, <2>4
<1> QED BY <1>1, <1>2, EmptyContents

\* An invalidated buffer is not taken for a console again.
LEMMA InvalidatedIs ==
    ASSUME NEW n \in Nat \ {0}, NEW r \in Ring(n) \cup Unused(n)
    PROVE  Invalidated(r) \in Unused(n)
<1>1. CASE r \in Ring(n)
    BY <1>1, Zenon DEF Invalidated, Ring, Unused
<1>2. CASE r \in Unused(n)
    BY <1>2, Zenon DEF Invalidated, Unused
<1> QED BY <1>1, <1>2

\* The copy begins with the warning if the buffer has overflowed.
LEMMA CopiedIs ==
    ASSUME NEW n \in Nat \ {0}, NEW r \in Ring(n)
    PROVE  /\ Copied(r) \in Seq(Nat)
           /\ r.overflow => Copied(r) = <<Warning>> \o Contents(r) /\ Len(Contents(r)) > 0
           /\ ~r.overflow => Copied(r) = Contents(r)
<1>1. Contents(r) \in Seq(Nat)
    BY ContentsIs
<1>2. CASE r.overflow
    <2>1. Copied(r) = <<Warning>> \o Contents(r)
        BY <1>2 DEF Copied
    <2>2. Len(Contents(r)) = n
        BY <1>2, ContentsIs
    <2>3. <<Warning>> \in Seq(Nat)
        BY DEF Warning
    <2>4. <<Warning>> \o Contents(r) \in Seq(Nat)
        <3> DEFINE w == <<Warning>>
        <3> HIDE DEF w
        <3>1. w \o Contents(r) \in Seq(Nat)
            BY <1>1, <2>3, ConcatProperties DEF w
        <3> QED BY <3>1 DEF w
    <2> QED BY <1>2, <2>1, <2>2, <2>4
<1>3. CASE ~r.overflow
    <2>1. Copied(r) = <<>> \o Contents(r)
        BY <1>3 DEF Copied
    <2>2. Copied(r) = Contents(r)
        BY <1>1, <2>1, ConcatEmptySeq
    <2> QED BY <1>1, <1>3, <2>2
<1> QED BY <1>2, <1>3

\* One buffer of three is assigned.
LEMMA Assigned ==
    ASSUME NEW f, f = [b \in Buffers |-> f[b]], NEW x \in Buffers, NEW v, NEW g,
           g = [f EXCEPT ![x] = v]
    PROVE  /\ g = [b \in Buffers |-> g[b]]
           /\ g[x] = v
           /\ \A b \in Buffers : b # x => g[b] = f[b]
OBVIOUS

-----------------------------------------------------------------------------
(* The inductive invariant.                                                *)

Types ==
    /\ sram_kept \in BOOLEAN /\ hooked \in BOOLEAN
    /\ stage \in {"bootblock", "romstage", "postcar", "ramstage"}
    /\ buf = [b \in Buffers |-> buf[b]]
    /\ \A b \in Buffers : buf[b] \in Ring(Body(b)) \cup Unused(Body(b))
    /\ current \in Buffers \cup {"none"}
    /\ current # "none" => buf[current] \in Ring(Body(current))
    /\ queue \in Seq(Nat)
    /\ dropped \subseteq 1 .. logged
    /\ logged \in 0 .. MaxBytes
    /\ resets \in 0 .. MaxResets

\* Which buffer a stage uses, and what it copies: its early buffer until its
\* CBMEM hook has run.
Placed ==
    /\ ~hooked => current = Early(stage) /\ source = "none"
    /\ hooked => current \in {"cbmem", "none"} /\ stage # "bootblock"
    /\ Copying => source = Early(stage) /\ current = "cbmem" /\ buf[source].size > 0
    /\ buf["cbmem"].size = 0 => buf["cbmem"].cursor = 0 /\ ~buf["cbmem"].overflow

\* The pre-RAM buffer was copied and invalidated before the stages with memory.
PreRamCopied ==
    ~torn /\ (~PreRam(stage) \/ (hooked /\ ~Copying)) => buf["preram"].size = 0

\* What has still to reach the CBMEM console.
Pending == IF Copying THEN queue ELSE IF hooked THEN <<>> ELSE Contents(buf[current])

Flow ==
    ~torn => /\ Stream(Contents(buf["cbmem"]), Pending, dropped, logged)
             /\ \/ ~Copying /\ ~hooked /\ buf[current].overflow
                \/ Seam(Contents(buf["cbmem"]), Pending, dropped)

Inv == Types /\ Placed /\ PreRamCopied /\ Flow

\* The parts of the invariant, read as an action reads them.
LEMMA InvFacts ==
    ASSUME Types, Placed
    PROVE  /\ buf["cbmem"] \in Ring(CbmemSize) \cup Unused(CbmemSize)
           /\ Contents(buf["cbmem"]) \in Seq(Nat)
           /\ buf["cbmem"] \in Unused(CbmemSize) => Contents(buf["cbmem"]) = <<>>
           /\ Early(stage) \in {"preram", "static"}
           /\ logged \in Nat /\ logged + 1 \in Nat
<1>1. buf["cbmem"] \in Ring(CbmemSize) \cup Unused(CbmemSize)
    BY DEF Types, Buffers, Body
<1>2. CbmemSize \in Nat \ {0}
    BY SizeAssumption
<1>3. buf["cbmem"] \in Unused(CbmemSize) => Contents(buf["cbmem"]) = <<>>
    BY <1>2, RingSize, EmptyContents DEF Placed
<1>4. Contents(buf["cbmem"]) \in Seq(Nat)
    <2>1. <<>> \in Seq(Nat)
        OBVIOUS
    <2> QED BY <1>1, <1>2, <1>3, <2>1, ContentsIs
<1>5. Early(stage) \in {"preram", "static"}
    BY DEF Early
<1>6. logged \in Nat /\ logged + 1 \in Nat
    BY SizeAssumption DEF Types
<1> QED BY <1>1, <1>3, <1>4, <1>5, <1>6

LEMMA LogStep ==
    ASSUME Inv, Log
    PROVE  Inv'
<1>1. /\ Types /\ Placed /\ PreRamCopied /\ Flow
      /\ source = "none" /\ ~Copying /\ ~Copying'
      /\ logged' = logged + 1 /\ logged < MaxBytes
      /\ sram_kept' = sram_kept /\ stage' = stage /\ current' = current
      /\ hooked' = hooked /\ source' = source /\ queue' = queue /\ torn' = torn
      /\ resets' = resets
    BY DEF Inv, Log, Copying
<1>2. logged \in Nat /\ logged + 1 \in Nat /\ logged' \in 0 .. MaxBytes
      /\ 1 .. logged \subseteq 1 .. logged + 1 /\ logged + 1 \in 1 .. logged + 1
    BY <1>1, SizeAssumption DEF Types
<1>3. CASE current = "none"
    <2>1. dropped' = dropped \cup {logged + 1} /\ buf' = buf
        BY <1>3 DEF Log
    <2>2. hooked
        BY <1>1, <1>3 DEF Placed, Early
    <2>3. Pending = <<>> /\ Pending' = <<>>
        BY <1>1, <2>2 DEF Pending
    <2>4. Types'
        <3>1. dropped' \subseteq 1 .. logged'
            BY <1>1, <1>2, <2>1 DEF Types
        <3> QED BY <1>1, <1>2, <2>1, <3>1 DEF Types
    <2>5. Placed' /\ PreRamCopied'
        BY <1>1, <2>1 DEF Placed, PreRamCopied, Copying
    <2>6. Flow'
        <3>1. SUFFICES ASSUME ~torn
                       PROVE  /\ Stream(Contents(buf["cbmem"]), <<>>,
                                        dropped \cup {logged + 1}, logged + 1)
                              /\ Seam(Contents(buf["cbmem"]), <<>>,
                                      dropped \cup {logged + 1})
            BY <1>1, <2>1, <2>3 DEF Flow
        <3>2. Stream(Contents(buf["cbmem"]), <<>>, dropped, logged)
            BY <1>1, <2>3, <3>1 DEF Flow
        <3>3. Len(<<>>) = 0
            OBVIOUS
        <3> QED BY <1>2, <3>2, <3>3, LogNone DEF Seam
    <2> QED BY <2>4, <2>5, <2>6 DEF Inv
<1>4. CASE current # "none"
    <2>0. current \in Buffers /\ buf[current] \in Ring(Body(current))
          /\ Body(current) \in Nat \ {0}
        BY <1>1, <1>4, BodySize DEF Types
    <2> DEFINE r == buf[current]
               r2 == cbmemc_tx_byte(r, logged + 1)
               k == IF r.overflow THEN 1 ELSE 0
    <2>1. buf' = [buf EXCEPT ![current] = r2] /\ dropped' = dropped
        BY <1>4 DEF Log
    <2>2. /\ buf' = [b \in Buffers |-> buf'[b]] /\ buf'[current] = r2
          /\ \A b \in Buffers : b # current => buf'[b] = buf[b]
        <3> HIDE DEF r2
        <3> QED BY <1>1, <2>0, <2>1, Assigned DEF Types
    <2>3. /\ r2 \in Ring(Body(current))
          /\ r.overflow => r2.overflow
        BY <1>2, <2>0, TxByte
    <2>4. Pushed(Contents(r), Contents(r2), logged + 1, k)
        BY <1>2, <2>0, TxByte
    <2>5. k \in 0 .. 1 /\ (~r.overflow => k = 0)
        OBVIOUS
    <2> HIDE DEF r2, k
    <2>6. \A b \in Buffers : buf'[b] \in Ring(Body(b)) \cup Unused(Body(b))
        BY <1>1, <2>0, <2>2, <2>3 DEF Types
    <2>7. Types'
        <3>1. dropped' \subseteq 1 .. logged'
            BY <1>1, <1>2, <2>1 DEF Types
        <3>2. buf'[current'] \in Ring(Body(current'))
            BY <1>1, <2>2, <2>3
        <3> QED BY <1>1, <1>2, <2>2, <2>6, <3>1, <3>2 DEF Types
    <2>8. r2.size # 0 /\ r2.size = buf[current].size
        BY <2>0, <2>3, RingSize
    <2>9. \A b \in Buffers : buf'[b].size = buf[b].size
        BY <2>2, <2>8
    <2>10. Placed'
        <3>1. buf'["cbmem"].size = 0 => /\ buf'["cbmem"].cursor = 0
                                        /\ ~buf'["cbmem"].overflow
            BY <1>1, <2>2, <2>8 DEF Placed, Buffers
        <3> QED BY <1>1, <3>1 DEF Placed, Copying
    <2>11. PreRamCopied'
        BY <1>1, <2>9 DEF PreRamCopied, Copying, Buffers
    <2>12. CASE current = "cbmem"
        <3>1. hooked /\ Pending = <<>> /\ Pending' = <<>>
            BY <1>1, <2>12 DEF Placed, Early, Pending
        <3>2. ASSUME ~torn
              PROVE  /\ Stream(Contents(buf'["cbmem"]), <<>>, dropped, logged + 1)
                     /\ Seam(Contents(buf'["cbmem"]), <<>>, dropped)
            <4>1. Stream(Contents(r), <<>>, dropped, logged)
                BY <1>1, <2>12, <3>1, <3>2 DEF Flow
            <4>2. Stream(Contents(r2), <<>>, dropped, logged + 1)
                <5> HIDE DEF r
                <5> QED BY <1>2, <2>4, <2>5, <4>1, LogCbmem
            <4>3. Len(<<>>) = 0
                OBVIOUS
            <4> QED BY <2>2, <2>12, <4>2, <4>3 DEF Seam
        <3>3. Flow'
            BY <1>1, <2>1, <3>1, <3>2 DEF Flow
        <3> QED BY <2>7, <2>10, <2>11, <3>3 DEF Inv
    <2>13. CASE current # "cbmem"
        <3>1. ~hooked /\ Pending = Contents(r) /\ Pending' = Contents(r2)
              /\ buf'["cbmem"] = buf["cbmem"]
            BY <1>1, <1>4, <2>2, <2>13 DEF Placed, Pending, Buffers
        <3>2. ASSUME ~torn
              PROVE  /\ Stream(Contents(buf["cbmem"]), Contents(r2), dropped, logged + 1)
                     /\ r2.overflow \/ Seam(Contents(buf["cbmem"]), Contents(r2), dropped)
            <4>1. /\ Stream(Contents(buf["cbmem"]), Contents(r), dropped, logged)
                  /\ r.overflow \/ Seam(Contents(buf["cbmem"]), Contents(r), dropped)
                BY <1>1, <3>1, <3>2 DEF Flow
            <4>2. /\ Stream(Contents(buf["cbmem"]), Contents(r2), dropped, logged + 1)
                  /\ Seam(Contents(buf["cbmem"]), Contents(r), dropped) /\ k = 0 =>
                        Seam(Contents(buf["cbmem"]), Contents(r2), dropped)
                <5> HIDE DEF r
                <5> QED BY <1>2, <2>4, <2>5, <4>1, LogEarly
            <4> QED BY <2>3, <2>5, <4>1, <4>2
        <3>3. Flow'
            BY <1>1, <2>1, <2>2, <3>1, <3>2 DEF Flow
        <3> QED BY <2>7, <2>10, <2>11, <3>3 DEF Inv
    <2> QED BY <2>12, <2>13
<1> QED BY <1>3, <1>4

LEMMA ReinitStep ==
    ASSUME Inv, cbmemc_reinit
    PROVE  Inv'
<1>1. /\ Types /\ Placed /\ PreRamCopied /\ Flow
      /\ ~hooked /\ hooked' = TRUE /\ stage # "bootblock"
      /\ source' = current /\ queue' = Copied(buf[current]) /\ current' = "cbmem"
      /\ sram_kept' = sram_kept /\ stage' = stage /\ logged' = logged
      /\ dropped' = dropped /\ torn' = torn /\ resets' = resets
    BY DEF Inv, cbmemc_reinit
<1>2. /\ current = Early(stage) /\ current \in {"preram", "static"} /\ source = "none"
      /\ ~Copying /\ Copying'
    BY <1>1 DEF Placed, Early, Copying
<1>3. SmallSize \in Nat \ {0} /\ CbmemSize \in Nat \ {0}
      /\ buf[current] \in Ring(SmallSize) /\ logged \in Nat
    BY <1>1, <1>2, SizeAssumption DEF Types, Body
<1> DEFINE r == buf[current]
           l == buf["cbmem"]
           l2 == init_console_ptr(l, CbmemSize)
<1>4. buf' = [buf EXCEPT !["cbmem"] = l2]
    BY DEF cbmemc_reinit
<1>5. /\ buf' = [b \in Buffers |-> buf'[b]] /\ buf'["cbmem"] = l2
      /\ \A b \in Buffers : b # "cbmem" => buf'[b] = buf[b]
    <2> HIDE DEF l2
    <2>1. "cbmem" \in Buffers
        BY DEF Buffers
    <2> QED BY <1>1, <1>4, <2>1, Assigned DEF Types
<1>6. l2 \in Ring(CbmemSize) /\ Contents(l2) = Contents(l)
    BY <1>1, <1>3, InvFacts, InitPtr
<1>7. /\ Copied(r) \in Seq(Nat)
      /\ r.overflow => Copied(r) = <<Warning>> \o Contents(r) /\ Len(Contents(r)) > 0
      /\ ~r.overflow => Copied(r) = Contents(r)
    BY <1>3, CopiedIs
<1> HIDE DEF l2, r
<1>8. Types'
    <2>1. \A b \in Buffers : buf'[b] \in Ring(Body(b)) \cup Unused(Body(b))
        BY <1>1, <1>5, <1>6 DEF Types, Body
    <2>2. current' \in Buffers /\ buf'[current'] \in Ring(Body(current'))
        BY <1>1, <1>5, <1>6 DEF Buffers, Body
    <2>3. queue' \in Seq(Nat)
        BY <1>1, <1>7 DEF r
    <2> QED BY <1>1, <1>5, <2>1, <2>2, <2>3 DEF Types
<1>9. Placed'
    <2>1. buf'["cbmem"].size # 0
        BY <1>3, <1>5, <1>6, RingSize
    <2>2. buf'[source'] = buf[current]
        BY <1>1, <1>2, <1>5 DEF Buffers
    <2>3. buf'[source'].size > 0
        BY <1>3, <2>2, RingSize
    <2> QED BY <1>1, <1>2, <2>1, <2>3 DEF Placed
<1>10. PreRamCopied'
    BY <1>1, <1>2, <1>5 DEF PreRamCopied, Buffers
<1>11. Flow'
    <2>1. Pending = Contents(r) /\ Pending' = Copied(r)
        BY <1>1, <1>2 DEF Pending, r
    <2>2. ASSUME ~torn
          PROVE  Stream(Contents(l), Copied(r), dropped, logged)
                 /\ Seam(Contents(l), Copied(r), dropped)
        <3>1. /\ Stream(Contents(l), Contents(r), dropped, logged)
              /\ r.overflow \/ Seam(Contents(l), Contents(r), dropped)
            BY <1>1, <2>1, <2>2 DEF Flow, r
        <3>2. CASE r.overflow
            BY <1>3, <1>7, <3>1, <3>2, Warned
        <3>3. CASE ~r.overflow
            BY <1>7, <3>1, <3>3
        <3> QED BY <3>2, <3>3
    <2> QED BY <1>1, <1>5, <1>6, <2>1, <2>2 DEF Flow
<1> QED BY <1>8, <1>9, <1>10, <1>11 DEF Inv

LEMMA NoRoomStep ==
    ASSUME Inv, ReinitNoRoom
    PROVE  Inv'
<1>1. /\ Types /\ Placed /\ PreRamCopied /\ Flow
      /\ ~hooked /\ hooked' = TRUE /\ stage # "bootblock"
      /\ current' = "none" /\ dropped' = dropped \cup Uncopied
      /\ sram_kept' = sram_kept /\ stage' = stage /\ logged' = logged
      /\ source' = source /\ queue' = queue /\ torn' = torn /\ resets' = resets
    BY DEF Inv, ReinitNoRoom
<1>2. /\ current = Early(stage) /\ current \in {"preram", "static"} /\ source = "none"
      /\ ~Copying /\ ~Copying'
    BY <1>1 DEF Placed, Early, Copying
<1>3. current \in Buffers /\ Body(current) \in Nat \ {0} /\ logged \in Nat
      /\ buf[current] \in Ring(Body(current))
    BY <1>1, <1>2, BodySize, SizeAssumption DEF Types, Buffers
<1> DEFINE r2 == Invalidated(buf[current])
<1>4. buf' = [buf EXCEPT ![current] = r2]
    BY DEF ReinitNoRoom
<1>5. r2 \in Unused(Body(current))
    BY <1>3, InvalidatedIs
<1> HIDE DEF r2
<1>6. /\ buf' = [b \in Buffers |-> buf'[b]] /\ buf'[current] = r2
      /\ \A b \in Buffers : b # current => buf'[b] = buf[b]
    BY <1>1, <1>3, <1>4, Assigned DEF Types
<1>7. buf'["cbmem"] = buf["cbmem"]
    BY <1>2, <1>6 DEF Buffers
<1>8. Types'
    <2>1. \A b \in Buffers : buf'[b] \in Ring(Body(b)) \cup Unused(Body(b))
        BY <1>1, <1>5, <1>6 DEF Types
    <2>2. dropped' \subseteq 1 .. logged
        BY <1>1 DEF Types, Uncopied
    <2> QED BY <1>1, <1>6, <2>1, <2>2 DEF Types
<1>9. Placed'
    BY <1>1, <1>2, <1>7 DEF Placed
<1>10. PreRamCopied'
    <2>1. r2.size = 0
        BY <1>3, <1>5, RingSize
    <2> QED BY <1>1, <1>2, <1>6, <2>1 DEF PreRamCopied, Buffers, Early
<1>11. Flow'
    <2>1. Pending' = <<>>
        BY <1>1, <1>2 DEF Pending
    <2>2. ASSUME ~torn
          PROVE  Stream(Contents(buf["cbmem"]), <<>>, dropped \cup Uncopied, logged)
                 /\ Seam(Contents(buf["cbmem"]), <<>>, dropped \cup Uncopied)
        <3>1. Stream(Contents(buf["cbmem"]), Pending, dropped, logged)
            BY <1>1, <2>2 DEF Flow
        <3> QED BY <1>3, <3>1, Lose DEF Uncopied
    <2> QED BY <1>1, <1>7, <2>1, <2>2 DEF Flow
<1> QED BY <1>8, <1>9, <1>10, <1>11 DEF Inv

LEMMA CopyStep ==
    ASSUME Inv, copy_console_buffer
    PROVE  Inv'
<1>1. /\ Types /\ Placed /\ PreRamCopied /\ Flow /\ Copying
      /\ sram_kept' = sram_kept /\ stage' = stage /\ current' = current
      /\ hooked' = hooked /\ logged' = logged /\ dropped' = dropped /\ torn' = torn
      /\ resets' = resets
    BY DEF Inv, copy_console_buffer
<1>2. hooked /\ current = "cbmem" /\ source = Early(stage)
      /\ source \in {"preram", "static"} /\ source # "none" /\ stage # "bootblock"
    BY <1>1 DEF Placed, Copying, Early
<1>3. CbmemSize \in Nat \ {0} /\ buf["cbmem"] \in Ring(CbmemSize) /\ logged \in Nat
    BY <1>1, <1>2, SizeAssumption DEF Types, Body
<1>4. queue \in Seq(Nat) /\ Pending = queue
    BY <1>1 DEF Types, Pending
<1>5. CASE queue # <<>>
    <2> DEFINE r == buf["cbmem"]
               r2 == cbmemc_tx_byte(r, Head(queue))
               k == IF r.overflow THEN 1 ELSE 0
    <2>1. buf' = [buf EXCEPT !["cbmem"] = r2] /\ queue' = Tail(queue) /\ source' = source
        BY <1>5 DEF copy_console_buffer
    <2>2. Head(queue) \in Nat /\ Tail(queue) \in Seq(Nat) /\ Len(queue) > 0
        BY <1>4, <1>5
    <2>3. r2 \in Ring(CbmemSize) /\ Pushed(Contents(r), Contents(r2), Head(queue), k)
        BY <1>3, <2>2, TxByte
    <2>4. k \in 0 .. 1
        OBVIOUS
    <2> HIDE DEF r2, k
    <2>5. /\ buf' = [b \in Buffers |-> buf'[b]] /\ buf'["cbmem"] = r2
          /\ \A b \in Buffers : b # "cbmem" => buf'[b] = buf[b]
        <3>1. "cbmem" \in Buffers
            BY DEF Buffers
        <3> QED BY <1>1, <2>1, <3>1, Assigned DEF Types
    <2>6. Types'
        <3>1. \A b \in Buffers : buf'[b] \in Ring(Body(b)) \cup Unused(Body(b))
            BY <1>1, <2>3, <2>5 DEF Types, Body
        <3>2. buf'[current'] \in Ring(Body(current'))
            BY <1>1, <1>2, <2>3, <2>5 DEF Body
        <3> QED BY <1>1, <2>1, <2>2, <2>5, <3>1, <3>2 DEF Types
    <2>7. Placed' /\ PreRamCopied'
        <3>1. buf'["cbmem"].size # 0
            BY <1>3, <2>3, <2>5, RingSize
        <3>2. \A b \in {"preram", "static"} : buf'[b] = buf[b]
            BY <2>5 DEF Buffers
        <3>3. buf'[source'].size > 0
            BY <1>1, <1>2, <2>1, <3>2 DEF Placed
        <3>4. Placed'
            BY <1>1, <1>2, <2>1, <3>1, <3>3 DEF Placed, Copying
        <3>5. PreRamCopied'
            BY <1>1, <2>1, <3>2 DEF PreRamCopied, Copying
        <3> QED BY <3>4, <3>5
    <2>8. Pending' = Tail(queue)
        BY <1>1, <2>1 DEF Pending, Copying
    <2>9. ASSUME ~torn
          PROVE  Stream(Contents(r2), Tail(queue), dropped, logged)
                 /\ Seam(Contents(r2), Tail(queue), dropped)
        <3>1. Stream(Contents(r), queue, dropped, logged)
              /\ Seam(Contents(r), queue, dropped)
            BY <1>1, <1>4, <2>9 DEF Flow
        <3> HIDE DEF r
        <3> QED BY <1>3, <2>2, <2>3, <2>4, <3>1, CopyByte
    <2>10. Flow'
        BY <1>1, <2>5, <2>8, <2>9 DEF Flow
    <2> QED BY <2>6, <2>7, <2>10 DEF Inv
<1>6. CASE queue = <<>>
    <2> DEFINE r2 == Invalidated(buf[source])
    <2>1. buf' = [buf EXCEPT ![source] = r2] /\ queue' = queue /\ source' = "none"
        BY <1>6 DEF copy_console_buffer
    <2>2. source \in Buffers /\ Body(source) \in Nat \ {0}
          /\ buf[source] \in Ring(Body(source)) \cup Unused(Body(source))
        BY <1>1, <1>2, BodySize DEF Buffers, Types
    <2>3. r2 \in Unused(Body(source)) /\ r2.size = 0
        BY <2>2, InvalidatedIs, RingSize
    <2> HIDE DEF r2
    <2>4. /\ buf' = [b \in Buffers |-> buf'[b]] /\ buf'[source] = r2
          /\ \A b \in Buffers : b # source => buf'[b] = buf[b]
        BY <1>1, <2>1, <2>2, Assigned DEF Types
    <2>5. buf'["cbmem"] = buf["cbmem"] /\ ~Copying'
        BY <1>2, <2>1, <2>4 DEF Buffers, Copying
    <2>6. Types'
        <3>1. \A b \in Buffers : buf'[b] \in Ring(Body(b)) \cup Unused(Body(b))
            BY <1>1, <2>3, <2>4 DEF Types
        <3>2. buf'[current'] \in Ring(Body(current'))
            BY <1>1, <1>2, <1>3, <2>5 DEF Body
        <3> QED BY <1>1, <2>1, <2>4, <3>1, <3>2 DEF Types
    <2>7. Placed'
        BY <1>1, <1>2, <2>1, <2>5 DEF Placed
    <2>8. PreRamCopied'
        <3>1. CASE PreRam(stage)
            BY <1>2, <2>3, <2>4, <3>1 DEF PreRamCopied, Early
        <3>2. CASE ~PreRam(stage)
            <4>1. buf'["preram"] = buf["preram"]
                BY <1>2, <2>4, <3>2 DEF Buffers, Early
            <4> QED BY <1>1, <3>2, <4>1 DEF PreRamCopied
        <3> QED BY <3>1, <3>2
    <2>9. Pending' = <<>>
        BY <1>1, <1>2, <2>5 DEF Pending
    <2>10. Flow'
        BY <1>1, <1>4, <1>6, <2>5, <2>9 DEF Flow
    <2> QED BY <2>6, <2>7, <2>8, <2>10 DEF Inv
<1> QED BY <1>5, <1>6

-----------------------------------------------------------------------------
(* The start of a stage.                                                   *)

\* cbmemc_init keeps a pre-RAM buffer that is set up; any other early buffer
\* starts empty.
LEMMA Initialised ==
    ASSUME NEW m, m = [b \in Buffers |-> m[b]],
           \A b \in Buffers : m[b] \in Ring(Body(b)) \cup Unused(Body(b)),
           NEW s, NEW g, g = cbmemc_init(s, m)
    PROVE  /\ g = [b \in Buffers |-> g[b]]
           /\ \A b \in Buffers : g[b] \in Ring(Body(b)) \cup Unused(Body(b))
           /\ Early(s) \in {"preram", "static"}
           /\ g[Early(s)] \in Ring(Body(Early(s)))
           /\ \A b \in Buffers : b # Early(s) => g[b] = m[b]
           /\ IF Early(s) = "preram" /\ m["preram"] \in Ring(Body("preram"))
              THEN g["preram"] = m["preram"]
              ELSE Contents(g[Early(s)]) = <<>> /\ ~g[Early(s)].overflow
<1> DEFINE b == Early(s)
           old == IF b = "static" THEN Blank(b) ELSE m[b]
           r == init_console_ptr(old, Body(b))
<1>1. b \in {"preram", "static"} /\ b \in Buffers /\ Body(b) \in Nat \ {0}
    BY BodySize DEF Early, Buffers
<1> HIDE DEF b
<1>2. g = [m EXCEPT ![b] = r]
    BY DEF cbmemc_init, b
<1>3. old \in Ring(Body(b)) \cup Unused(Body(b))
    BY <1>1, BlankIs
<1> HIDE DEF old
<1>4. /\ r \in Ring(Body(b))
      /\ old \in Ring(Body(b)) => r = old
      /\ old \notin Ring(Body(b)) => Contents(r) = <<>> /\ ~r.overflow
    BY <1>1, <1>3, InitPtr
<1> HIDE DEF r
<1>5. /\ g = [x \in Buffers |-> g[x]] /\ g[b] = r
      /\ \A x \in Buffers : x # b => g[x] = m[x]
    BY <1>1, <1>2, Assigned
<1>6. \A x \in Buffers : g[x] \in Ring(Body(x)) \cup Unused(Body(x))
    BY <1>4, <1>5
<1>7. CASE b = "preram"
    <2>1. old = m["preram"]
        BY <1>7 DEF old
    <2> QED BY <1>1, <1>4, <1>5, <1>6, <1>7, <2>1 DEF b
<1>8. CASE b = "static"
    <2>1. old \notin Ring(Body(b))
        BY <1>1, <1>8, BlankIs, RingSize DEF old
    <2> QED BY <1>1, <1>4, <1>5, <1>6, <1>8, <2>1 DEF b
<1> QED BY <1>1, <1>7, <1>8

LEMMA NextStageStep ==
    ASSUME Inv, NextStage
    PROVE  Inv'
<1>1. /\ Types /\ Placed /\ PreRamCopied /\ Flow /\ ~Copying
      /\ stage = "bootblock" \/ hooked
      /\ sram_kept' = sram_kept /\ logged' = logged /\ dropped' = dropped
      /\ torn' = torn /\ resets' = resets
    BY DEF Inv, NextStage
<1>2. PICK s \in Follows(stage) : Starts(s, buf)
    BY DEF NextStage
<1>3. /\ stage' = s /\ buf' = cbmemc_init(s, buf) /\ current' = Early(s)
      /\ hooked' = FALSE /\ source' = "none" /\ queue' = <<>> /\ ~Copying'
    BY <1>2 DEF Starts, Copying
<1>4. \/ stage = "bootblock" /\ s = "romstage"
      \/ stage # "bootblock" /\ s \in {"postcar", "ramstage"}
    BY <1>1, <1>2 DEF Follows, Types
<1>5. /\ buf' = [b \in Buffers |-> buf'[b]]
      /\ \A b \in Buffers : buf'[b] \in Ring(Body(b)) \cup Unused(Body(b))
      /\ Early(s) \in {"preram", "static"}
      /\ buf'[Early(s)] \in Ring(Body(Early(s)))
      /\ \A b \in Buffers : b # Early(s) => buf'[b] = buf[b]
      /\ IF Early(s) = "preram" /\ buf["preram"] \in Ring(Body("preram"))
         THEN buf'["preram"] = buf["preram"]
         ELSE Contents(buf'[Early(s)]) = <<>> /\ ~buf'[Early(s)].overflow
    BY <1>1, <1>3, Initialised DEF Types
<1>6. buf'["cbmem"] = buf["cbmem"]
    BY <1>5 DEF Buffers
<1>7. Types'
    <2>1. <<>> \in Seq(Nat) /\ s \in {"bootblock", "romstage", "postcar", "ramstage"}
          /\ Early(s) \in Buffers
        BY <1>4, <1>5 DEF Buffers
    <2> QED BY <1>1, <1>3, <1>5, <2>1 DEF Types
<1>8. Placed'
    BY <1>1, <1>3, <1>6 DEF Placed
<1>9. Pending' = Contents(buf'[Early(s)])
    BY <1>3 DEF Pending
<1>10. CASE stage = "bootblock"
    <2>1. ~hooked /\ current = "preram" /\ buf["preram"] \in Ring(Body("preram"))
          /\ Early(s) = "preram" /\ PreRam(s)
        BY <1>1, <1>4, <1>10 DEF Placed, Types, Early, PreRam
    <2>2. buf'["preram"] = buf["preram"]
        BY <1>5, <2>1
    <2>3. Pending' = Pending
        BY <1>1, <1>9, <2>1, <2>2 DEF Pending
    <2>4. Flow'
        BY <1>1, <1>3, <1>6, <2>1, <2>2, <2>3 DEF Flow
    <2>5. PreRamCopied'
        BY <1>3, <2>1 DEF PreRamCopied
    <2> QED BY <1>7, <1>8, <2>4, <2>5 DEF Inv
<1>11. CASE stage # "bootblock"
    <2>1. hooked /\ Early(s) = "static" /\ ~PreRam(s)
        BY <1>1, <1>4, <1>11 DEF Early, PreRam
    <2>2. Pending = <<>> /\ Pending' = <<>>
        BY <1>1, <1>5, <1>9, <2>1 DEF Pending
    <2>3. Flow'
        BY <1>1, <1>6, <2>1, <2>2 DEF Flow
    <2>4. buf'["preram"] = buf["preram"]
        BY <1>5, <2>1 DEF Buffers
    <2>5. PreRamCopied'
        BY <1>1, <2>1, <2>4 DEF PreRamCopied
    <2> QED BY <1>7, <1>8, <2>3, <2>5 DEF Inv
<1> QED BY <1>10, <1>11

LEMMA WarmResetStep ==
    ASSUME Inv, WarmReset
    PROVE  Inv'
<1> DEFINE lost == {"static"} \cup (IF sram_kept THEN {} ELSE {"preram"})
           m == [b \in Buffers |-> IF b \in lost THEN Blank(b) ELSE buf[b]]
           more == IF \E b \in lost : buf[b].size > 0 THEN Uncopied ELSE {}
<1>1. /\ Types /\ Placed /\ PreRamCopied /\ Flow
      /\ resets < MaxResets /\ resets' = resets + 1
      /\ torn' = (torn \/ (Copying /\ source \notin lost))
      /\ dropped' = dropped \cup more
      /\ sram_kept' = sram_kept /\ logged' = logged
    BY DEF Inv, WarmReset
<1>2. Starts("bootblock", m)
    BY DEF WarmReset
<1>3. lost \subseteq {"static", "preram"} /\ "static" \in lost
    OBVIOUS
<1>4. more \subseteq 1 .. logged
    BY DEF Uncopied
<1> HIDE DEF lost, more
<1>5. Early("bootblock") = "preram" /\ PreRam("bootblock")
    BY DEF Early, PreRam
<1>6. /\ stage' = "bootblock" /\ buf' = cbmemc_init("bootblock", m)
      /\ current' = "preram" /\ hooked' = FALSE /\ source' = "none"
      /\ queue' = <<>> /\ ~Copying'
    BY <1>2, <1>5 DEF Starts, Copying
<1>7. /\ m = [b \in Buffers |-> m[b]]
      /\ \A b \in Buffers : m[b] \in Ring(Body(b)) \cup Unused(Body(b))
      /\ m["cbmem"] = buf["cbmem"]
      /\ "preram" \notin lost => m["preram"] = buf["preram"]
      /\ "preram" \in lost => m["preram"] = Blank("preram")
    <2>1. \A b \in Buffers : m[b] = IF b \in lost THEN Blank(b) ELSE buf[b]
        OBVIOUS
    <2>2. m = [b \in Buffers |-> m[b]]
        OBVIOUS
    <2> HIDE DEF m
    <2>3. \A b \in Buffers : m[b] \in Ring(Body(b)) \cup Unused(Body(b))
        BY <1>1, <2>1, BlankIs DEF Types
    <2>4. "cbmem" \in Buffers /\ "preram" \in Buffers /\ "cbmem" \notin lost
        BY <1>3 DEF Buffers
    <2> QED BY <2>1, <2>2, <2>3, <2>4
<1> HIDE DEF m
<1>8. /\ buf' = [b \in Buffers |-> buf'[b]]
      /\ \A b \in Buffers : buf'[b] \in Ring(Body(b)) \cup Unused(Body(b))
      /\ buf'["preram"] \in Ring(Body("preram"))
      /\ \A b \in Buffers : b # "preram" => buf'[b] = m[b]
      /\ IF m["preram"] \in Ring(Body("preram"))
         THEN buf'["preram"] = m["preram"]
         ELSE Contents(buf'["preram"]) = <<>> /\ ~buf'["preram"].overflow
    BY <1>5, <1>6, <1>7, Initialised
<1>9. buf'["cbmem"] = buf["cbmem"]
    BY <1>7, <1>8 DEF Buffers
<1>10. Types'
    <2>1. <<>> \in Seq(Nat) /\ "preram" \in Buffers
        BY DEF Buffers
    <2>2. resets' \in 0 .. MaxResets
        BY <1>1, SizeAssumption DEF Types
    <2>3. dropped' \subseteq 1 .. logged
        BY <1>1, <1>4 DEF Types
    <2> QED BY <1>1, <1>6, <1>8, <2>1, <2>2, <2>3 DEF Types
<1>11. Placed'
    BY <1>1, <1>5, <1>6, <1>9 DEF Placed
<1>12. PreRamCopied'
    BY <1>5, <1>6 DEF PreRamCopied
<1>13. Pending' = Contents(buf'["preram"])
    BY <1>6 DEF Pending
<1>14. Flow'
    <2>1. SUFFICES ASSUME ~torn, ~(Copying /\ source \notin lost)
                   PROVE  /\ Stream(Contents(buf["cbmem"]), Pending', dropped', logged)
                          /\ \/ buf'["preram"].overflow
                             \/ Seam(Contents(buf["cbmem"]), Pending', dropped')
        BY <1>1, <1>6, <1>9 DEF Flow
    <2>2. /\ Stream(Contents(buf["cbmem"]), Pending, dropped, logged)
          /\ \/ ~Copying /\ ~hooked /\ buf[current].overflow
             \/ Seam(Contents(buf["cbmem"]), Pending, dropped)
          /\ logged \in Nat
        BY <1>1, <2>1, SizeAssumption DEF Flow, Types
    <2>3. Body("preram") \in Nat \ {0} /\ Body("static") \in Nat \ {0}
        BY BodySize DEF Buffers
    <2>4. CASE "preram" \notin lost /\ buf["preram"] \in Ring(Body("preram"))
        <3>1. buf["preram"].size # 0
            BY <2>3, <2>4, RingSize
        <3>2. PreRam(stage) /\ ~(hooked /\ ~Copying)
            BY <1>1, <2>1, <3>1 DEF PreRamCopied
        <3>3. ~Copying
            BY <1>1, <2>1, <2>4, <3>2 DEF Placed, Early
        <3>4. ~hooked /\ current = "preram"
            BY <1>1, <3>2, <3>3 DEF Placed, Early
        <3>5. buf'["preram"] = buf["preram"]
            BY <1>7, <1>8, <2>4
        <3>6. Pending' = Pending
            BY <1>13, <3>3, <3>4, <3>5 DEF Pending
        <3>7. /\ Stream(Contents(buf["cbmem"]), Pending, dropped', logged)
              /\ Seam(Contents(buf["cbmem"]), Pending, dropped) =>
                    Seam(Contents(buf["cbmem"]), Pending, dropped')
            BY <1>1, <2>2, LoseMore
        <3> QED BY <2>2, <3>4, <3>5, <3>6, <3>7
    <2>5. CASE ~("preram" \notin lost /\ buf["preram"] \in Ring(Body("preram")))
        <3>1. Pending' = <<>>
            <4>1. m["preram"] \notin Ring(Body("preram"))
                <5>1. "preram" \in Buffers
                    BY DEF Buffers
                <5>2. Blank("preram") \notin Ring(Body("preram"))
                    BY <2>3, <5>1, BlankIs, RingSize
                <5> QED BY <1>7, <2>5, <5>2
            <4> QED BY <1>8, <1>13, <4>1
        <3>2. CASE hooked /\ ~Copying
            <4>1. Pending = <<>>
                BY <3>2 DEF Pending
            <4> QED BY <1>1, <2>2, <3>1, <3>2, <4>1, LoseMore
        <3>3. CASE ~(hooked /\ ~Copying)
            <4>1. Early(stage) \in lost /\ buf[Early(stage)].size > 0
                <5>1. CASE Copying
                    BY <1>1, <2>1, <5>1 DEF Placed
                <5>2. CASE ~Copying
                    <6>1. current = Early(stage) /\ current # "none"
                        BY <1>1, <3>3, <5>2 DEF Placed, Early
                    <6>2. buf[Early(stage)] \in Ring(Body(Early(stage)))
                        BY <1>1, <6>1 DEF Types
                    <6>3. Early(stage) \in {"preram", "static"}
                        BY DEF Early
                    <6> QED BY <1>3, <2>3, <2>5, <6>2, <6>3, RingSize
                <5> QED BY <5>1, <5>2
            <4>2. more = Uncopied
                BY <4>1 DEF more
            <4> QED BY <1>1, <2>2, <3>1, <4>2, Lose DEF Uncopied
        <3> QED BY <3>2, <3>3
    <2> QED BY <2>4, <2>5
<1> QED BY <1>10, <1>11, <1>12, <1>14 DEF Inv

\* All memory is blank, with n bytes logged before.
LEMMA BlankStart ==
    ASSUME NEW g, g = cbmemc_init("bootblock", [b \in Buffers |-> Blank(b)])
    PROVE  /\ g = [b \in Buffers |-> g[b]]
           /\ \A b \in Buffers : g[b] \in Ring(Body(b)) \cup Unused(Body(b))
           /\ g["preram"] \in Ring(Body("preram"))
           /\ Contents(g["preram"]) = <<>> /\ Contents(g["cbmem"]) = <<>>
           /\ g["cbmem"].cursor = 0 /\ ~g["cbmem"].overflow
<1> DEFINE m == [b \in Buffers |-> Blank(b)]
<1>1. m = [b \in Buffers |-> m[b]] /\ \A b \in Buffers : m[b] = Blank(b)
    OBVIOUS
<1>2. g = cbmemc_init("bootblock", m)
    OBVIOUS
<1> HIDE DEF m
<1>3. \A b \in Buffers : m[b] \in Ring(Body(b)) \cup Unused(Body(b))
    BY <1>1, BlankIs
<1>4. Early("bootblock") = "preram" /\ "preram" \in Buffers /\ "cbmem" \in Buffers
    BY DEF Early, PreRam, Buffers
<1>5. m["preram"] \notin Ring(Body("preram"))
    BY <1>1, <1>4, BlankIs, RingSize, BodySize
<1>6. /\ g = [b \in Buffers |-> g[b]]
      /\ \A b \in Buffers : g[b] \in Ring(Body(b)) \cup Unused(Body(b))
      /\ g["preram"] \in Ring(Body("preram"))
      /\ \A b \in Buffers : b # "preram" => g[b] = m[b]
      /\ Contents(g["preram"]) = <<>>
    BY <1>1, <1>2, <1>3, <1>4, <1>5, Initialised
<1>7. g["cbmem"] = Blank("cbmem")
    BY <1>1, <1>4, <1>6
<1>8. g["cbmem"].cursor = 0 /\ ~g["cbmem"].overflow
    BY <1>4, <1>7, BlankIs
<1> QED BY <1>6, <1>8, EmptyContents

LEMMA PowerCycleStep ==
    ASSUME Inv, PowerCycle
    PROVE  Inv'
<1>1. /\ Types /\ resets < MaxResets /\ resets' = resets + 1 /\ torn' = FALSE
      /\ dropped' = 1 .. logged /\ sram_kept' = sram_kept /\ logged' = logged
    BY DEF Inv, PowerCycle
<1>2. Early("bootblock") = "preram" /\ PreRam("bootblock") /\ "preram" \in Buffers
    BY DEF Early, PreRam, Buffers
<1>3. /\ stage' = "bootblock" /\ current' = "preram" /\ hooked' = FALSE
      /\ buf' = cbmemc_init("bootblock", [b \in Buffers |-> Blank(b)])
      /\ source' = "none" /\ queue' = <<>> /\ ~Copying'
    BY <1>2 DEF PowerCycle, Starts, Copying
<1>4. /\ buf' = [b \in Buffers |-> buf'[b]]
      /\ \A b \in Buffers : buf'[b] \in Ring(Body(b)) \cup Unused(Body(b))
      /\ buf'["preram"] \in Ring(Body("preram"))
      /\ Contents(buf'["preram"]) = <<>> /\ Contents(buf'["cbmem"]) = <<>>
      /\ buf'["cbmem"].cursor = 0 /\ ~buf'["cbmem"].overflow
    BY <1>3, BlankStart
<1>5. Types'
    <2>1. resets' \in 0 .. MaxResets /\ <<>> \in Seq(Nat)
        BY <1>1, SizeAssumption DEF Types
    <2> QED BY <1>1, <1>2, <1>3, <1>4, <2>1 DEF Types
<1>6. Placed'
    BY <1>2, <1>3, <1>4 DEF Placed
<1>7. PreRamCopied'
    BY <1>2, <1>3 DEF PreRamCopied
<1>8. Flow'
    <2>1. Pending' = <<>>
        BY <1>3, <1>4 DEF Pending
    <2>2. logged \in Nat
        BY <1>1, SizeAssumption DEF Types
    <2>3. Stream(<<>>, <<>>, 1 .. logged, logged) /\ Seam(<<>>, <<>>, 1 .. logged)
        BY <2>2, NothingKept
    <2> QED BY <1>1, <1>4, <2>1, <2>3 DEF Flow
<1> QED BY <1>5, <1>6, <1>7, <1>8 DEF Inv

LEMMA InitInv == Init => Inv
<1> SUFFICES ASSUME Init PROVE Inv
    OBVIOUS
<1>1. Early("bootblock") = "preram" /\ PreRam("bootblock") /\ "preram" \in Buffers
    BY DEF Early, PreRam, Buffers
<1>2. /\ stage = "bootblock" /\ current = "preram" /\ hooked = FALSE
      /\ buf = cbmemc_init("bootblock", [b \in Buffers |-> Blank(b)])
      /\ source = "none" /\ queue = <<>> /\ ~Copying /\ logged = 0 /\ dropped = {}
      /\ torn = FALSE /\ resets = 0 /\ sram_kept \in BOOLEAN
    BY DEF Init, Copying
<1>3. /\ buf = [b \in Buffers |-> buf[b]]
      /\ \A b \in Buffers : buf[b] \in Ring(Body(b)) \cup Unused(Body(b))
      /\ buf["preram"] \in Ring(Body("preram"))
      /\ Contents(buf["preram"]) = <<>> /\ Contents(buf["cbmem"]) = <<>>
      /\ buf["cbmem"].cursor = 0 /\ ~buf["cbmem"].overflow
    BY <1>2, BlankStart
<1>4. Types
    <2>1. 0 \in 0 .. MaxBytes /\ 0 \in 0 .. MaxResets /\ <<>> \in Seq(Nat)
        BY SizeAssumption
    <2> QED BY <1>1, <1>2, <1>3, <2>1 DEF Types
<1>5. Placed
    BY <1>1, <1>2, <1>3 DEF Placed
<1>6. PreRamCopied
    BY <1>1, <1>2 DEF PreRamCopied
<1>7. Flow
    <2>1. Pending = <<>>
        BY <1>2, <1>3 DEF Pending
    <2>2. Stream(<<>>, <<>>, 1 .. 0, 0) /\ Seam(<<>>, <<>>, 1 .. 0)
        BY NothingKept
    <2>3. 1 .. 0 = {}
        OBVIOUS
    <2> QED BY <1>2, <1>3, <2>1, <2>2, <2>3 DEF Flow
<1> QED BY <1>4, <1>5, <1>6, <1>7 DEF Inv

LEMMA Inductive == Inv /\ [Next]_vars => Inv'
<1>1. ASSUME Inv, UNCHANGED vars PROVE Inv'
    BY <1>1 DEF vars, Inv, Types, Placed, PreRamCopied, Flow, Pending, Copying
<1> QED BY <1>1, LogStep, ReinitStep, NoRoomStep, CopyStep, NextStageStep,
           WarmResetStep, PowerCycleStep DEF Next

LEMMA Always == Spec => []Inv
BY InitInv, Inductive, PTL DEF Spec

-----------------------------------------------------------------------------
(***************************************************************************)
(* The cursor of every buffer is a place in its body, for bodies of any    *)
(* size, and the buffer in use has been set up (cbmemc_tx_byte writes at   *)
(* the cursor unchecked).                                                  *)
(***************************************************************************)
THEOREM ConsoleTypeCorrect == Spec => []TypeOK
<1>1. Inv => TypeOK
    <2> SUFFICES ASSUME Inv PROVE TypeOK
        OBVIOUS
    <2>1. Types /\ Placed
        BY DEF Inv
    <2>2. \A b \in Buffers : /\ buf[b].size \in {0, Body(b)}
                             /\ buf[b].cursor \in 0 .. Body(b) - 1
                             /\ DOMAIN buf[b].body = 0 .. Body(b) - 1
        BY <2>1, BodySize, RingSize DEF Types
    <2>3. current # "none" => buf[current].size = Body(current)
        BY <2>1, BodySize, RingSize DEF Types
    <2>4. source \in {"none", "preram", "static"}
        BY <2>1 DEF Placed, Copying, Early
    <2> QED BY <2>1, <2>2, <2>3, <2>4 DEF TypeOK, Types
<1> QED BY <1>1, Always, PTL

(***************************************************************************)
(* The CBMEM console keeps the log: read between two copies it has the     *)
(* logged bytes in order and none twice, nothing is missing between two of *)
(* them but what no memory kept, and it ends with the last byte logged,    *)
(* whatever the sizes of the buffers and however the stages, the hooks and *)
(* the resets interleave.                                                  *)
(***************************************************************************)
THEOREM LogIsKept == Spec => []LogKept
<1>1. Inv => LogKept
    <2> DEFINE log == Contents(buf["cbmem"])
    <2>1. SUFFICES ASSUME Inv, ~Copying, ~torn
                   PROVE  /\ InOrder(log) /\ NoGap(log, dropped)
                          /\ current = "cbmem" /\ logged \in (1 .. MaxBytes) \ dropped =>
                                log # <<>> /\ Last(log) = logged
        BY DEF LogKept
    <2>2. Types /\ Placed /\ Stream(log, Pending, dropped, logged)
        BY <2>1 DEF Inv, Flow
    <2>3. log \in Seq(Nat)
        BY <2>2, InvFacts
    <2>4. Logged(log, dropped, logged)
        BY <2>2 DEF Stream
    <2> HIDE DEF log
    <2>5. InOrder(log)
        BY <2>3, <2>4 DEF Logged, InOrder
    <2>6. NoGap(log, dropped)
        BY <2>4 DEF Logged, NoGap
    <2>7. ASSUME current = "cbmem", logged \in (1 .. MaxBytes) \ dropped
          PROVE  log # <<>> /\ Last(log) = logged
        <3>1. Pending = <<>>
            BY <2>1, <2>2, <2>7 DEF Pending, Placed, Early
        <3>2. Len(<<>>) = 0
            OBVIOUS
        <3>3. Reaches(log, dropped, logged)
            BY <2>2, <3>1, <3>2 DEF Stream
        <3>4. logged # 0 /\ logged \notin dropped
            BY <2>7
        <3> QED BY <3>2, <3>3, <3>4 DEF Reaches, Last
    <2> QED BY <2>5, <2>6, <2>7
<1> QED BY <1>1, Always, PTL
=============================================================================
