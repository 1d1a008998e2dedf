------------------------------ MODULE BusProofs ------------------------------
(* What is read off the bus, proved: the packets, for any set of frames, and*)
(* the pages of equipment status, for any list of devices, any number of    *)
(* them on a page and any number of changes and slips.                      *)
EXTENDS DaemonProofs

-----------------------------------------------------------------------------
(* What holds at 0 and goes on from each number to the next holds up to n.  *)
LEMMA UpTo ==
    ASSUME NEW n \in Nat, NEW U, 0 \in U, \A k \in 1..n : k - 1 \in U => k \in U
    PROVE  \A k \in 0..n : k \in U
<1> DEFINE T == {k \in 0..n : k \notin U}
<1> SUFFICES ASSUME T # {} PROVE FALSE
    OBVIOUS
<1>0. T \in SUBSET Nat
    OBVIOUS
<1>1. PICK m \in T : \A y \in T : m <= y
    BY <1>0, NatMin
<1>2. m \in 1..n /\ m - 1 \in 0..n /\ m - 1 \notin T
    BY <1>1
<1> QED BY <1>2

(* f goes on from z by the rule that G has for each number up to n.         *)
Follows(f, n, z, G) == f[0] = z /\ \A k \in 1..n : f[k] = G[k][f[k - 1]]

(* There is a function that a start and a rule for each number define.      *)
LEMMA Recursion ==
    ASSUME NEW T, NEW z \in T, NEW n \in Nat, NEW G \in [1..n -> [T -> T]]
    PROVE  \E f \in [0..n -> T] : Follows(f, n, z, G)
<1> DEFINE Defined(m) == \E f \in [0..m -> T] : f[0] = z /\ \A k \in 1..m : f[k] = G[k][f[k - 1]]
           U == {m \in 0..n : Defined(m)}
<1>1. 0 \in U
    <2> DEFINE f == [k \in 0..0 |-> z]
    <2>1. f \in [0..0 -> T] /\ f[0] = z /\ \A k \in 1..0 : f[k] = G[k][f[k - 1]]
        OBVIOUS
    <2>2. Defined(0)
        BY <2>1
    <2> QED BY <2>2
<1>2. ASSUME NEW m \in 1..n, m - 1 \in U PROVE m \in U
    <2>1. PICK q \in [0..(m - 1) -> T] : q[0] = z /\ \A k \in 1..(m - 1) : q[k] = G[k][q[k - 1]]
        BY <1>2
    <2>2. G[m][q[m - 1]] \in T
        BY <2>1
    <2> DEFINE f == [k \in 0..m |-> IF k < m THEN q[k] ELSE G[m][q[m - 1]]]
    <2>3. f \in [0..m -> T] /\ f[0] = z
        BY <2>1, <2>2
    <2>4. ASSUME NEW k \in 1..m PROVE f[k] = G[k][f[k - 1]]
        <3>1. f[k - 1] = q[k - 1]
            OBVIOUS
        <3>2. CASE k = m
            BY <3>1, <3>2
        <3>3. CASE k # m
            <4>1. k \in 1..(m - 1) /\ f[k] = q[k]
                BY <3>3
            <4> QED BY <2>1, <3>1, <4>1
        <3> QED BY <3>2, <3>3
    <2>5. Defined(m)
        <3> HIDE DEF f
        <3> QED BY <2>3, <2>4
    <2>6. m \in 0..n
        OBVIOUS
    <2> QED
        <3> HIDE DEF Defined
        <3> QED BY <2>5, <2>6
<1>3. \A k \in 0..n : k \in U
    <2> HIDE DEF U
    <2> QED BY <1>1, <1>2, UpTo
<1>4. n \in U
    BY <1>3
<1> QED BY <1>4 DEF Follows

(* A sum is a number.                                                       *)
LEMMA SumIs ==
    ASSUME NEW s \in Seq(Int)
    PROVE  SumOf(s) \in Int
<1>1. Len(s) \in Nat /\ \A k \in 1..Len(s) : s[k] \in Int
    BY LenProperties, ElementOfSeq
<1>2. PICK n \in Nat : n = Len(s)
    BY <1>1
<1> DEFINE IsSum(f) == f = [k \in 0..n |-> IF k = 0 THEN 0 ELSE f[k - 1] + s[k]]
           G == [k \in 1..n |-> [x \in Int |-> x + s[k]]]
<1>3. \E f : IsSum(f)
    <2>1. G \in [1..n -> [Int -> Int]] /\ \A k \in 1..n, x \in Int : G[k][x] = x + s[k]
        BY <1>1, <1>2
    <2> HIDE DEF G
    <2>2. PICK f \in [0..n -> Int] : f[0] = 0 /\ \A k \in 1..n : f[k] = G[k][f[k - 1]]
        <3>1. \E f \in [0..n -> Int] : Follows(f, n, 0, G)
            <4>1. PICK z \in Int : z = 0
                OBVIOUS
            <4>2. \E f \in [0..n -> Int] : Follows(f, n, z, G)
                BY <2>1, Recursion
            <4> QED BY <4>1, <4>2
        <3> QED BY <3>1 DEF Follows
    <2>3. \A k \in 1..n : f[k] = f[k - 1] + s[k]
        <3> SUFFICES ASSUME NEW k \in 1..n PROVE f[k] = f[k - 1] + s[k]
            OBVIOUS
        <3>1. k - 1 \in 0..n
            BY <1>1, <1>2
        <3> QED BY <2>1, <2>2, <3>1
    <2>4. \A k \in 0..n : f[k] = IF k = 0 THEN 0 ELSE f[k - 1] + s[k]
        BY <1>1, <1>2, <2>2, <2>3
    <2>5. f = [k \in 0..n |-> f[k]]
        BY <2>2
    <2>6. f = [k \in 0..n |-> IF k = 0 THEN 0 ELSE f[k - 1] + s[k]]
        BY <2>4, <2>5
    <2> QED BY <2>6
<1> DEFINE g == CHOOSE f : IsSum(f)
<1>4. IsSum(g)
    <2> HIDE DEF IsSum
    <2> QED BY <1>3
<1>5. SumOf(s) = g[n]
    BY <1>2 DEF SumOf
<1> HIDE DEF g
<1>6. g[0] = 0 /\ \A k \in 1..n : g[k] = g[k - 1] + s[k]
    <2>1. \A k \in 0..n : g[k] = IF k = 0 THEN 0 ELSE g[k - 1] + s[k]
        BY <1>4
    <2> QED BY <1>1, <1>2, <2>1
<1> DEFINE U == {k \in 0..n : g[k] \in Int}
<1>7. 0 \in U /\ \A k \in 1..n : k - 1 \in U => k \in U
    BY <1>1, <1>2, <1>6
<1>8. n \in U
    <2>1. \A k \in 0..n : k \in U
        <3> HIDE DEF U
        <3> QED BY <1>7, UpTo
    <2>2. n \in 0..n
        OBVIOUS
    <2> QED BY <2>1, <2>2
<1> QED BY <1>5, <1>8

(* What goes over the bus.                                                  *)
Bytes == 0..255

(* Where the bytes of a frame are when the DLEs in it are escaped: e[k] have*)
(* been sent when the first k are.                                          *)
EscapedAt(f, w, e, n) ==
    /\ e \in [0..n -> Nat] /\ e[0] = 0 /\ e[n] = Len(w)
    /\ \A k \in 1..n :
          /\ e[k - 1] < e[k] /\ e[k] <= Len(w) /\ w[e[k - 1] + 1] = f[k]
          /\ f[k] = DLE => e[k] = e[k - 1] + 2 /\ w[e[k - 1] + 2] = NUL
          /\ f[k] # DLE => e[k] = e[k - 1] + 1

(* There is such a place for every byte of a frame.                         *)
LEMMA EscapedIs ==
    ASSUME NEW f \in Seq(Bytes)
    PROVE  Escaped(f) \in Seq(Bytes) /\ \E e : EscapedAt(f, Escaped(f), e, Len(f))
<1>1. Len(f) \in Nat /\ \A k \in 1..Len(f) : f[k] \in Bytes
    BY LenProperties, ElementOfSeq
<1>2. PICK n \in Nat : n = Len(f)
    BY <1>1
<1> DEFINE Sent(k) == IF f[k] = DLE THEN <<DLE, NUL>> ELSE <<f[k]>>
           IsEsc(u) == u = [k \in 0..n |-> IF k = 0 THEN <<>> ELSE u[k - 1] \o Sent(k)]
           G == [k \in 1..n |-> [x \in Seq(Bytes) |-> x \o Sent(k)]]
<1>3. ASSUME NEW k \in 1..n
      PROVE  /\ Sent(k) \in Seq(Bytes) /\ Sent(k)[1] = f[k]
             /\ f[k] = DLE => Len(Sent(k)) = 2 /\ Sent(k)[2] = NUL
             /\ f[k] # DLE => Len(Sent(k)) = 1
    <2>1. f[k] \in Bytes /\ DLE \in Bytes /\ NUL \in Bytes
        BY <1>1, <1>2 DEF Bytes, DLE, NUL
    <2> QED BY <2>1
<1> HIDE DEF Sent
<1>4. \E u : IsEsc(u)
    <2>1. G \in [1..n -> [Seq(Bytes) -> Seq(Bytes)]]
              /\ \A k \in 1..n, x \in Seq(Bytes) : G[k][x] = x \o Sent(k)
        BY <1>3, ConcatProperties
    <2> HIDE DEF G
    <2>2. PICK u \in [0..n -> Seq(Bytes)] : u[0] = <<>> /\ \A k \in 1..n : u[k] = G[k][u[k - 1]]
        <3>1. \E u \in [0..n -> Seq(Bytes)] : Follows(u, n, <<>>, G)
            BY <2>1, EmptySeq, Recursion
        <3> QED BY <3>1 DEF Follows
    <2>3. \A k \in 1..n : u[k] = u[k - 1] \o Sent(k)
        <3> SUFFICES ASSUME NEW k \in 1..n PROVE u[k] = u[k - 1] \o Sent(k)
            OBVIOUS
        <3>1. k - 1 \in 0..n
            BY <1>1, <1>2
        <3> QED BY <2>1, <2>2, <3>1
    <2>4. \A k \in 0..n : u[k] = IF k = 0 THEN <<>> ELSE u[k - 1] \o Sent(k)
        <3> SUFFICES ASSUME NEW k \in 0..n
                     PROVE  u[k] = IF k = 0 THEN <<>> ELSE u[k - 1] \o Sent(k)
            OBVIOUS
        <3>1. k = 0 \/ (k # 0 /\ k \in 1..n)
            OBVIOUS
        <3> QED BY <2>2, <2>3, <3>1, Zenon
    <2>5. u = [k \in 0..n |-> u[k]]
        BY <2>2
    <2>6. u = [k \in 0..n |-> IF k = 0 THEN <<>> ELSE u[k - 1] \o Sent(k)]
        BY <2>4, <2>5
    <2> QED BY <2>6
<1> DEFINE g == CHOOSE u : IsEsc(u)
<1>5. IsEsc(g)
    <2> HIDE DEF IsEsc
    <2> QED BY <1>4
<1>6. Escaped(f) = g[n]
    BY <1>2 DEF Escaped, Sent
<1> HIDE DEF g
<1>7. g[0] = <<>> /\ \A k \in 1..n : g[k] = g[k - 1] \o Sent(k)
    <2>1. \A k \in 0..n : g[k] = IF k = 0 THEN <<>> ELSE g[k - 1] \o Sent(k)
        BY <1>5
    <2>2. 0 \in 0..n /\ \A k \in 1..n : k \in 0..n /\ k # 0
        OBVIOUS
    <2> QED BY <2>1, <2>2, Zenon
<1>8. \A k \in 0..n : g[k] \in Seq(Bytes)
    <2> DEFINE U == {k \in 0..n : g[k] \in Seq(Bytes)}
    <2>1. 0 \in U
        <3>1. 0 \in 0..n /\ g[0] \in Seq(Bytes)
            BY <1>7, EmptySeq
        <3> QED BY <3>1
    <2>2. ASSUME NEW k \in 1..n, k - 1 \in U PROVE k \in U
        <3>1. g[k - 1] \in Seq(Bytes) /\ k \in 0..n
            BY <2>2
        <3>2. g[k] \in Seq(Bytes)
            <4>1. PICK b : b = Sent(k)
                OBVIOUS
            <4>2. b \in Seq(Bytes) /\ g[k] = g[k - 1] \o b
                BY <1>3, <1>7, <4>1
            <4> QED BY <3>1, <4>2, ConcatProperties
        <3> QED BY <3>1, <3>2
    <2>3. \A k \in 0..n : k \in U
        <3> HIDE DEF U
        <3> QED BY <2>1, <2>2, UpTo
    <2> QED BY <2>3
<1>9. PICK e : e = [k \in 0..n |-> Len(g[k])]
    OBVIOUS
<1>10. e \in [0..n -> Nat] /\ e[0] = 0 /\ \A k \in 0..n : e[k] = Len(g[k])
    BY <1>1, <1>2, <1>7, <1>8, <1>9, EmptySeq, LenProperties
<1>11. ASSUME NEW k \in 1..n
       PROVE  /\ e[k - 1] \in Nat /\ e[k] = e[k - 1] + (IF f[k] = DLE THEN 2 ELSE 1)
              /\ \A i \in 1..e[k - 1] : g[k][i] = g[k - 1][i]
              /\ g[k][e[k - 1] + 1] = f[k]
              /\ f[k] = DLE => g[k][e[k - 1] + 2] = NUL
    <2>1. k \in 0..n /\ k - 1 \in 0..n
        BY <1>1, <1>2
    <2>2. PICK a : a = g[k - 1]
        OBVIOUS
    <2>3. PICK b : b = Sent(k)
        OBVIOUS
    <2>4. a \in Seq(Bytes) /\ b \in Seq(Bytes) /\ g[k] = a \o b
        BY <1>3, <1>7, <1>8, <2>1, <2>2, <2>3
    <2>5. /\ Len(g[k]) = Len(a) + Len(b) /\ Len(a) \in Nat /\ Len(b) \in Nat
          /\ \A i \in 1..(Len(a) + Len(b)) : g[k][i] = IF i <= Len(a) THEN a[i] ELSE b[i - Len(a)]
        BY <2>4, ConcatProperties, LenProperties
    <2>6. e[k - 1] = Len(a) /\ e[k] = Len(g[k])
        BY <1>10, <2>1, <2>2
    <2>7. Len(b) = (IF f[k] = DLE THEN 2 ELSE 1) /\ b[1] = f[k] /\ (f[k] = DLE => b[2] = NUL)
        BY <1>3, <2>3
    <2>8. g[k][Len(a) + 1] = b[1] /\ (f[k] = DLE => g[k][Len(a) + 2] = b[2])
        BY <2>5, <2>7, SMTT(30)
    <2>9. \A i \in 1..Len(a) : g[k][i] = a[i]
        BY <2>5
    <2> QED BY <2>2, <2>5, <2>6, <2>7, <2>8, <2>9
<1> DEFINE Placed(m, k) ==
               /\ e[k] <= e[m] /\ g[m][e[k - 1] + 1] = f[k]
               /\ f[k] = DLE => g[m][e[k - 1] + 2] = NUL
           U == {m \in 0..n : \A k \in 1..m : Placed(m, k)}
<1>12. 0 \in U
    BY <1>1, <1>2
<1>13. ASSUME NEW m \in 1..n, m - 1 \in U PROVE m \in U
    <2> SUFFICES ASSUME NEW k \in 1..m PROVE Placed(m, k)
        BY <1>1, <1>2
    <2>1. /\ e[m - 1] \in Nat /\ e[m] = e[m - 1] + (IF f[m] = DLE THEN 2 ELSE 1)
          /\ \A i \in 1..e[m - 1] : g[m][i] = g[m - 1][i]
          /\ g[m][e[m - 1] + 1] = f[m]
          /\ f[m] = DLE => g[m][e[m - 1] + 2] = NUL
        BY <1>11
    <2>2. CASE k = m
        BY <2>1, <2>2
    <2>3. CASE k # m
        <3>1. k \in 1..(m - 1) /\ k \in 1..n
            BY <1>1, <1>2, <2>3
        <3>2. Placed(m - 1, k)
            BY <1>13, <3>1
        <3>3. e[k - 1] \in Nat /\ e[k] = e[k - 1] + (IF f[k] = DLE THEN 2 ELSE 1)
            BY <1>11, <3>1
        <3>4. e[k] <= e[m] /\ e[k - 1] + 1 \in 1..e[m - 1]
                  /\ (f[k] = DLE => e[k - 1] + 2 \in 1..e[m - 1])
            <4>1. /\ e[m - 1] \in Nat /\ (e[m] = e[m - 1] + 2 \/ e[m] = e[m - 1] + 1)
                  /\ e[k - 1] \in Nat /\ (e[k] = e[k - 1] + 2 \/ e[k] = e[k - 1] + 1)
                BY <2>1, <3>3
            <4>2. e[k] <= e[m - 1] /\ (f[k] = DLE => e[k] = e[k - 1] + 2)
                BY <3>2, <3>3
            <4> HIDE DEF Placed
            <4>3. PICK x \in Nat : x = e[m - 1]
                BY <4>1
            <4>4. PICK y \in Nat : y = e[k - 1]
                BY <4>1
            <4>5. e[k] <= e[m]
                BY <4>1, <4>2, <4>3, <4>4, SMTT(30)
            <4>6. e[k - 1] + 1 \in 1..e[m - 1]
                BY <4>1, <4>2, <4>3, <4>4
            <4>7. f[k] = DLE => e[k - 1] + 2 \in 1..e[m - 1]
                BY <4>2, <4>3, <4>4
            <4> QED BY <4>5, <4>6, <4>7
        <3> QED BY <2>1, <3>2, <3>4
    <2> QED BY <2>2, <2>3
<1>14. n \in U
    <2>1. \A k \in 0..n : k \in U
        <3> HIDE DEF U
        <3> QED BY <1>12, <1>13, UpTo
    <2>2. n \in 0..n
        OBVIOUS
    <2> QED BY <2>1, <2>2
<1>15. EscapedAt(f, Escaped(f), e, n)
    <2>1. e[n] = Len(Escaped(f))
        BY <1>1, <1>2, <1>6, <1>10
    <2>2. ASSUME NEW k \in 1..n
          PROVE  /\ e[k - 1] < e[k] /\ e[k] <= Len(Escaped(f)) /\ Escaped(f)[e[k - 1] + 1] = f[k]
                 /\ f[k] = DLE => e[k] = e[k - 1] + 2 /\ Escaped(f)[e[k - 1] + 2] = NUL
                 /\ f[k] # DLE => e[k] = e[k - 1] + 1
        <3>1. Placed(n, k)
            BY <1>14
        <3>2. e[k - 1] \in Nat /\ e[k] = e[k - 1] + (IF f[k] = DLE THEN 2 ELSE 1)
            BY <1>11
        <3> QED BY <1>6, <2>1, <3>1, <3>2
    <2> QED BY <1>10, <2>1, <2>2 DEF EscapedAt
<1>16. Escaped(f) \in Seq(Bytes)
    BY <1>1, <1>2, <1>6, <1>8
<1> QED BY <1>2, <1>15, <1>16

(* Two sequences of given lengths, one after the other.                     *)
IsJoined(r, s, t) ==
    /\ Len(r) = Len(s) + Len(t)
    /\ \A i \in 1..Len(s) : r[i] = s[i]
    /\ \A i \in 1..Len(t) : r[Len(s) + i] = t[i]

(* That is what one sequence after the other is.                            *)
LEMMA Joined ==
    ASSUME NEW T, NEW s \in Seq(T), NEW t \in Seq(T)
    PROVE  s \o t \in Seq(T) /\ IsJoined(s \o t, s, t)
<1> DEFINE r == s \o t
<1>1. Len(s) \in Nat /\ Len(t) \in Nat
    BY LenProperties
<1>2. /\ r \in Seq(T) /\ Len(r) = Len(s) + Len(t)
      /\ \A i \in 1..(Len(s) + Len(t)) : r[i] = IF i <= Len(s) THEN s[i] ELSE t[i - Len(s)]
    BY ConcatProperties
<1> HIDE DEF r
<1>3. ASSUME NEW i \in 1..Len(t) PROVE r[Len(s) + i] = t[i]
    <2>1. /\ Len(s) + i \in 1..(Len(s) + Len(t)) /\ ~(Len(s) + i <= Len(s))
          /\ Len(s) + i - Len(s) = i
        BY <1>1
    <2> QED BY <1>2, <2>1
<1>4. \A i \in 1..Len(s) : r[i] = s[i]
    BY <1>1, <1>2
<1>5. IsJoined(r, s, t)
    BY <1>2, <1>3, <1>4 DEF IsJoined
<1> QED BY <1>2, <1>5 DEF r

(* A Jandy packet, and its checksum.                                        *)
LEMMA JandyPacketIs ==
    ASSUME NEW f \in Seq(Bytes), NEW pk, pk = JandyPacket(f)
    PROVE  /\ pk \in Seq(Bytes) /\ Len(f) \in Nat /\ Len(pk) = Len(f) + 5
           /\ pk[1] = DLE /\ pk[2] = STX /\ \A i \in 1..Len(f) : pk[i + 2] = f[i]
           /\ pk[Len(f) + 4] = DLE /\ pk[Len(f) + 5] = ETX
           /\ check_jandy_checksum(pk)
<1>1. PICK d : d = <<DLE, STX>>
    OBVIOUS
<1>2. d \in Seq(Bytes) /\ Len(d) = 2 /\ d[1] = DLE /\ d[2] = STX
    BY <1>1 DEF Bytes, DLE, STX
<1>3. PICK n \in Nat : n = Len(f)
    BY LenProperties
<1>4. PICK h : h = d \o f
    OBVIOUS
<1>5. /\ h \in Seq(Bytes) /\ Len(h) = 2 + n /\ h[1] = d[1] /\ h[2] = d[2]
      /\ \A i \in 1..n : h[2 + i] = f[i]
    <2>1. /\ h \in Seq(Bytes) /\ Len(h) = Len(d) + Len(f)
          /\ \A i \in 1..Len(d) : h[i] = d[i]
          /\ \A i \in 1..Len(f) : h[Len(d) + i] = f[i]
        <3>1. d \o f \in Seq(Bytes) /\ IsJoined(d \o f, d, f)
            BY <1>2, Joined
        <3> QED BY <1>4, <3>1 DEF IsJoined
    <2> QED BY <1>2, <1>3, <2>1
<1>6. PICK c \in Bytes : c = SumOf(h) % 256
    <2>1. h \in Seq(Int)
        <3>1. Bytes \subseteq Int
            BY DEF Bytes
        <3> QED BY <1>5, <3>1, SeqMonotonic
    <2>2. SumOf(h) \in Int
        BY <2>1, SumIs
    <2>3. SumOf(h) % 256 \in Bytes
        <3>1. PICK x \in Int : x = SumOf(h)
            BY <2>2
        <3>2. x % 256 \in 0..255
            OBVIOUS
        <3> QED BY <3>1, <3>2 DEF Bytes
    <2> QED BY <2>3
<1>7. PICK t : t = <<c, DLE, ETX>>
    OBVIOUS
<1>8. t \in Seq(Bytes) /\ Len(t) = 3 /\ t[1] = c /\ t[2] = DLE /\ t[3] = ETX
    BY <1>6, <1>7 DEF Bytes, DLE, ETX
<1>9. pk = h \o t
    BY <1>1, <1>4, <1>6, <1>7 DEF JandyPacket
<1>10. /\ pk \in Seq(Bytes) /\ Len(pk) = 2 + n + 3
       /\ \A i \in 1..(2 + n) : pk[i] = h[i]
       /\ \A i \in 1..3 : pk[2 + n + i] = t[i]
    <2>1. /\ pk \in Seq(Bytes) /\ Len(pk) = Len(h) + Len(t)
          /\ \A i \in 1..Len(h) : pk[i] = h[i]
          /\ \A i \in 1..Len(t) : pk[Len(h) + i] = t[i]
        <3>1. h \o t \in Seq(Bytes) /\ IsJoined(h \o t, h, t)
            BY <1>5, <1>8, Joined
        <3> QED BY <1>9, <3>1 DEF IsJoined
    <2> QED BY <1>5, <1>8, <2>1
<1>11. pk[1] = DLE /\ pk[2] = STX /\ \A i \in 1..n : pk[i + 2] = f[i]
    <2>1. \A i \in 1..n : 2 + i \in 1..(2 + n) /\ i + 2 = 2 + i
        OBVIOUS
    <2>2. 1 \in 1..(2 + n) /\ 2 \in 1..(2 + n)
        OBVIOUS
    <2> QED BY <1>2, <1>5, <1>10, <2>1, <2>2
<1>12. pk[n + 3] = c /\ pk[n + 4] = DLE /\ pk[n + 5] = ETX
    <2>1. 2 + n + 1 = n + 3 /\ 2 + n + 2 = n + 4 /\ 2 + n + 3 = n + 5
        OBVIOUS
    <2> QED BY <1>8, <1>10, <2>1
<1>13. PICK q : q = SubSeq(pk, 1, Len(pk) - 3)
    OBVIOUS
<1>14. q = h
    <2>1. \A i \in 1..(n + 2) : pk[i] \in Bytes /\ pk[i] = h[i]
        BY <1>10, ElementOfSeq
    <2>2. Len(pk) - 3 = n + 2
        BY <1>10
    <2>3. /\ q \in Seq(Bytes) /\ Len(q) = n + 2
          /\ \A i \in 1..(n + 2) : q[i] = pk[i]
        <3>1. q = SubSeq(pk, 1, n + 2)
            BY <1>13, <2>2
        <3>2. /\ q \in Seq(Bytes) /\ Len(q) = IF 1 <= n + 2 THEN n + 2 - 1 + 1 ELSE 0
              /\ \A i \in 1..(n + 2 - 1 + 1) : q[i] = pk[1 + i - 1]
            BY <2>1, <3>1, SubSeqProperties
        <3>3. n + 2 - 1 + 1 = n + 2 /\ 1 <= n + 2 /\ \A i \in 1..(n + 2) : 1 + i - 1 = i
            OBVIOUS
        <3> QED BY <3>2, <3>3
    <2> QED BY <1>5, <2>1, <2>3, SeqEqual
<1>15. generate_checksum(pk) = pk[Len(pk) - 2]
    <2>1. Len(pk) - 2 = n + 3
        BY <1>10
    <2> QED BY <1>6, <1>12, <1>13, <1>14, <2>1 DEF generate_checksum
<1> QED BY <1>3, <1>10, <1>11, <1>12, <1>15 DEF check_jandy_checksum

(* A DLE inside a Jandy packet, which a NUL follows on the wire, and where  *)
(* the bytes of the packet are there: pos[n] is the place of the n-th.      *)
DleInside(pk, n) == n >= 3 /\ n <= Len(pk) - 3 /\ pk[n] = DLE
WireAt(w, pk, pos) ==
    /\ pos \in [1..Len(pk) -> 1..Len(w)] /\ pos[1] = 1 /\ pos[Len(pk)] = Len(w)
    /\ \A n \in 1..Len(pk) : w[pos[n]] = pk[n]
    /\ \A n \in 1..(Len(pk) - 1) :
          /\ DleInside(pk, n) => pos[n + 1] = pos[n] + 2 /\ w[pos[n] + 1] = NUL
          /\ ~DleInside(pk, n) => pos[n + 1] = pos[n] + 1

(* There is such a place for every byte of a Jandy packet.                  *)
LEMMA JandyWireIs ==
    ASSUME NEW f \in Seq(Bytes), NEW pk, pk = JandyPacket(f), NEW w, w = JandyWire(f)
    PROVE  w \in Seq(Bytes) /\ \E pos : WireAt(w, pk, pos)
<1>1. /\ pk \in Seq(Bytes) /\ Len(f) \in Nat /\ Len(pk) = Len(f) + 5
      /\ pk[1] = DLE /\ pk[2] = STX /\ \A i \in 1..Len(f) : pk[i + 2] = f[i]
      /\ pk[Len(f) + 4] = DLE /\ pk[Len(f) + 5] = ETX
    BY JandyPacketIs
<1>2. PICK n \in Nat : n = Len(f)
    BY <1>1
<1>3. PICK u : u = Escaped(f)
    OBVIOUS
<1>4. u \in Seq(Bytes) /\ Len(u) \in Nat
    BY <1>3, EscapedIs, LenProperties
<1>5. PICK e : EscapedAt(f, u, e, n)
    BY <1>2, <1>3, EscapedIs
<1>6. PICK d : d = <<DLE, STX>>
    OBVIOUS
<1>7. d \in Seq(Bytes) /\ Len(d) = 2 /\ d[1] = DLE /\ d[2] = STX
    BY <1>6 DEF Bytes, DLE, STX
<1>8. PICK h : h = d \o u
    OBVIOUS
<1>9. /\ h \in Seq(Bytes) /\ Len(h) = 2 + Len(u) /\ h[1] = d[1] /\ h[2] = d[2]
      /\ \A i \in 1..Len(u) : h[2 + i] = u[i]
    <2>1. /\ h \in Seq(Bytes) /\ Len(h) = Len(d) + Len(u)
          /\ \A i \in 1..Len(d) : h[i] = d[i]
          /\ \A i \in 1..Len(u) : h[Len(d) + i] = u[i]
        <3>1. d \o u \in Seq(Bytes) /\ IsJoined(d \o u, d, u)
            BY <1>4, <1>7, Joined
        <3> QED BY <1>8, <3>1 DEF IsJoined
    <2> QED BY <1>7, <2>1
<1>10. PICK t : t = SubSeq(pk, n + 3, n + 5)
    OBVIOUS
<1>11. t \in Seq(Bytes) /\ Len(t) = 3 /\ \A i \in 1..3 : t[i] = pk[n + 2 + i]
    <2>1. \A i \in (n + 3)..(n + 5) : pk[i] \in Bytes
        BY <1>1, <1>2, ElementOfSeq
    <2>2. /\ t \in Seq(Bytes) /\ Len(t) = IF n + 3 <= n + 5 THEN n + 5 - (n + 3) + 1 ELSE 0
          /\ \A i \in 1..(n + 5 - (n + 3) + 1) : t[i] = pk[n + 3 + i - 1]
        BY <1>10, <2>1, SubSeqProperties
    <2>3. n + 3 <= n + 5 /\ n + 5 - (n + 3) + 1 = 3 /\ \A i \in 1..3 : n + 3 + i - 1 = n + 2 + i
        OBVIOUS
    <2> QED BY <2>2, <2>3
<1>12. w = h \o t
    BY <1>2, <1>3, <1>6, <1>8, <1>10 DEF JandyWire
<1>13. PICK m \in Nat : m = Len(u)
    BY <1>4
<1>14. /\ w \in Seq(Bytes) /\ Len(w) = 2 + m + 3
       /\ \A i \in 1..(2 + m) : w[i] = h[i]
       /\ \A i \in 1..3 : w[2 + m + i] = t[i]
    <2>1. /\ w \in Seq(Bytes) /\ Len(w) = Len(h) + Len(t)
          /\ \A i \in 1..Len(h) : w[i] = h[i]
          /\ \A i \in 1..Len(t) : w[Len(h) + i] = t[i]
        <3>1. h \o t \in Seq(Bytes) /\ IsJoined(h \o t, h, t)
            BY <1>9, <1>11, Joined
        <3> QED BY <1>12, <3>1 DEF IsJoined
    <2> QED BY <1>9, <1>11, <1>13, <2>1
<1>15. /\ w[1] = DLE /\ w[2] = STX /\ \A i \in 1..m : w[i + 2] = u[i]
       /\ \A i \in 1..3 : w[m + 2 + i] = pk[n + 2 + i]
    <2>1. /\ \A i \in 1..m : 2 + i \in 1..(2 + m) /\ i + 2 = 2 + i
          /\ 1 \in 1..(2 + m) /\ 2 \in 1..(2 + m)
        OBVIOUS
    <2>2. \A i \in 1..3 : m + 2 + i = 2 + m + i
        OBVIOUS
    <2> QED BY <1>7, <1>9, <1>11, <1>13, <1>14, <2>1, <2>2, SMTT(30)
<1>16. /\ e \in [0..n -> Nat] /\ e[0] = 0 /\ e[n] = m
       /\ \A k \in 1..n :
             /\ e[k - 1] \in Nat /\ e[k] \in Nat
             /\ e[k - 1] < e[k] /\ e[k] <= m /\ u[e[k - 1] + 1] = pk[k + 2]
             /\ pk[k + 2] = DLE => e[k] = e[k - 1] + 2 /\ u[e[k - 1] + 2] = NUL
             /\ pk[k + 2] # DLE => e[k] = e[k - 1] + 1
    <2>1. \A k \in 1..n : k - 1 \in 0..n /\ k \in 0..n
        OBVIOUS
    <2>2. /\ e \in [0..n -> Nat] /\ e[0] = 0 /\ e[n] = m
          /\ \A k \in 1..n :
                /\ e[k - 1] < e[k] /\ e[k] <= m /\ u[e[k - 1] + 1] = f[k]
                /\ f[k] = DLE => e[k] = e[k - 1] + 2 /\ u[e[k - 1] + 2] = NUL
                /\ f[k] # DLE => e[k] = e[k - 1] + 1
        BY <1>5, <1>13 DEF EscapedAt
    <2>3. ASSUME NEW k \in 1..n
          PROVE  e[k - 1] \in Nat /\ e[k] \in Nat
        BY <2>1, <2>2
    <2>4. ASSUME NEW k \in 1..n
          PROVE  pk[k + 2] = f[k]
        BY <1>1, <1>2
    <2> QED BY <2>2, <2>3, <2>4
<1>17. PICK pos : pos = [j \in 1..(n + 5) |-> IF j <= 2 THEN j
                                              ELSE IF j <= n + 2 THEN e[j - 3] + 3
                                              ELSE m + (j - n)]
    OBVIOUS
<1>18. ASSUME NEW j \in 1..(n + 5)
       PROVE  /\ j <= 2 => pos[j] = j
              /\ j >= 3 /\ j <= n + 2 => pos[j] = e[j - 3] + 3
              /\ j >= n + 3 => pos[j] = m + (j - n)
    BY <1>17
<1>19. ASSUME NEW j \in 1..(n + 5)
       PROVE  pos[j] \in 1..(m + 5) /\ w[pos[j]] = pk[j]
    <2>1. CASE j <= 2
        <3>1. pos[j] = j /\ (j = 1 \/ j = 2)
            BY <1>18, <2>1
        <3>2. w[1] = pk[1] /\ w[2] = pk[2]
            BY <1>1, <1>15
        <3>3. 1 \in 1..(m + 5) /\ 2 \in 1..(m + 5)
            OBVIOUS
        <3> QED BY <3>1, <3>2, <3>3
    <2>2. CASE j >= 3 /\ j <= n + 2
        <3>1. PICK k \in 1..n : k = j - 2
            BY <2>2
        <3>2. pos[j] = e[k - 1] + 3 /\ k + 2 = j
            BY <1>18, <2>2, <3>1
        <3>3. e[k - 1] + 1 \in 1..m /\ u[e[k - 1] + 1] = pk[j]
            <4>1. /\ e[k - 1] \in Nat /\ e[k] \in Nat /\ e[k - 1] < e[k] /\ e[k] <= m
                  /\ u[e[k - 1] + 1] = pk[k + 2]
                BY <1>16
            <4> QED BY <3>2, <4>1, SMTT(30)
        <3>4. w[e[k - 1] + 1 + 2] = pk[j] /\ e[k - 1] + 1 + 2 = e[k - 1] + 3
            <4>1. e[k - 1] \in Nat
                BY <1>16
            <4>2. PICK x \in 1..m : x = e[k - 1] + 1
                BY <3>3
            <4>3. w[x + 2] = u[x] /\ u[x] = pk[j]
                BY <1>15, <3>3, <4>2
            <4> QED BY <4>1, <4>2, <4>3
        <3>5. e[k - 1] + 3 \in 1..(m + 5)
            BY <1>16, <3>3, SMTT(30)
        <3> QED BY <3>2, <3>4, <3>5
    <2>3. CASE j >= n + 3
        <3>1. PICK i \in 1..3 : i = j - (n + 2)
            BY <2>3
        <3>2. pos[j] = m + 2 + i /\ n + 2 + i = j
            BY <1>18, <2>3, <3>1
        <3> QED BY <1>15, <3>2, SMTT(30)
    <2> QED BY <2>1, <2>2, <2>3
<1>20. ASSUME NEW j \in 1..(n + 4)
       PROVE  /\ DleInside(pk, j) => pos[j + 1] = pos[j] + 2 /\ w[pos[j] + 1] = NUL
              /\ ~DleInside(pk, j) => pos[j + 1] = pos[j] + 1
    <2>1. j \in 1..(n + 5) /\ j + 1 \in 1..(n + 5)
        OBVIOUS
    <2>2. DleInside(pk, j) <=> j >= 3 /\ j <= n + 2 /\ pk[j] = DLE
        BY <1>1, <1>2 DEF DleInside
    <2>3. CASE j = 1
        BY <1>18, <2>1, <2>2, <2>3
    <2>4. CASE j = 2
        <3>1. pos[j] = 2
            BY <1>18, <2>1, <2>4
        <3>2. pos[j + 1] = 3
            <4>1. CASE n = 0
                BY <1>16, <1>18, <2>1, <2>4, <4>1
            <4>2. CASE n # 0
                <5>1. pos[3] = e[0] + 3
                    BY <1>18, <2>1, <2>4, <4>2
                <5> QED BY <1>16, <2>4, <5>1
            <4> QED BY <4>1, <4>2
        <3> QED BY <2>2, <2>4, <3>1, <3>2
    <2>5. CASE j >= 3 /\ j <= n + 2
        <3>1. PICK k \in 1..n : k = j - 2
            BY <2>5
        <3>2. pos[j] = e[k - 1] + 3 /\ k + 2 = j
            BY <1>18, <2>1, <2>5, <3>1
        <3>3. pos[j + 1] = e[k] + 3
            <4>1. CASE j = n + 2
                BY <1>16, <1>18, <2>1, <3>1, <4>1
            <4>2. CASE j # n + 2
                <5>1. j + 1 >= 3 /\ j + 1 <= n + 2 /\ j + 1 - 3 = k
                    BY <2>5, <3>1, <4>2
                <5> QED BY <1>18, <2>1, <5>1
            <4> QED BY <4>1, <4>2
        <3>4. /\ e[k - 1] \in Nat /\ e[k] <= m
              /\ pk[j] = DLE => e[k] = e[k - 1] + 2 /\ u[e[k - 1] + 2] = NUL
              /\ pk[j] # DLE => e[k] = e[k - 1] + 1
            BY <1>16, <3>2
        <3>5. ASSUME pk[j] = DLE PROVE w[pos[j] + 1] = NUL
            <4>1. e[k - 1] + 2 \in 1..m /\ u[e[k - 1] + 2] = NUL
                BY <3>4, <3>5
            <4>2. w[e[k - 1] + 2 + 2] = NUL
                BY <1>15, <4>1
            <4>3. e[k - 1] + 2 + 2 = pos[j] + 1
                BY <3>2, <3>4
            <4> QED BY <4>2, <4>3
        <3>6. CASE pk[j] = DLE
            <4>1. pos[j + 1] = pos[j] + 2
                BY <3>2, <3>3, <3>4, <3>6
            <4> QED BY <2>2, <2>5, <3>5, <3>6, <4>1
        <3>7. CASE pk[j] # DLE
            <4>1. pos[j + 1] = pos[j] + 1
                BY <3>2, <3>3, <3>4, <3>7
            <4> QED BY <2>2, <3>7, <4>1
        <3> QED BY <3>6, <3>7
    <2>6. CASE j >= n + 3
        BY <1>18, <2>1, <2>2, <2>6
    <2> QED BY <2>3, <2>4, <2>5, <2>6
<1>21. WireAt(w, pk, pos)
    <2>1. Len(pk) = n + 5 /\ Len(w) = m + 5
        BY <1>1, <1>2, <1>14
    <2>2. pos \in [1..(n + 5) -> 1..(m + 5)]
        BY <1>17, <1>19
    <2>3. pos[1] = 1 /\ pos[n + 5] = m + 5
        BY <1>18
    <2>4. n + 5 - 1 = n + 4
        OBVIOUS
    <2> QED BY <1>19, <1>20, <2>1, <2>2, <2>3, <2>4 DEF WireAt
<1> QED BY <1>14, <1>21

-----------------------------------------------------------------------------
(* What is left of the wire w from its p-th byte on, and the first n bytes  *)
(* of the packet.                                                           *)
LeftOf(s, w, p) ==
    /\ s \in Seq(Int) /\ p \in 1..(Len(w) + 1) /\ Len(s) = Len(w) - p + 1
    /\ \A j \in 1..Len(s) : s[j] = w[p + j - 1]
FirstOf(s, pk, n) ==
    /\ s \in Seq(Int) /\ Len(s) = n /\ n <= Len(pk)
    /\ \A j \in 1..n : s[j] = pk[j]

(* At first the whole wire is left.                                         *)
LEMMA LeftAtFirst ==
    ASSUME NEW w \in Seq(Int)
    PROVE  LeftOf(w, w, 1)
<1>1. Len(w) \in Nat /\ \A j \in 1..Len(w) : 1 + j - 1 = j
    BY LenProperties
<1> QED BY <1>1 DEF LeftOf

(* What is left when the byte that comes next is taken.                     *)
LEMMA LeftNext ==
    ASSUME NEW w \in Seq(Int), NEW s, NEW p, LeftOf(s, w, p), s # <<>>
    PROVE  /\ p \in 1..Len(w) /\ Head(s) = w[p] /\ w[p] \in Int
           /\ LeftOf(Tail(s), w, p + 1) /\ (Tail(s) = <<>> <=> p = Len(w))
<1>1. s \in Seq(Int) /\ Len(w) \in Nat /\ Len(s) \in Nat \ {0} /\ Len(s) = Len(w) - p + 1
      /\ p \in 1..(Len(w) + 1) /\ \A j \in 1..Len(s) : s[j] = w[p + j - 1]
    BY EmptySeq, LenProperties DEF LeftOf
<1>2. p \in 1..Len(w) /\ w[p] \in Int
    BY <1>1, ElementOfSeq
<1>3. PICK t : t = Tail(s)
    OBVIOUS
<1>4. t \in Seq(Int) /\ Len(t) = Len(s) - 1 /\ \A i \in 1..Len(t) : t[i] = s[i + 1]
    BY <1>1, <1>3, HeadTailProperties
<1>5. Head(s) = w[p]
    <2>1. Head(s) = s[1] /\ p + 1 - 1 = p
        BY <1>1
    <2> QED BY <1>1, <2>1, SMTT(30)
<1>6. LeftOf(t, w, p + 1)
    <2>1. p + 1 \in 1..(Len(w) + 1) /\ Len(t) = Len(w) - (p + 1) + 1
        BY <1>1, <1>2, <1>4
    <2>2. ASSUME NEW j \in 1..Len(t) PROVE t[j] = w[p + 1 + j - 1]
        <3>1. j + 1 \in 1..Len(s) /\ p + (j + 1) - 1 = p + 1 + j - 1
            BY <1>1, <1>4
        <3> QED BY <1>1, <1>4, <3>1
    <2> QED BY <1>4, <2>1, <2>2 DEF LeftOf
<1>7. t = <<>> <=> p = Len(w)
    <2>1. t = <<>> <=> Len(t) = 0
        BY <1>4, EmptySeq
    <2> QED BY <1>1, <1>4, <2>1
<1> QED BY <1>2, <1>3, <1>5, <1>6, <1>7

(* The first bytes of a packet and the one after them.                      *)
LEMMA FirstNext ==
    ASSUME NEW pk \in Seq(Int), NEW n \in Nat, n < Len(pk), NEW s, FirstOf(s, pk, n), NEW t,
           t = Append(s, pk[n + 1]) \/ t = s \o <<pk[n + 1]>>
    PROVE  FirstOf(t, pk, n + 1)
<1>1. Len(pk) \in Nat /\ pk[n + 1] \in Int
    <2>1. Len(pk) \in Nat
        BY LenProperties
    <2>2. n + 1 \in 1..Len(pk)
        BY <2>1
    <2> QED BY <2>1, <2>2, ElementOfSeq
<1>2. s \in Seq(Int) /\ Len(s) = n /\ \A j \in 1..n : s[j] = pk[j]
    BY DEF FirstOf
<1>3. /\ t \in Seq(Int) /\ Len(t) = n + 1
      /\ \A j \in 1..(n + 1) : t[j] = IF j <= n THEN s[j] ELSE pk[n + 1]
    <2>1. CASE t = Append(s, pk[n + 1])
        BY <1>1, <1>2, <2>1, AppendProperties
    <2>2. CASE t = s \o <<pk[n + 1]>>
        <3>1. PICK o : o = <<pk[n + 1]>>
            OBVIOUS
        <3>2. o \in Seq(Int) /\ Len(o) = 1 /\ o[1] = pk[n + 1]
            BY <1>1, <3>1
        <3>3. /\ s \o o \in Seq(Int) /\ Len(s \o o) = Len(s) + Len(o)
              /\ \A j \in 1..(Len(s) + Len(o)) : (s \o o)[j] =
                     IF j <= Len(s) THEN s[j] ELSE o[j - Len(s)]
            BY <1>2, <3>2, ConcatProperties
        <3>4. \A j \in 1..(n + 1) : ~(j <= n) => j - n = 1
            OBVIOUS
        <3> QED BY <1>2, <2>2, <3>1, <3>2, <3>3, <3>4
    <2> QED BY <2>1, <2>2
<1>4. \A j \in 1..(n + 1) : t[j] = pk[j]
    <2> SUFFICES ASSUME NEW j \in 1..(n + 1) PROVE t[j] = pk[j]
        OBVIOUS
    <2>1. j <= n => j \in 1..n
        OBVIOUS
    <2>2. ~(j <= n) => j = n + 1
        OBVIOUS
    <2> QED BY <1>2, <1>3, <2>1, <2>2
<1> QED BY <1>1, <1>3, <1>4 DEF FirstOf

(* All its bytes are the packet.                                            *)
LEMMA FirstAll ==
    ASSUME NEW pk \in Seq(Int), NEW s, FirstOf(s, pk, Len(pk))
    PROVE  s = pk
BY SeqEqual DEF FirstOf

(* Bytes are numbers.                                                       *)
LEMMA BytesAreInts ==
    ASSUME NEW s \in Seq(Bytes)
    PROVE  s \in Seq(Int)
<1>1. Bytes \subseteq Int
    BY DEF Bytes
<1> QED BY <1>1, SeqMonotonic

(* A Pentair packet, which is what is on the wire, and its checksum.        *)
LEMMA PentairPacketIs ==
    ASSUME NEW f \in Seq(Bytes), Len(f) >= 5, Len(f) = f[5] + 5, NEW w, w = PentairPacket(f)
    PROVE  /\ w \in Seq(Int) /\ Len(w) = Len(f) + 6 /\ Len(f) \in Nat
           /\ w[1] = PP1 /\ w[2] = PP2 /\ w[3] = PP3 /\ w[4] = PP4
           /\ w[9] = Len(w) - 11
           /\ check_pentair_checksum(w)
<1>1. PICK n \in Nat : n = Len(f)
    BY LenProperties
<1>2. f \in Seq(Int)
    BY BytesAreInts
<1>3. PICK d : d = <<PP1, PP2, PP3, PP4>>
    OBVIOUS
<1>4. d \in Seq(Int) /\ Len(d) = 4 /\ d[1] = PP1 /\ d[2] = PP2 /\ d[3] = PP3 /\ d[4] = PP4
    BY <1>3 DEF PP1, PP2, PP3, PP4
<1>5. PICK o : o = <<PP4>>
    OBVIOUS
<1>6. o \in Seq(Int) /\ Len(o) = 1 /\ o[1] = PP4
    BY <1>5 DEF PP4
<1>7. PICK g : g = o \o f
    OBVIOUS
<1>8. g \in Seq(Int) /\ Len(g) = n + 1 /\ g[1] = PP4 /\ \A i \in 1..n : g[1 + i] = f[i]
    <2>1. o \o f \in Seq(Int) /\ IsJoined(o \o f, o, f)
        BY <1>2, <1>6, Joined
    <2>2. /\ Len(g) = 1 + n
          /\ \A i \in 1..1 : g[i] = o[i]
          /\ \A i \in 1..n : g[1 + i] = f[i]
        BY <1>1, <1>6, <1>7, <2>1 DEF IsJoined
    <2>3. 1 + n = n + 1 /\ 1 \in 1..1
        OBVIOUS
    <2> QED BY <1>6, <1>7, <2>1, <2>2, <2>3
<1>9. PICK sum \in Int : sum = SumOf(g)
    BY <1>8, SumIs
<1>10. PICK t : t = <<sum \div 256, sum % 256>>
    OBVIOUS
<1>11. /\ t \in Seq(Int) /\ Len(t) = 2 /\ t[1] \in Int /\ t[2] \in Int
       /\ t[1] * 256 + t[2] = sum
    <2>1. sum \div 256 \in Int /\ sum % 256 \in Int /\ (sum \div 256) * 256 + (sum % 256) = sum
        OBVIOUS
    <2> QED BY <1>10, <2>1
<1>12. PICK h : h = d \o f
    OBVIOUS
<1>13. /\ h \in Seq(Int) /\ Len(h) = 4 + n
       /\ \A i \in 1..4 : h[i] = d[i]
       /\ \A i \in 1..n : h[4 + i] = f[i]
    <2>1. d \o f \in Seq(Int) /\ IsJoined(d \o f, d, f)
        BY <1>2, <1>4, Joined
    <2> QED BY <1>1, <1>4, <1>12, <2>1 DEF IsJoined
<1>14. w = h \o t
    BY <1>3, <1>5, <1>7, <1>9, <1>10, <1>12 DEF PentairPacket
<1>15. /\ w \in Seq(Int) /\ Len(w) = 4 + n + 2
       /\ \A i \in 1..(4 + n) : w[i] = h[i]
       /\ \A i \in 1..2 : w[4 + n + i] = t[i]
    <2>1. h \o t \in Seq(Int) /\ IsJoined(h \o t, h, t)
        BY <1>11, <1>13, Joined
    <2> QED BY <1>11, <1>13, <1>14, <2>1 DEF IsJoined
<1>16. w[1] = PP1 /\ w[2] = PP2 /\ w[3] = PP3 /\ w[4] = PP4
    <2>1. 1 \in 1..(4 + n) /\ 2 \in 1..(4 + n) /\ 3 \in 1..(4 + n) /\ 4 \in 1..(4 + n)
        OBVIOUS
    <2>2. 1 \in 1..4 /\ 2 \in 1..4 /\ 3 \in 1..4 /\ 4 \in 1..4
        OBVIOUS
    <2> QED BY <1>4, <1>13, <1>15, <2>1, <2>2
<1>17. \A i \in 1..n : w[4 + i] = f[i]
    <2>1. \A i \in 1..n : 4 + i \in 1..(4 + n)
        OBVIOUS
    <2> QED BY <1>13, <1>15, <2>1
<1>18. w[9] = n - 5
    <2>1. f[5] \in Bytes
        BY <1>1, ElementOfSeq
    <2>2. 5 \in 1..n /\ f[5] + 5 = n
        BY <1>1
    <2>3. w[4 + 5] = f[5]
        BY <1>17, <2>2
    <2>4. PICK x \in 0..255 : x = f[5]
        BY <2>1 DEF Bytes
    <2>5. 4 + 5 = 9 /\ x = n - 5
        BY <2>2, <2>4
    <2> QED BY <2>3, <2>4, <2>5
<1>19. PICK q : q = SubSeq(w, 4, n + 4)
    OBVIOUS
<1>20. q = g
    <2>1. \A i \in 4..(n + 4) : w[i] \in Int
        <3> SUFFICES ASSUME NEW i \in 4..(n + 4) PROVE w[i] \in Int
            OBVIOUS
        <3>1. i \in 1..Len(w)
            BY <1>15
        <3> QED BY <1>15, <3>1, ElementOfSeq
    <2>2. /\ q \in Seq(Int) /\ Len(q) = IF 4 <= n + 4 THEN n + 4 - 4 + 1 ELSE 0
          /\ \A i \in 1..(n + 4 - 4 + 1) : q[i] = w[4 + i - 1]
        BY <1>19, <2>1, SubSeqProperties
    <2>3. Len(q) = n + 1 /\ \A i \in 1..(n + 1) : q[i] = w[3 + i]
        <3>1. 4 <= n + 4 /\ n + 4 - 4 + 1 = n + 1 /\ \A i \in 1..(n + 1) : 4 + i - 1 = 3 + i
            OBVIOUS
        <3> QED BY <2>2, <3>1
    <2>4. ASSUME NEW i \in 1..(n + 1) PROVE q[i] = g[i]
        <3>1. CASE i = 1
            BY <1>8, <1>16, <2>3, <3>1
        <3>2. CASE i # 1
            <4>1. PICK k \in 1..n : i = 1 + k
                <5>1. i - 1 \in 1..n /\ i = 1 + (i - 1)
                    BY <3>2
                <5> QED BY <5>1
            <4>2. 3 + i = 4 + k
                BY <4>1
            <4> QED BY <1>8, <1>17, <2>3, <4>1, <4>2
        <3> QED BY <3>1, <3>2
    <2> QED BY <1>8, <2>2, <2>3, <2>4, SeqEqual
<1>21. check_pentair_checksum(w)
    <2>1. w[9] + 9 = n + 4 /\ Len(w) - 1 = 4 + n + 1 /\ Len(w) = 4 + n + 2
          /\ 4 + n + 1 + 1 = 4 + n + 2
        BY <1>15, <1>18
    <2>2. Pair(w, 4 + n + 1) = sum
        <3>1. w[4 + n + 1] = t[1] /\ w[4 + n + 2] = t[2]
            BY <1>15
        <3> QED BY <1>11, <2>1, <3>1 DEF Pair
    <2>3. SumOf(SubSeq(w, 4, w[9] + 9)) = sum
        BY <1>9, <1>19, <1>20, <2>1
    <2>4. SumOf(SubSeq(w, 4, w[9] + 9)) = Pair(w, Len(w) - 1)
        BY <2>1, <2>2, <2>3
    <2> QED BY <2>4 DEF check_pentair_checksum
<1>22. 4 + n + 2 = n + 6 /\ n - 5 = n + 6 - 11
    OBVIOUS
<1> QED BY <1>1, <1>15, <1>16, <1>18, <1>21, <1>22

-----------------------------------------------------------------------------
(* What the count of the preamble says of the bytes before the p-th.        *)
Primed(w, p, c) ==
    /\ c \in {-1, 0, 1, 2, 3}
    /\ c = 1 => p >= 2 /\ w[p - 1] = PP1
    /\ c = 2 => p >= 3 /\ w[p - 2] = PP1 /\ w[p - 1] = PP2
    /\ c = 3 => \E i \in 1..(p - 3) :
                    /\ w[i] = PP1 /\ w[i + 1] = PP2 /\ w[i + 2] = PP3
                    /\ \A j \in (i + 3)..(p - 1) : w[j] \in {PP1, PP4}

(* It says so of the bytes before the next one when this one is taken, and  *)
(* this one ends a preamble only where four such bytes are.                 *)
LEMMA PrimedNext ==
    ASSUME NEW w, NEW p \in Nat, p >= 1, Primed(w, p, preCnt), NEW c,
           c = -1 \/ c = PreCount(w[p])
    PROVE  Primed(w, p + 1, c) /\ (Preamble(w[p]) => PreambleAt(w, p))
<1>1. preCnt \in {-1, 0, 1, 2, 3}
    BY DEF Primed
<1>2. PICK b : b = w[p]
    OBVIOUS
<1>3. p + 1 - 1 = p /\ p + 1 - 2 = p - 1 /\ p + 1 - 3 = p - 2
    OBVIOUS
<1>4. CASE preCnt = 3
    <2>1. PICK i \in 1..(p - 3) :
              /\ w[i] = PP1 /\ w[i + 1] = PP2 /\ w[i + 2] = PP3
              /\ \A j \in (i + 3)..(p - 1) : w[j] \in {PP1, PP4}
        BY <1>4 DEF Primed
    <2>2. Preamble(w[p]) => PreambleAt(w, p)
        BY <2>1 DEF Preamble, PreambleAt
    <2>3. c \in {-1, 0, 3} /\ (c = 3 => b \in {PP1, PP4})
        BY <1>2, <1>4 DEF PreCount, Preamble, PP1, PP2, PP3, PP4
    <2>4. ASSUME c = 3
          PROVE  i \in 1..(p - 2) /\ \A j \in (i + 3)..p : w[j] \in {PP1, PP4}
        <3>1. \A j \in (i + 3)..p : j = p \/ j \in (i + 3)..(p - 1)
            OBVIOUS
        <3> QED BY <1>2, <2>1, <2>3, <2>4, <3>1
    <2>5. Primed(w, p + 1, c)
        BY <1>3, <2>1, <2>3, <2>4 DEF Primed
    <2> QED BY <2>2, <2>5
<1>5. CASE preCnt = 2
    <2>1. p >= 3 /\ w[p - 2] = PP1 /\ w[p - 1] = PP2
        BY <1>5 DEF Primed
    <2>2. c \in {-1, 0, 3} /\ (c = 3 => b = PP3)
        BY <1>2, <1>5 DEF PreCount, Preamble, PP1, PP2, PP3, PP4
    <2>3. ASSUME c = 3
          PROVE  \E i \in 1..(p - 2) :
                    /\ w[i] = PP1 /\ w[i + 1] = PP2 /\ w[i + 2] = PP3
                    /\ \A j \in (i + 3)..p : w[j] \in {PP1, PP4}
        <3>1. /\ p - 2 \in 1..(p - 2) /\ p - 2 + 1 = p - 1 /\ p - 2 + 2 = p
              /\ (p - 2 + 3)..p = {}
            BY <2>1
        <3> QED BY <1>2, <2>1, <2>2, <2>3, <3>1
    <2>4. Primed(w, p + 1, c)
        BY <1>3, <2>2, <2>3 DEF Primed
    <2> QED BY <1>5, <2>4 DEF Preamble
<1>6. CASE preCnt = 1
    <2>1. p >= 2 /\ w[p - 1] = PP1
        BY <1>6 DEF Primed
    <2>2. c \in {-1, 0, 1, 2} /\ (c = 1 => b = PP1) /\ (c = 2 => b = PP2)
        BY <1>2, <1>6 DEF PreCount, Preamble, PP1, PP2, PP3, PP4
    <2>3. Primed(w, p + 1, c)
        BY <1>2, <1>3, <2>1, <2>2 DEF Primed
    <2> QED BY <1>6, <2>3 DEF Preamble
<1>7. CASE preCnt \in {-1, 0}
    <2>1. c \in {-1, 0, 1} /\ (c = 1 => b = PP1)
        BY <1>2, <1>7 DEF PreCount, Preamble, PP1, PP2, PP3, PP4
    <2>2. Primed(w, p + 1, c)
        BY <1>2, <1>3, <2>1 DEF Primed
    <2> QED BY <1>7, <2>2 DEF Preamble
<1> QED BY <1>1, <1>4, <1>5, <1>6, <1>7

(* The outcomes of ReadByte when the packet is not too large.               *)
LEMMA ReadByteIs ==
    ASSUME ReadByte, NEW b, b = Head(wire)
    PROVE  /\ wire' = Tail(wire) /\ frame' = frame
           /\ ~TooLarge(b) /\ Ends(b) => Return(Checked(Stored(b)))
           /\ ~TooLarge(b) /\ ~Ends(b) => GoOn(b)
<1>2. ASSUME ~TooLarge(b), Ends(b) PROVE Return(Checked(Stored(b)))
    BY <1>2 DEF ReadByte
<1>3. ASSUME ~TooLarge(b), ~Ends(b) PROVE GoOn(b)
    BY <1>3 DEF ReadByte
<1> QED BY <1>2, <1>3 DEF ReadByte

-----------------------------------------------------------------------------
(* A Jandy packet that began in step: n bytes of it have been taken, and the*)
(* p-th of the wire comes next, which is either the next one of the packet  *)
(* or the NUL after a DLE inside.                                           *)
JandyHas(f, pos, n, p) ==
    /\ WireAt(JandyWire(f), JandyPacket(f), pos) /\ n \in 0..(Len(f) + 4)
    /\ LeftOf(wire, JandyWire(f), p) /\ Primed(JandyWire(f), p, preCnt) /\ dataCnt = -1
    /\ \/ /\ p = pos[n + 1]
          /\ lastByteDLE <=> n >= 1 /\ JandyPacket(f)[n] = DLE /\ ~DleInside(JandyPacket(f), n)
       \/ n >= 1 /\ DleInside(JandyPacket(f), n) /\ p = pos[n] + 1 /\ lastByteDLE
    /\ IF n < 2 THEN packet = <<>> /\ started = "no"
       ELSE FirstOf(packet, JandyPacket(f), n) /\ started = "jandy"

(* A Pentair packet that began in step: its p-th byte comes next.           *)
PentairHas(f, p) ==
    /\ LeftOf(wire, PentairPacket(f), p) /\ Primed(PentairPacket(f), p, preCnt) /\ ~lastByteDLE
    /\ IF p <= 4 THEN packet = <<>> /\ started = "no" /\ preCnt = p - 1 /\ dataCnt = -1
       ELSE /\ FirstOf(packet, PentairPacket(f), p - 1) /\ started = "pentair"
            /\ dataCnt = IF p >= 10 THEN PentairPacket(f)[9] ELSE -1

(* What becomes of the local variables after a byte in the middle.          *)
LEMMA GoesOn ==
    ASSUME NEW b, GoOn(b), ~Preamble(b)
    PROVE  /\ packet' = (IF Begun(b) = "no" THEN <<>> ELSE Stored(b))
           /\ started' = Begun(b) /\ dataCnt' = Count(b)
           /\ lastByteDLE' <=> (b = DLE /\ started # "pentair")
           /\ preCnt' = -1 \/ preCnt' = PreCount(b)
BY DEF GoOn

(* What is assumed of the frames.                                           *)
LEMMA FrameIs ==
    /\ MaxPacket \in Nat
    /\ \A f \in JandyFrames :
          /\ f \in Seq(Bytes) /\ Len(f) + 5 < MaxPacket
          /\ \A p \in 1..Len(JandyWire(f)) : ~PreambleAt(JandyWire(f), p)
    /\ \A f \in PentairFrames :
          /\ f \in Seq(Bytes) /\ Len(f) >= 5 /\ Len(f) = f[5] + 5 /\ Len(f) + 6 < MaxPacket
          /\ \A p \in 1..Len(PentairPacket(f)) : PreambleAt(PentairPacket(f), p) => p = 4
BY ReaderAssumption, FrameAssumption DEF Bytes

(* The NUL after a DLE inside a Jandy packet.                               *)
LEMMA JandyNul ==
    ASSUME NEW f \in JandyFrames, NEW pos, NEW n, NEW p, JandyHas(f, pos, n, p),
           wire # <<>>, ReadByte, n >= 1, DleInside(JandyPacket(f), n), p = pos[n] + 1, lastByteDLE
    PROVE  wire' # <<>> /\ JandyHas(f, pos, n, p + 1)'
<1>1. PICK pk : pk = JandyPacket(f)
    OBVIOUS
<1>2. PICK w : w = JandyWire(f)
    OBVIOUS
<1>3. /\ f \in Seq(Bytes) /\ Len(f) + 5 < MaxPacket /\ MaxPacket \in Nat
      /\ \A i \in 1..Len(w) : ~PreambleAt(w, i)
    BY <1>2, FrameIs
<1>4. pk \in Seq(Bytes) /\ Len(pk) = Len(f) + 5 /\ Len(f) \in Nat
    BY <1>1, <1>3, JandyPacketIs
<1>5. w \in Seq(Int)
    BY <1>2, <1>3, JandyWireIs, BytesAreInts
<1>6. WireAt(w, pk, pos) /\ n \in 0..(Len(f) + 4) /\ LeftOf(wire, w, p) /\ Primed(w, p, preCnt)
      /\ dataCnt = -1 /\ DleInside(pk, n)
    BY <1>1, <1>2 DEF JandyHas
<1>7. n >= 3 /\ n <= Len(pk) - 3 /\ pk[n] = DLE
    BY <1>6 DEF DleInside
<1>8. FirstOf(packet, pk, n) /\ started = "jandy"
    BY <1>1, <1>4, <1>6, <1>7 DEF JandyHas
<1>9. /\ pos[n + 1] = pos[n] + 2 /\ w[p] = NUL
      /\ pos[n] \in 1..Len(w) /\ pos[n + 1] \in 1..Len(w) /\ Len(w) \in Nat
    <2>1. n \in 1..(Len(pk) - 1) /\ n \in 1..Len(pk) /\ n + 1 \in 1..Len(pk)
        <3>1. n \in Nat
            BY <1>4, <1>6
        <3> QED BY <1>4, <1>7, <3>1
    <2>2. Len(w) \in Nat
        BY <1>5, LenProperties
    <2> QED BY <1>6, <2>1, <2>2 DEF WireAt
<1>10. /\ p \in 1..Len(w) /\ Head(wire) = w[p] /\ LeftOf(Tail(wire), w, p + 1)
       /\ (Tail(wire) = <<>> <=> p = Len(w))
    BY <1>5, <1>6, LeftNext
<1>11. PICK b : b = Head(wire)
    OBVIOUS
<1>12. b = NUL /\ b = w[p]
    BY <1>9, <1>10, <1>11
<1>13. Stored(b) = packet
    BY <1>12 DEF Stored
<1>14. ~Ends(b)
    BY <1>8, <1>12 DEF Ends, NUL, ETX
<1>15. ~TooLarge(b)
    <2>1. Len(packet) = n
        BY <1>8 DEF FirstOf
    <2> QED BY <1>3, <1>4, <1>7, <1>13, <2>1 DEF TooLarge
<1>16. GoOn(b) /\ wire' = Tail(wire)
    BY <1>11, <1>14, <1>15, ReadByteIs
<1>17. ~Preamble(b)
    BY <1>12 DEF Preamble, NUL, PP4
<1>18. Begun(b) = "jandy" /\ Count(b) = -1
    BY <1>6, <1>8, <1>12 DEF Begun, Count
<1>19. /\ packet' = packet /\ started' = "jandy" /\ dataCnt' = -1 /\ ~lastByteDLE'
       /\ (preCnt' = -1 \/ preCnt' = PreCount(w[p]))
    BY <1>12, <1>13, <1>16, <1>17, <1>18, GoesOn DEF NUL, DLE
<1>20. Primed(w, p + 1, preCnt')
    <2>1. p \in Nat /\ p >= 1
        BY <1>9, <1>10
    <2> QED BY <1>6, <1>19, <2>1, PrimedNext
<1>21. p + 1 = pos[n + 1] /\ p # Len(w)
    BY <1>9
<1> QED BY <1>1, <1>2, <1>6, <1>7, <1>8, <1>10, <1>16, <1>19, <1>20, <1>21 DEF JandyHas

(* The DLE and the STX with which a Jandy packet begins.                    *)
LEMMA JandyBegins ==
    ASSUME NEW f \in JandyFrames, NEW pos, NEW n, NEW p, JandyHas(f, pos, n, p),
           wire # <<>>, ReadByte, n < 2
    PROVE  wire' # <<>> /\ JandyHas(f, pos, n + 1, p + 1)'
<1>1. PICK pk : pk = JandyPacket(f)
    OBVIOUS
<1>2. PICK w : w = JandyWire(f)
    OBVIOUS
<1>3. /\ f \in Seq(Bytes) /\ Len(f) + 5 < MaxPacket /\ MaxPacket \in Nat
      /\ \A i \in 1..Len(w) : ~PreambleAt(w, i)
    BY <1>2, FrameIs
<1>4. /\ pk \in Seq(Bytes) /\ Len(pk) = Len(f) + 5 /\ Len(f) \in Nat /\ pk[1] = DLE /\ pk[2] = STX
    BY <1>1, <1>3, JandyPacketIs
<1>5. w \in Seq(Int)
    BY <1>2, <1>3, JandyWireIs, BytesAreInts
<1>6. WireAt(w, pk, pos) /\ n \in 0..(Len(f) + 4) /\ LeftOf(wire, w, p) /\ Primed(w, p, preCnt)
      /\ dataCnt = -1
    BY <1>1, <1>2 DEF JandyHas
<1>7. /\ n \in {0, 1} /\ ~DleInside(pk, 0) /\ ~DleInside(pk, 1) /\ ~DleInside(pk, 2)
      /\ packet = <<>> /\ started = "no"
    BY <1>1, <1>6 DEF JandyHas, DleInside
<1>8. p = pos[n + 1] /\ (lastByteDLE <=> n = 1)
    BY <1>1, <1>4, <1>7 DEF JandyHas
<1>9. /\ w[p] = pk[n + 1] /\ pos[n + 2] = p + 1 /\ pos[n + 2] \in 1..Len(w) /\ Len(w) \in Nat
    <2>1. n + 1 \in 1..(Len(pk) - 1) /\ n + 1 \in 1..Len(pk) /\ n + 2 \in 1..Len(pk)
          /\ n + 1 + 1 = n + 2 /\ ~DleInside(pk, n + 1)
        <3>1. CASE n = 0
            BY <1>4, <1>7, <3>1
        <3>2. CASE n = 1
            BY <1>4, <1>7, <3>2
        <3> QED BY <1>7, <3>1, <3>2
    <2>2. Len(w) \in Nat
        BY <1>5, LenProperties
    <2> QED BY <1>6, <1>8, <2>1, <2>2 DEF WireAt
<1>10. /\ p \in 1..Len(w) /\ Head(wire) = w[p] /\ LeftOf(Tail(wire), w, p + 1)
       /\ (Tail(wire) = <<>> <=> p = Len(w))
    BY <1>5, <1>6, LeftNext
<1>11. PICK b : b = Head(wire)
    OBVIOUS
<1>12. b = (IF n = 0 THEN DLE ELSE STX) /\ b = w[p]
    BY <1>4, <1>7, <1>9, <1>10, <1>11
<1>13. Stored(b) = (IF n = 0 THEN <<>> ELSE <<DLE, STX>>)
    <2>1. CASE n = 0
        BY <1>7, <1>8, <2>1 DEF Stored
    <2>2. CASE n = 1
        <3>1. b # NUL /\ lastByteDLE
            BY <1>8, <1>12, <2>2 DEF STX, NUL
        <3>2. Stored(b) = <<DLE>> \o <<b>>
            BY <1>7, <3>1 DEF Stored
        <3> QED BY <1>12, <2>2, <3>2
    <2> QED BY <1>7, <2>1, <2>2
<1>14. ~Ends(b)
    BY <1>7, <1>12 DEF Ends, DLE, STX, ETX
<1>15. ~TooLarge(b)
    <2>1. Len(Stored(b)) <= 2
        BY <1>13
    <2>2. Len(Stored(b)) \in Nat
        BY <1>13
    <2> QED BY <1>3, <1>4, <2>1, <2>2 DEF TooLarge
<1>16. GoOn(b) /\ wire' = Tail(wire)
    BY <1>11, <1>14, <1>15, ReadByteIs
<1>17. ~Preamble(b)
    BY <1>12 DEF Preamble, DLE, STX, PP4
<1>18. Begun(b) = (IF n = 0 THEN "no" ELSE "jandy") /\ Count(b) = -1
    BY <1>6, <1>7, <1>8, <1>12 DEF Begun, Count
<1>19. /\ packet' = (IF n = 0 THEN <<>> ELSE <<DLE, STX>>)
       /\ started' = (IF n = 0 THEN "no" ELSE "jandy")
       /\ dataCnt' = -1 /\ (lastByteDLE' <=> n = 0)
       /\ (preCnt' = -1 \/ preCnt' = PreCount(w[p]))
    <2>1. /\ packet' = (IF Begun(b) = "no" THEN <<>> ELSE Stored(b))
          /\ started' = Begun(b) /\ dataCnt' = Count(b)
          /\ lastByteDLE' <=> (b = DLE /\ started # "pentair")
          /\ preCnt' = -1 \/ preCnt' = PreCount(b)
        BY <1>16, <1>17, GoesOn
    <2>2. b = DLE <=> n = 0
        BY <1>7, <1>12 DEF DLE, STX
    <2> QED BY <1>7, <1>12, <1>13, <1>18, <2>1, <2>2
<1>20. Primed(w, p + 1, preCnt')
    <2>1. p \in Nat /\ p >= 1
        BY <1>9, <1>10
    <2> QED BY <1>6, <1>19, <2>1, PrimedNext
<1>21. p # Len(w)
    BY <1>9, <1>10
<1>22. n = 1 => FirstOf(packet', pk, 2)
    <2>1. PICK d : d = <<DLE, STX>>
        OBVIOUS
    <2>2. d \in Seq(Int) /\ Len(d) = 2 /\ d[1] = DLE /\ d[2] = STX
        BY <2>1 DEF DLE, STX
    <2>3. FirstOf(d, pk, 2)
        <3>1. \A j \in 1..2 : j = 1 \/ j = 2
            OBVIOUS
        <3>2. 2 <= Len(pk)
            BY <1>4
        <3> QED BY <1>4, <2>2, <3>1, <3>2 DEF FirstOf
    <2> QED BY <1>19, <2>1, <2>3
<1>23. n + 1 \in 0..(Len(f) + 4) /\ n + 1 + 1 = n + 2 /\ n + 1 >= 1
    BY <1>4, <1>7
<1>24. lastByteDLE' <=> n + 1 >= 1 /\ pk[n + 1] = DLE /\ ~DleInside(pk, n + 1)
    <2>1. CASE n = 0
        BY <1>4, <1>7, <1>19, <2>1
    <2>2. CASE n = 1
        BY <1>4, <1>7, <1>19, <2>2 DEF DLE, STX
    <2> QED BY <1>7, <2>1, <2>2
<1>25. IF n + 1 < 2 THEN packet' = <<>> /\ started' = "no"
       ELSE FirstOf(packet', pk, n + 1) /\ started' = "jandy"
    BY <1>7, <1>19, <1>22
<1>26. wire' # <<>> /\ LeftOf(wire', w, p + 1) /\ p + 1 = pos[n + 1 + 1]
    BY <1>9, <1>10, <1>16, <1>21, <1>23
<1> QED BY <1>1, <1>2, <1>6, <1>19, <1>20, <1>23, <1>24, <1>25, <1>26 DEF JandyHas

(* Any other byte of a Jandy packet, the last one included: what is stored. *)
LEMMA JandyStored ==
    ASSUME NEW f \in JandyFrames, NEW pos, NEW n, NEW p, JandyHas(f, pos, n, p),
           n >= 2, p = pos[n + 1], NEW b, b = JandyPacket(f)[n + 1],
           lastByteDLE <=> n >= 1 /\ JandyPacket(f)[n] = DLE /\ ~DleInside(JandyPacket(f), n)
    PROVE  /\ FirstOf(Stored(b), JandyPacket(f), n + 1) /\ ~TooLarge(b)
           /\ Ends(b) <=> n = Len(f) + 4
<1>1. PICK pk : pk = JandyPacket(f)
    OBVIOUS
<1>2. f \in Seq(Bytes) /\ Len(f) + 5 < MaxPacket /\ MaxPacket \in Nat
    BY FrameIs
<1>3. /\ pk \in Seq(Bytes) /\ Len(pk) = Len(f) + 5 /\ Len(f) \in Nat
      /\ pk[2] = STX /\ pk[Len(f) + 4] = DLE /\ pk[Len(f) + 5] = ETX
    BY <1>1, <1>2, JandyPacketIs
<1>4. /\ n \in 0..(Len(f) + 4) /\ FirstOf(packet, pk, n) /\ started = "jandy"
      /\ b = pk[n + 1] /\ (lastByteDLE <=> pk[n] = DLE /\ ~DleInside(pk, n))
    BY <1>1 DEF JandyHas
<1>5. packet # <<>>
    BY <1>4, EmptySeq DEF FirstOf
<1>6. lastByteDLE <=> pk[n] = DLE /\ n > Len(f) + 2
    <2>1. CASE n = 2
        <3>1. pk[n] # DLE
            BY <1>3, <2>1 DEF DLE, STX
        <3> QED BY <1>4, <3>1
    <2>2. CASE n >= 3
        <3>1. n \in Nat /\ (n <= Len(pk) - 3 <=> ~(n > Len(f) + 2))
            BY <1>3, <1>4
        <3>2. DleInside(pk, n) <=> n <= Len(pk) - 3 /\ pk[n] = DLE
            BY <2>2 DEF DleInside
        <3> QED BY <1>4, <3>1, <3>2
    <2>3. n \in Nat
        BY <1>3, <1>4
    <2> QED BY <2>1, <2>2, <2>3
<1>7. lastByteDLE => b # NUL
    <2> SUFFICES ASSUME lastByteDLE PROVE b # NUL
        OBVIOUS
    <2>1. n = Len(f) + 3 \/ n = Len(f) + 4
        BY <1>3, <1>4, <1>6
    <2>2. b = DLE \/ b = ETX
        <3>1. CASE n = Len(f) + 3
            <4>1. n + 1 = Len(f) + 4
                BY <1>3, <3>1
            <4> QED BY <1>3, <1>4, <4>1
        <3>2. CASE n = Len(f) + 4
            <4>1. n + 1 = Len(f) + 5
                BY <1>3, <3>2
            <4> QED BY <1>3, <1>4, <4>1
        <3> QED BY <2>1, <3>1, <3>2
    <2> QED BY <2>2 DEF DLE, ETX, NUL
<1>8. Stored(b) = packet \o <<b>> \/ Stored(b) = Append(packet, b)
    BY <1>4, <1>5, <1>7 DEF Stored
<1>9. FirstOf(Stored(b), pk, n + 1)
    <2>1. n \in Nat /\ n < Len(pk) /\ pk \in Seq(Int)
        BY <1>3, <1>4, BytesAreInts
    <2> QED BY <1>4, <1>8, <2>1, FirstNext
<1>10. ~TooLarge(b)
    <2>1. Len(Stored(b)) = n + 1
        BY <1>9 DEF FirstOf
    <2> QED BY <1>2, <1>3, <1>4, <2>1 DEF TooLarge
<1>11. Ends(b) <=> lastByteDLE /\ b = ETX
    BY <1>4 DEF Ends
<1>12. lastByteDLE /\ b = ETX <=> n = Len(f) + 4
    <2>1. CASE n = Len(f) + 4
        <3>1. n + 1 = Len(f) + 5 /\ n > Len(f) + 2
            BY <1>3, <2>1
        <3> QED BY <1>3, <1>4, <1>6, <2>1, <3>1
    <2>2. CASE n = Len(f) + 3
        <3>1. n + 1 = Len(f) + 4 /\ n # Len(f) + 4
            BY <1>3, <2>2
        <3> QED BY <1>3, <1>4, <3>1 DEF DLE, ETX
    <2>3. CASE n <= Len(f) + 2
        BY <1>3, <1>4, <1>6, <2>3
    <2> QED BY <1>3, <1>4, <2>1, <2>2, <2>3
<1> QED BY <1>1, <1>9, <1>10, <1>11, <1>12

(* A byte in the middle of a Jandy packet.                                  *)
LEMMA JandyGoesOn ==
    ASSUME NEW f \in JandyFrames, NEW pos, NEW n, NEW p, JandyHas(f, pos, n, p),
           wire # <<>>, ReadByte, n >= 2, n < Len(f) + 4, p = pos[n + 1],
           lastByteDLE <=> n >= 1 /\ JandyPacket(f)[n] = DLE /\ ~DleInside(JandyPacket(f), n)
    PROVE  wire' # <<>> /\ JandyHas(f, pos, n + 1, p + 1)'
<1>1. PICK pk : pk = JandyPacket(f)
    OBVIOUS
<1>2. PICK w : w = JandyWire(f)
    OBVIOUS
<1>3. f \in Seq(Bytes) /\ \A i \in 1..Len(w) : ~PreambleAt(w, i)
    BY <1>2, FrameIs
<1>4. pk \in Seq(Bytes) /\ Len(pk) = Len(f) + 5 /\ Len(f) \in Nat
    BY <1>1, <1>3, JandyPacketIs
<1>5. w \in Seq(Int)
    BY <1>2, <1>3, JandyWireIs, BytesAreInts
<1>6. WireAt(w, pk, pos) /\ n \in 0..(Len(f) + 4) /\ LeftOf(wire, w, p) /\ Primed(w, p, preCnt)
      /\ dataCnt = -1 /\ started = "jandy"
    BY <1>1, <1>2 DEF JandyHas
<1>7. /\ w[p] = pk[n + 1] /\ pos[n + 2] \in 1..Len(w) /\ pos[n + 1] \in 1..Len(w) /\ Len(w) \in Nat
      /\ IF DleInside(pk, n + 1) THEN pos[n + 2] = p + 2 ELSE pos[n + 2] = p + 1
    <2>1. n + 1 \in 1..(Len(pk) - 1) /\ n + 1 \in 1..Len(pk) /\ n + 2 \in 1..Len(pk)
          /\ n + 1 + 1 = n + 2
        BY <1>4, <1>6
    <2>2. Len(w) \in Nat
        BY <1>5, LenProperties
    <2> QED BY <1>6, <2>1, <2>2 DEF WireAt
<1>8. /\ p \in 1..Len(w) /\ Head(wire) = w[p] /\ LeftOf(Tail(wire), w, p + 1)
      /\ (Tail(wire) = <<>> <=> p = Len(w))
    BY <1>5, <1>6, LeftNext
<1>9. PICK b : b = Head(wire)
    OBVIOUS
<1>10. b = w[p] /\ b = pk[n + 1]
    BY <1>7, <1>8, <1>9
<1>11. FirstOf(Stored(b), pk, n + 1) /\ ~TooLarge(b) /\ ~Ends(b)
    <2>1. b = JandyPacket(f)[n + 1]
        BY <1>1, <1>10
    <2>2. /\ FirstOf(Stored(b), JandyPacket(f), n + 1) /\ ~TooLarge(b)
          /\ Ends(b) <=> n = Len(f) + 4
        BY <2>1, JandyStored
    <2>3. n # Len(f) + 4
        BY <1>4, <1>6
    <2> QED BY <1>1, <2>2, <2>3
<1>12. GoOn(b) /\ wire' = Tail(wire)
    BY <1>9, <1>11, ReadByteIs
<1>13. p \in Nat /\ p >= 1
    BY <1>7, <1>8
<1>14. ~Preamble(b)
    <2>1. Preamble(w[p]) => PreambleAt(w, p)
        BY <1>6, <1>13, PrimedNext
    <2> QED BY <1>3, <1>8, <1>10, <2>1
<1>15. Begun(b) = "jandy" /\ Count(b) = -1
    BY <1>6 DEF Begun, Count
<1>16. /\ packet' = Stored(b) /\ started' = "jandy" /\ dataCnt' = -1 /\ (lastByteDLE' <=> b = DLE)
       /\ (preCnt' = -1 \/ preCnt' = PreCount(w[p]))
    BY <1>6, <1>10, <1>12, <1>14, <1>15, GoesOn
<1>17. Primed(w, p + 1, preCnt')
    BY <1>6, <1>13, <1>16, PrimedNext
<1>18. p # Len(w)
    BY <1>7, <1>8
<1>19. n + 1 \in 0..(Len(f) + 4) /\ n + 1 + 1 = n + 2 /\ n + 1 >= 1 /\ ~(n + 1 < 2)
    BY <1>4, <1>6
<1>20. \/ /\ p + 1 = pos[n + 1 + 1]
          /\ lastByteDLE' <=> n + 1 >= 1 /\ pk[n + 1] = DLE /\ ~DleInside(pk, n + 1)
       \/ n + 1 >= 1 /\ DleInside(pk, n + 1) /\ p + 1 = pos[n + 1] + 1 /\ lastByteDLE'
    <2>1. CASE DleInside(pk, n + 1)
        <3>1. b = DLE
            BY <1>10, <2>1 DEF DleInside
        <3> QED BY <1>16, <1>19, <2>1, <3>1
    <2>2. CASE ~DleInside(pk, n + 1)
        BY <1>7, <1>10, <1>16, <1>19, <2>2
    <2> QED BY <2>1, <2>2
<1>21. wire' # <<>> /\ LeftOf(wire', w, p + 1)
    BY <1>8, <1>12, <1>18
<1> QED BY <1>1, <1>2, <1>6, <1>11, <1>16, <1>17, <1>19, <1>20, <1>21 DEF JandyHas

(* The ETX with which it ends.                                              *)
LEMMA JandyEnds ==
    ASSUME NEW f \in JandyFrames, NEW pos, NEW n, NEW p, JandyHas(f, pos, n, p),
           wire # <<>>, ReadByte, n >= 2, n = Len(f) + 4, p = pos[n + 1],
           lastByteDLE <=> n >= 1 /\ JandyPacket(f)[n] = DLE /\ ~DleInside(JandyPacket(f), n)
    PROVE  wire' = <<>> /\ returned' = JandyPacket(f) /\ FreshLocals
<1>1. PICK pk : pk = JandyPacket(f)
    OBVIOUS
<1>2. PICK w : w = JandyWire(f)
    OBVIOUS
<1>3. f \in Seq(Bytes)
    BY FrameIs
<1>4. /\ pk \in Seq(Bytes) /\ Len(pk) = Len(f) + 5 /\ Len(f) \in Nat /\ pk[Len(f) + 5] = ETX
      /\ check_jandy_checksum(pk)
    BY <1>1, <1>3, JandyPacketIs
<1>5. w \in Seq(Int) /\ pk \in Seq(Int)
    BY <1>2, <1>3, <1>4, JandyWireIs, BytesAreInts
<1>6. WireAt(w, pk, pos) /\ LeftOf(wire, w, p) /\ started = "jandy"
    BY <1>1, <1>2 DEF JandyHas
<1>7. n + 1 = Len(pk) /\ n + 1 \in 1..Len(pk)
    BY <1>4
<1>8. w[p] = pk[n + 1] /\ p = Len(w)
    BY <1>6, <1>7 DEF WireAt
<1>9. Head(wire) = w[p] /\ (Tail(wire) = <<>> <=> p = Len(w))
    BY <1>5, <1>6, LeftNext
<1>10. PICK b : b = Head(wire)
    OBVIOUS
<1>11. b = pk[n + 1]
    BY <1>8, <1>9, <1>10
<1>12. FirstOf(Stored(b), pk, n + 1) /\ ~TooLarge(b) /\ Ends(b)
    <2>1. b = JandyPacket(f)[n + 1]
        BY <1>1, <1>11
    <2>2. /\ FirstOf(Stored(b), JandyPacket(f), n + 1) /\ ~TooLarge(b)
          /\ Ends(b) <=> n = Len(f) + 4
        BY <2>1, JandyStored
    <2> QED BY <1>1, <2>2
<1>13. Stored(b) = pk
    BY <1>5, <1>7, <1>12, FirstAll
<1>14. wire' = Tail(wire) /\ returned' = Checked(Stored(b)) /\ FreshLocals
    BY <1>10, <1>12, ReadByteIs DEF Return
<1>15. Checked(pk) = pk
    BY <1>4, <1>6 DEF Checked, MinPacket
<1> QED BY <1>1, <1>8, <1>9, <1>13, <1>14, <1>15

(* A byte of a Jandy packet that began in step.                             *)
LEMMA JandyByte ==
    ASSUME NEW f \in JandyFrames, NEW pos, NEW n, NEW p, JandyHas(f, pos, n, p),
           wire # <<>>, ReadByte
    PROVE  IF wire' = <<>> THEN returned' = JandyPacket(f) /\ FreshLocals
           ELSE \E m, q : JandyHas(f, pos, m, q)'
<1>1. \/ /\ p = pos[n + 1]
         /\ lastByteDLE <=> n >= 1 /\ JandyPacket(f)[n] = DLE /\ ~DleInside(JandyPacket(f), n)
      \/ n >= 1 /\ DleInside(JandyPacket(f), n) /\ p = pos[n] + 1 /\ lastByteDLE
    BY DEF JandyHas
<1>2. n \in 0..(Len(f) + 4) /\ Len(f) \in Nat
    <2>1. f \in Seq(Bytes)
        BY FrameIs
    <2> QED BY <2>1, LenProperties DEF JandyHas
<1>3. CASE n >= 1 /\ DleInside(JandyPacket(f), n) /\ p = pos[n] + 1 /\ lastByteDLE
    <2>1. wire' # <<>> /\ JandyHas(f, pos, n, p + 1)'
        BY <1>3, JandyNul
    <2> QED BY <2>1
<1>4. CASE /\ p = pos[n + 1]
           /\ lastByteDLE <=> n >= 1 /\ JandyPacket(f)[n] = DLE /\ ~DleInside(JandyPacket(f), n)
    <2>1. CASE n < 2
        <3>1. wire' # <<>> /\ JandyHas(f, pos, n + 1, p + 1)'
            BY <2>1, JandyBegins
        <3> QED BY <3>1
    <2>2. CASE n >= 2 /\ n < Len(f) + 4
        <3>1. wire' # <<>> /\ JandyHas(f, pos, n + 1, p + 1)'
            BY <1>4, <2>2, JandyGoesOn
        <3> QED BY <3>1
    <2>3. CASE n >= 2 /\ n = Len(f) + 4
        BY <1>4, <2>3, JandyEnds
    <2> QED BY <1>2, <2>1, <2>2, <2>3
<1> QED BY <1>1, <1>3, <1>4

(* A Pentair packet that has begun in step, and the byte that comes next.   *)
PentairAt(w, p) ==
    /\ w \in Seq(Int) /\ Len(w) \in Nat /\ Len(w) >= 11 /\ Len(w) < MaxPacket /\ MaxPacket \in Nat
    /\ w[1] = PP1 /\ w[2] = PP2 /\ w[3] = PP3 /\ w[4] = PP4
    /\ w[9] = Len(w) - 11 /\ check_pentair_checksum(w)
    /\ \A i \in 1..Len(w) : PreambleAt(w, i) => i = 4
    /\ p \in 1..Len(w) /\ Head(wire) = w[p] /\ LeftOf(Tail(wire), w, p + 1)
    /\ (Tail(wire) = <<>> <=> p = Len(w))
    /\ Primed(w, p, preCnt) /\ (Preamble(w[p]) => p = 4)
    /\ \A c : c = -1 \/ c = PreCount(w[p]) => Primed(w, p + 1, c)

(* That is so for every Pentair packet that has begun in step.              *)
LEMMA PentairNow ==
    ASSUME NEW f \in PentairFrames, NEW p, PentairHas(f, p), wire # <<>>,
           NEW w, w = PentairPacket(f)
    PROVE  PentairAt(w, p)
<1>1. /\ f \in Seq(Bytes) /\ Len(f) >= 5 /\ Len(f) = f[5] + 5 /\ Len(f) + 6 < MaxPacket
      /\ MaxPacket \in Nat /\ \A i \in 1..Len(w) : PreambleAt(w, i) => i = 4
    BY FrameIs
<1>2. /\ w \in Seq(Int) /\ Len(w) = Len(f) + 6 /\ Len(f) \in Nat
      /\ w[1] = PP1 /\ w[2] = PP2 /\ w[3] = PP3 /\ w[4] = PP4
      /\ w[9] = Len(w) - 11 /\ check_pentair_checksum(w)
    BY <1>1, PentairPacketIs
<1>3. LeftOf(wire, w, p) /\ Primed(w, p, preCnt)
    BY DEF PentairHas
<1>4. /\ p \in 1..Len(w) /\ Head(wire) = w[p] /\ LeftOf(Tail(wire), w, p + 1)
      /\ (Tail(wire) = <<>> <=> p = Len(w))
    BY <1>2, <1>3, LeftNext
<1>5. Len(w) \in Nat /\ Len(w) >= 11 /\ Len(w) < MaxPacket
    BY <1>1, <1>2
<1>6. p \in Nat /\ p >= 1
    BY <1>4, <1>5
<1>7. \A c : c = -1 \/ c = PreCount(w[p]) => Primed(w, p + 1, c)
    BY <1>3, <1>6, PrimedNext
<1>8. Preamble(w[p]) => p = 4
    <2>1. Preamble(w[p]) => PreambleAt(w, p)
        BY <1>3, <1>6, PrimedNext
    <2> QED BY <1>1, <1>4, <2>1
<1> QED BY <1>1, <1>2, <1>3, <1>4, <1>5, <1>7, <1>8 DEF PentairAt

(* The preamble of a Pentair packet.                                        *)
LEMMA PentairBegins ==
    ASSUME NEW f \in PentairFrames, NEW p, PentairHas(f, p), wire # <<>>, ReadByte, p <= 4
    PROVE  wire' # <<>> /\ PentairHas(f, p + 1)'
<1>1. PICK w : w = PentairPacket(f)
    OBVIOUS
<1>2. /\ w \in Seq(Int) /\ Len(w) \in Nat /\ Len(w) >= 11 /\ Len(w) < MaxPacket /\ MaxPacket \in Nat
      /\ w[1] = PP1 /\ w[2] = PP2 /\ w[3] = PP3 /\ w[4] = PP4
      /\ p \in 1..Len(w) /\ Head(wire) = w[p] /\ LeftOf(Tail(wire), w, p + 1)
      /\ (Tail(wire) = <<>> <=> p = Len(w))
      /\ \A c : c = -1 \/ c = PreCount(w[p]) => Primed(w, p + 1, c)
    <2>1. PentairAt(w, p)
        BY <1>1, PentairNow
    <2> QED BY <2>1 DEF PentairAt
<1>3. ~lastByteDLE /\ packet = <<>> /\ started = "no" /\ preCnt = p - 1 /\ dataCnt = -1
    BY DEF PentairHas
<1>4. PICK b : b = Head(wire)
    OBVIOUS
<1>5. p \in {1, 2, 3, 4}
    BY <1>2
<1>6. /\ p = 1 => b = PP1
      /\ p = 2 => b = PP2
      /\ p = 3 => b = PP3
      /\ p = 4 => b = PP4
      /\ b = w[p]
    BY <1>2, <1>4
<1>7. Stored(b) = <<>>
    BY <1>3 DEF Stored
<1>8. ~Ends(b)
    BY <1>3 DEF Ends
<1>9. ~TooLarge(b)
    <2>1. Len(Stored(b)) = 0
        BY <1>7
    <2> QED BY <1>2, <2>1 DEF TooLarge
<1>10. GoOn(b) /\ wire' = Tail(wire)
    BY <1>4, <1>8, <1>9, ReadByteIs
<1>11. wire' # <<>> /\ LeftOf(wire', w, p + 1)
    BY <1>2, <1>5, <1>10
<1>12. b # DLE /\ Begun(b) = "no" /\ Count(b) = -1
    BY <1>3, <1>5, <1>6 DEF Begun, Count, DLE, PP1, PP2, PP3, PP4
<1>13. CASE p <= 3
    <2>1. ~Preamble(b)
        BY <1>5, <1>6, <1>13 DEF Preamble, PP1, PP2, PP3, PP4
    <2>2. PreCount(b) = p
        <3>1. CASE p = 1
            BY <1>3, <1>6, <2>1, <3>1 DEF PreCount
        <3>2. CASE p = 2
            BY <1>3, <1>6, <2>1, <3>2 DEF PreCount
        <3>3. CASE p = 3
            BY <1>3, <1>6, <2>1, <3>3 DEF PreCount
        <3> QED BY <1>5, <1>13, <3>1, <3>2, <3>3
    <2>3. packet' = <<>> /\ started' = "no" /\ dataCnt' = -1 /\ ~lastByteDLE' /\ preCnt' = p
        BY <1>3, <1>10, <1>12, <2>1, <2>2 DEF GoOn
    <2>4. Primed(w, p + 1, preCnt')
        BY <1>2, <1>6, <2>2, <2>3
    <2>5. p + 1 <= 4 /\ p = (p + 1) - 1
        BY <1>5, <1>13
    <2>6. IF p + 1 <= 4
         THEN packet' = <<>> /\ started' = "no" /\ preCnt' = (p + 1) - 1 /\ dataCnt' = -1
         ELSE /\ FirstOf(packet', w, (p + 1) - 1) /\ started' = "pentair"
              /\ dataCnt' = IF p + 1 >= 10 THEN w[9] ELSE -1
        BY <2>3, <2>5
    <2> QED BY <1>1, <1>11, <2>3, <2>4, <2>6 DEF PentairHas
<1>14. CASE p = 4
    <2>1. Preamble(b)
        BY <1>3, <1>6, <1>14 DEF Preamble
    <2>2. PreCount(b) = 3
        BY <1>3, <1>6, <1>14, <2>1 DEF PreCount
    <2>3. /\ packet' = <<PP1, PP2, PP3, PP4>> /\ started' = "pentair" /\ dataCnt' = -1
          /\ ~lastByteDLE' /\ preCnt' = 3
        BY <1>3, <1>10, <1>12, <2>1, <2>2 DEF GoOn
    <2>4. Primed(w, p + 1, preCnt')
        BY <1>2, <1>6, <2>2, <2>3
    <2>5. FirstOf(packet', w, (p + 1) - 1)
        <3>1. PICK d : d = <<PP1, PP2, PP3, PP4>>
            OBVIOUS
        <3>2. d \in Seq(Int) /\ Len(d) = 4 /\ d[1] = PP1 /\ d[2] = PP2 /\ d[3] = PP3 /\ d[4] = PP4
            BY <3>1 DEF PP1, PP2, PP3, PP4
        <3>3. \A j \in 1..4 : j \in {1, 2, 3, 4}
            OBVIOUS
        <3>4. FirstOf(d, w, 4)
            <4>1. \A j \in 1..4 : d[j] = w[j]
                BY <1>2, <3>2, <3>3
            <4>2. 4 <= Len(w)
                BY <1>2
            <4> QED BY <3>2, <4>1, <4>2 DEF FirstOf
        <3>5. (p + 1) - 1 = 4
            BY <1>14
        <3> QED BY <2>3, <3>1, <3>4, <3>5
    <2>6. ~(p + 1 <= 4) /\ ~(p + 1 >= 10)
        BY <1>14
    <2>7. IF p + 1 <= 4
         THEN packet' = <<>> /\ started' = "no" /\ preCnt' = (p + 1) - 1 /\ dataCnt' = -1
         ELSE /\ FirstOf(packet', w, (p + 1) - 1) /\ started' = "pentair"
              /\ dataCnt' = IF p + 1 >= 10 THEN w[9] ELSE -1
        BY <2>3, <2>5, <2>6
    <2> QED BY <1>1, <1>11, <2>3, <2>4, <2>7 DEF PentairHas
<1> QED BY <1>5, <1>13, <1>14

(* A byte after it.                                                         *)
LEMMA PentairGoesOn ==
    ASSUME NEW f \in PentairFrames, NEW p, PentairHas(f, p), wire # <<>>, ReadByte, ~(p <= 4)
    PROVE  IF wire' = <<>> THEN returned' = PentairPacket(f) /\ FreshLocals
           ELSE PentairHas(f, p + 1)'
<1>1. PICK w : w = PentairPacket(f)
    OBVIOUS
<1>2. /\ w \in Seq(Int) /\ Len(w) \in Nat /\ Len(w) >= 11 /\ Len(w) < MaxPacket /\ MaxPacket \in Nat
      /\ w[9] = Len(w) - 11 /\ check_pentair_checksum(w)
      /\ p \in 1..Len(w) /\ Head(wire) = w[p] /\ LeftOf(Tail(wire), w, p + 1)
      /\ (Tail(wire) = <<>> <=> p = Len(w))
      /\ (Preamble(w[p]) => p = 4)
      /\ \A c : c = -1 \/ c = PreCount(w[p]) => Primed(w, p + 1, c)
    <2>1. PentairAt(w, p)
        BY <1>1, PentairNow
    <2> QED BY <2>1 DEF PentairAt
<1>3. /\ ~lastByteDLE /\ FirstOf(packet, w, p - 1) /\ started = "pentair"
      /\ dataCnt = IF p >= 10 THEN w[9] ELSE -1
    BY <1>1 DEF PentairHas
<1>4. PICK b : b = Head(wire)
    OBVIOUS
<1>5. b = w[p] /\ p \in Nat /\ p > 4 /\ p <= Len(w) /\ ~Preamble(b)
    BY <1>2, <1>4
<1>6. Stored(b) = Append(packet, b)
    BY <1>3 DEF Stored
<1>7. FirstOf(Stored(b), w, p) /\ Len(Stored(b)) = p
    <2>1. PICK n \in Nat : n = p - 1
        BY <1>5
    <2>2. n < Len(w) /\ n + 1 = p
        BY <1>2, <1>5, <2>1
    <2>3. FirstOf(Stored(b), w, n + 1)
        BY <1>2, <1>3, <1>5, <1>6, <2>1, <2>2, FirstNext
    <2> QED BY <2>2, <2>3 DEF FirstOf
<1>8. ~TooLarge(b)
    BY <1>2, <1>5, <1>7 DEF TooLarge
<1>9. Count(b) = IF p >= 9 THEN Len(w) - 11 ELSE -1
    <2>1. CASE p = 9
        BY <1>2, <1>3, <1>5, <1>7, <2>1 DEF Count
    <2>2. CASE p # 9
        <3>1. Count(b) = dataCnt
            BY <1>7, <2>2 DEF Count
        <3>2. p >= 10 <=> p >= 9
            BY <1>5, <2>2
        <3> QED BY <1>2, <1>3, <3>1, <3>2
    <2> QED BY <2>1, <2>2
<1>10. Ends(b) <=> p = Len(w)
    <2>1. Ends(b) <=> Count(b) >= 0 /\ p - 11 >= Count(b)
        BY <1>3, <1>7 DEF Ends
    <2>2. Count(b) >= 0 /\ p - 11 >= Count(b) <=> p = Len(w)
        BY <1>2, <1>5, <1>9
    <2> QED BY <2>1, <2>2
<1>11. CASE p = Len(w)
    <2>1. wire' = Tail(wire) /\ returned' = Checked(Stored(b)) /\ FreshLocals
        BY <1>4, <1>8, <1>10, <1>11, ReadByteIs DEF Return
    <2>2. Stored(b) = w
        BY <1>2, <1>7, <1>11, FirstAll
    <2>3. Checked(w) = w
        BY <1>2, <1>3 DEF Checked, MinPacket
    <2> QED BY <1>1, <1>2, <1>11, <2>1, <2>2, <2>3
<1>12. CASE p # Len(w)
    <2>1. GoOn(b) /\ wire' = Tail(wire)
        BY <1>4, <1>8, <1>10, <1>12, ReadByteIs
    <2>2. wire' # <<>> /\ LeftOf(wire', w, p + 1)
        BY <1>2, <1>12, <2>1
    <2>3. Begun(b) = "pentair"
        BY <1>3 DEF Begun
    <2>4. /\ packet' = Stored(b) /\ started' = "pentair" /\ dataCnt' = Count(b)
          /\ ~lastByteDLE' /\ (preCnt' = -1 \/ preCnt' = PreCount(w[p]))
        <3>1. /\ packet' = (IF Begun(b) = "no" THEN <<>> ELSE Stored(b))
              /\ started' = Begun(b) /\ dataCnt' = Count(b)
              /\ lastByteDLE' <=> (b = DLE /\ started # "pentair")
              /\ preCnt' = -1 \/ preCnt' = PreCount(b)
            BY <1>5, <2>1, GoesOn
        <3> QED BY <1>3, <1>5, <2>3, <3>1
    <2>5. Primed(w, p + 1, preCnt')
        BY <1>2, <2>4
    <2>6. (p + 1) - 1 = p /\ ~(p + 1 <= 4) /\ (p + 1 >= 10 <=> p >= 9)
        BY <1>5
    <2>7. dataCnt' = IF p + 1 >= 10 THEN w[9] ELSE -1
        BY <1>2, <1>9, <2>4, <2>6
    <2>8. FirstOf(packet', w, (p + 1) - 1)
        BY <1>7, <2>4, <2>6
    <2>9. IF p + 1 <= 4
         THEN packet' = <<>> /\ started' = "no" /\ preCnt' = (p + 1) - 1 /\ dataCnt' = -1
         ELSE /\ FirstOf(packet', w, (p + 1) - 1) /\ started' = "pentair"
              /\ dataCnt' = IF p + 1 >= 10 THEN w[9] ELSE -1
        BY <2>4, <2>6, <2>7, <2>8
    <2> QED BY <1>1, <2>2, <2>4, <2>5, <2>9 DEF PentairHas
<1> QED BY <1>11, <1>12

(* A byte of a Pentair packet that began in step.                           *)
LEMMA PentairByte ==
    ASSUME NEW f \in PentairFrames, NEW p, PentairHas(f, p), wire # <<>>, ReadByte
    PROVE  IF wire' = <<>> THEN returned' = PentairPacket(f) /\ FreshLocals
           ELSE PentairHas(f, p + 1)'
<1>1. CASE p <= 4
    BY <1>1, PentairBegins
<1>2. CASE ~(p <= 4)
    BY <1>2, PentairGoesOn
<1> QED BY <1>1, <1>2

-----------------------------------------------------------------------------
(* A whole frame that began in step has been taken up to some byte of it.   *)
ReaderInv ==
    whole /\ inStep /\ wire # <<>> =>
        \/ \E f \in JandyFrames : frame = JandyPacket(f) /\ \E pos, n, p : JandyHas(f, pos, n, p)
        \/ \E f \in PentairFrames : frame = PentairPacket(f) /\ \E p : PentairHas(f, p)

(* A frame that begins when nothing else has been read.                     *)
LEMMA PutBegins ==
    ASSUME PutJandy \/ PutPentair
    PROVE  ReaderInv'
<1> SUFFICES ASSUME inStep' PROVE ReaderInv'
    BY DEF ReaderInv
<1>1. PICK zero \in {0} : TRUE
    OBVIOUS
<1>2. CASE PutJandy
    <2>1. PICK f \in JandyFrames : Put(JandyWire(f), JandyPacket(f))
        BY <1>2 DEF PutJandy
    <2>2. PICK pk : pk = JandyPacket(f)
        OBVIOUS
    <2>3. PICK w : w = JandyWire(f)
        OBVIOUS
    <2>4. f \in Seq(Bytes)
        BY FrameIs
    <2>5. PICK pos : w \in Seq(Bytes) /\ WireAt(w, pk, pos)
        BY <2>2, <2>3, <2>4, JandyWireIs
    <2>6. LeftOf(w, w, 1) /\ pos[1] = 1 /\ Len(f) \in Nat
        BY <2>4, <2>5, LeftAtFirst, BytesAreInts, LenProperties DEF WireAt
    <2>7. /\ wire' = w /\ frame' = pk /\ packet' = <<>> /\ started' = "no" /\ ~lastByteDLE'
          /\ preCnt' = 0 /\ dataCnt' = -1
        BY <2>1, <2>2, <2>3 DEF Put, FreshNow, localVars
    <2>8. Primed(w, 1, preCnt')
        BY <2>7 DEF Primed
    <2>9. zero \in 0..(Len(f) + 4) /\ zero + 1 = 1 /\ zero < 2 /\ ~(zero >= 1)
        BY <1>1, <2>6
    <2>10. JandyHas(f, pos, zero, 1)'
        BY <2>2, <2>3, <2>5, <2>6, <2>7, <2>8, <2>9 DEF JandyHas
    <2> QED BY <2>2, <2>7, <2>10 DEF ReaderInv
<1>3. CASE PutPentair
    <2>1. PICK f \in PentairFrames : Put(PentairPacket(f), PentairPacket(f))
        BY <1>3 DEF PutPentair
    <2>2. PICK w : w = PentairPacket(f)
        OBVIOUS
    <2>3. w \in Seq(Int)
        BY <2>2, FrameIs, PentairPacketIs
    <2>4. PICK one : one = 1
        OBVIOUS
    <2>5. LeftOf(w, w, one) /\ one <= 4 /\ one - 1 = 0
        BY <2>3, <2>4, LeftAtFirst
    <2>6. /\ wire' = w /\ frame' = w /\ packet' = <<>> /\ started' = "no" /\ ~lastByteDLE'
          /\ preCnt' = 0 /\ dataCnt' = -1
        BY <2>1, <2>2 DEF Put, FreshNow, localVars
    <2>7. Primed(w, one, preCnt')
        BY <2>4, <2>6 DEF Primed
    <2>8. PentairHas(f, one)'
        BY <2>2, <2>5, <2>6, <2>7 DEF PentairHas
    <2> QED BY <2>2, <2>6, <2>8 DEF ReaderInv
<1> QED BY <1>2, <1>3

(* A byte of it: either the packet is as it was sent, or there is more.     *)
LEMMA ByteIsRead ==
    ASSUME ReaderInv, ReadByte, whole, inStep
    PROVE  IF wire' = <<>> THEN returned' = frame /\ FreshLocals ELSE ReaderInv'
<1>1. wire # <<>> /\ frame' = frame
    BY DEF ReadByte
<1>2. CASE \E f \in JandyFrames : frame = JandyPacket(f) /\ \E pos, n, p : JandyHas(f, pos, n, p)
    <2>1. PICK f \in JandyFrames : frame = JandyPacket(f) /\ \E pos, n, p : JandyHas(f, pos, n, p)
        BY <1>2
    <2>2. PICK pos, n, p : JandyHas(f, pos, n, p)
        BY <2>1
    <2>3. IF wire' = <<>> THEN returned' = JandyPacket(f) /\ FreshLocals
          ELSE \E m, q : JandyHas(f, pos, m, q)'
        BY <1>1, <2>2, JandyByte
    <2> QED BY <1>1, <2>1, <2>3 DEF ReaderInv
<1>3. CASE \E f \in PentairFrames : frame = PentairPacket(f) /\ \E p : PentairHas(f, p)
    <2>1. PICK f \in PentairFrames : frame = PentairPacket(f) /\ \E p : PentairHas(f, p)
        BY <1>3
    <2>2. PICK p : PentairHas(f, p)
        BY <2>1
    <2>3. IF wire' = <<>> THEN returned' = PentairPacket(f) /\ FreshLocals
          ELSE PentairHas(f, p + 1)'
        BY <1>1, <2>2, PentairByte
    <2> QED BY <1>1, <2>1, <2>3 DEF ReaderInv
<1> QED BY <1>1, <1>2, <1>3 DEF ReaderInv

(* What has been read of a frame is what the variables say.                 *)
LEMMA StaysRead ==
    ASSUME ReaderInv, UNCHANGED <<packet, started, lastByteDLE, preCnt, dataCnt>>,
           UNCHANGED <<wire, frame, whole, inStep>>
    PROVE  ReaderInv'
<1>1. ASSUME NEW f, NEW pos, NEW n, NEW p, JandyHas(f, pos, n, p)
      PROVE  JandyHas(f, pos, n, p)'
    BY <1>1 DEF JandyHas
<1>2. ASSUME NEW f, NEW p, PentairHas(f, p)
      PROVE  PentairHas(f, p)'
    BY <1>2 DEF PentairHas
<1> SUFFICES ASSUME whole, inStep, wire # <<>> PROVE ReaderInv'
    BY DEF ReaderInv
<1>3. CASE \E f \in JandyFrames : frame = JandyPacket(f) /\ \E pos, n, p : JandyHas(f, pos, n, p)
    <2>1. PICK f \in JandyFrames : frame = JandyPacket(f) /\ \E pos, n, p : JandyHas(f, pos, n, p)
        BY <1>3
    <2>2. PICK pos, n, p : JandyHas(f, pos, n, p)
        BY <2>1
    <2>3. frame' = JandyPacket(f) /\ JandyHas(f, pos, n, p)'
        BY <1>1, <2>1, <2>2
    <2> QED BY <2>3 DEF ReaderInv
<1>4. CASE \E f \in PentairFrames : frame = PentairPacket(f) /\ \E p : PentairHas(f, p)
    <2>1. PICK f \in PentairFrames : frame = PentairPacket(f) /\ \E p : PentairHas(f, p)
        BY <1>4
    <2>2. PICK p : PentairHas(f, p)
        BY <2>1
    <2>3. frame' = PentairPacket(f) /\ PentairHas(f, p)'
        BY <1>2, <2>1, <2>2
    <2> QED BY <2>3 DEF ReaderInv
<1> QED BY <1>3, <1>4 DEF ReaderInv

(* Only a byte that is read moves the position, and whatever else happens   *)
(* in the middle of a frame is a mishap, or leaves alone what was read.     *)
LEMMA ReaderStep ==
    ASSUME ReaderInv, [ReaderNext]_readerVars
    PROVE  /\ ReaderInv'
           /\ wire # <<>> /\ wire' = <<>> /\ whole' /\ inStep => returned' = frame
<1>1. CASE ReadByte
    <2>1. whole' = whole /\ inStep' = inStep
        BY <1>1 DEF ReadByte, NoTrouble
    <2>2. CASE whole /\ inStep
        <3>1. IF wire' = <<>> THEN returned' = frame /\ FreshLocals ELSE ReaderInv'
            BY <1>1, <2>2, ByteIsRead
        <3>2. wire' = <<>> => ReaderInv'
            BY DEF ReaderInv
        <3> QED BY <3>1, <3>2
    <2>3. CASE ~(whole /\ inStep)
        BY <2>1, <2>3 DEF ReaderInv
    <2> QED BY <2>2, <2>3
<1>2. CASE ReadTimeout
    <2>1. wire' = wire /\ (wire # <<>> => ~whole')
        BY <1>2 DEF ReadTimeout, Trouble
    <2> QED BY <2>1 DEF ReaderInv
<1>3. CASE ReadAgain
    <2>1. CASE Trouble
        <3>1. wire' = wire /\ ~whole'
            BY <1>3, <2>1 DEF ReadAgain, Trouble
        <3> QED BY <3>1 DEF ReaderInv
    <2>2. CASE ~Trouble
        <3>1. /\ UNCHANGED <<packet, started, lastByteDLE, preCnt, dataCnt>>
              /\ UNCHANGED <<wire, frame, whole, inStep>>
            BY <1>3, <2>2 DEF ReadAgain, NoTrouble
        <3> QED BY <3>1, StaysRead
    <2> QED BY <2>1, <2>2
<1>4. CASE PutJandy \/ PutPentair
    <2>1. wire = <<>>
        BY <1>4 DEF PutJandy, PutPentair, Put
    <2> QED BY <1>4, <2>1, PutBegins
<1>5. CASE LoseByte \/ AddByte \/ CutOff
    <2>1. ~whole'
        BY <1>5 DEF LoseByte, AddByte, CutOff, Damage, Trouble
    <2> QED BY <2>1 DEF ReaderInv
<1>6. CASE UNCHANGED readerVars
    <2>1. /\ UNCHANGED <<packet, started, lastByteDLE, preCnt, dataCnt>>
          /\ UNCHANGED <<wire, frame, whole, inStep>>
        BY <1>6 DEF readerVars, localVars
    <2> QED BY <2>1, StaysRead
<1> QED BY <1>1, <1>2, <1>3, <1>4, <1>5, <1>6 DEF ReaderNext

(* A whole frame that begins when get_packet has read nothing else is       *)
(* returned as it was sent: any Jandy frame that fits, with any DLEs in it, *)
(* and any Pentair frame that has the bytes it counts.                      *)
THEOREM ReadsWholeFrames == Spec => InStepIsRead
<1>1. DaemonInit => ReaderInv
    BY PartInits DEF ReaderInit, ReaderInv
<1>2. ReaderInv /\ [DaemonNext]_daemonVars => ReaderInv'
    BY PartSteps, ReaderStep
<1>3. ReaderInv /\ [DaemonNext]_daemonVars =>
        [wire # <<>> /\ wire' = <<>> /\ whole' /\ inStep => returned' = frame]_readerVars
    BY PartSteps, ReaderStep
<1> QED BY <1>1, <1>2, <1>3, PTL DEF Spec, InStepIsRead

-----------------------------------------------------------------------------
(* What the local variables have to do with each other, at any time.        *)
Locals ==
    /\ started \in {"no", "jandy", "pentair"} /\ preCnt \in {-1, 0, 1, 2, 3}
    /\ started = "no" => packet = <<>>
    /\ started # "pentair" => dataCnt = -1
    /\ lastByteDLE => started # "pentair"

(* Nothing has been read, or a Pentair packet has begun; and nothing looks  *)
(* like the beginning of a packet, or one has begun.                        *)
Synced == FreshNow \/ started = "pentair"
Calm == (~lastByteDLE /\ preCnt = 0) \/ started = "pentair"

(* A call of get_packet that begins.                                        *)
LEMMA FreshIs ==
    ASSUME FreshLocals
    PROVE  /\ FreshNow' /\ Synced' /\ Calm' /\ Locals'
           /\ started' = "no" /\ preCnt' = 0 /\ ~lastByteDLE'
BY DEF FreshLocals, FreshNow, Synced, Calm, Locals

(* A byte is read: get_packet returns, or goes on.                          *)
LEMMA ReadIs ==
    ASSUME ReadByte, NEW b, b = Head(wire)
    PROVE  /\ wire # <<>> /\ wire' = Tail(wire) /\ frame' = frame
           /\ whole' = whole /\ inStep' = inStep /\ since' = since
           /\ FreshLocals \/ (GoOn(b) /\ ~Ends(b) /\ ~TooLarge(b))
           /\ ~Ends(b) /\ ~TooLarge(b) => GoOn(b)
<1>1. wire # <<>> /\ wire' = Tail(wire) /\ frame' = frame
    BY DEF ReadByte
<1>2. whole' = whole /\ inStep' = inStep /\ since' = since
    BY DEF ReadByte, NoTrouble
<1>3. CASE TooLarge(b)
    <2>1. Return(<<-4>>)
        BY <1>3 DEF ReadByte
    <2> QED BY <1>1, <1>2, <1>3, <2>1 DEF Return
<1>4. CASE ~TooLarge(b) /\ Ends(b)
    <2>1. Return(Checked(Stored(b)))
        BY <1>4, ReadByteIs
    <2> QED BY <1>1, <1>2, <1>4, <2>1 DEF Return
<1>5. CASE ~TooLarge(b) /\ ~Ends(b)
    <2>1. GoOn(b)
        BY <1>5, ReadByteIs
    <2> QED BY <1>1, <1>2, <1>5, <2>1
<1> QED BY <1>3, <1>4, <1>5

(* What it goes on with.                                                    *)
LEMMA WentOn ==
    ASSUME NEW b, GoOn(b), Locals
    PROVE  /\ Preamble(b) =>
                 /\ packet' = <<PP1, PP2, PP3, PP4>> /\ started' = "pentair" /\ dataCnt' = -1
                 /\ ~lastByteDLE' /\ preCnt' = 3
           /\ ~Preamble(b) =>
                 /\ packet' = (IF Begun(b) = "no" THEN <<>> ELSE Stored(b))
                 /\ started' = Begun(b) /\ dataCnt' = Count(b)
                 /\ lastByteDLE' <=> (b = DLE /\ started # "pentair")
                 /\ preCnt' = IF b = DLE /\ started # "pentair" THEN -1 ELSE PreCount(b)
<1>1. CASE Preamble(b)
    <2>1. b = PP4 /\ b # DLE /\ preCnt = 3
        BY <1>1 DEF Preamble, PP4, DLE
    <2>2. PreCount(b) = 3
        BY <1>1, <2>1 DEF PreCount
    <2> QED BY <1>1, <2>1, <2>2 DEF GoOn
<1>2. CASE ~Preamble(b)
    BY <1>2 DEF GoOn
<1> QED BY <1>1, <1>2

(* The count of the preamble after a byte.                                  *)
LEMMA PreCountIs ==
    ASSUME NEW b, Locals
    PROVE  /\ PreCount(b) \in {-1, 0, 1, 2, 3}
           /\ PreCount(b) = 1 => b = PP1
           /\ b # PP1 /\ ~Preamble(b) /\ ~(b = PP2 /\ preCnt = 1) => PreCount(b) = 0
<1>1. preCnt \in {-1, 0, 1, 2, 3}
    BY DEF Locals
<1>2. b = PP1 \/ b # PP1
    OBVIOUS
<1>3. PP1 = 255 /\ PP2 = 0 /\ PP3 = 255 /\ PP4 = 165
    BY DEF PP1, PP2, PP3, PP4
<1> QED BY <1>1, <1>2, <1>3 DEF PreCount, Preamble

(* A byte keeps what the local variables have to do with each other.        *)
LEMMA LocalsNext ==
    ASSUME Locals, ReadByte
    PROVE  Locals'
<1>1. PICK b : b = Head(wire)
    OBVIOUS
<1>2. FreshLocals \/ GoOn(b)
    BY <1>1, ReadIs
<1>3. CASE FreshLocals
    BY <1>3, FreshIs
<1>4. CASE GoOn(b) /\ Preamble(b)
    <2>1. started' = "pentair" /\ ~lastByteDLE' /\ preCnt' = 3
        BY <1>4, WentOn
    <2> QED BY <2>1 DEF Locals
<1>5. CASE GoOn(b) /\ ~Preamble(b)
    <2>1. /\ packet' = (IF Begun(b) = "no" THEN <<>> ELSE Stored(b))
          /\ started' = Begun(b) /\ dataCnt' = Count(b)
          /\ lastByteDLE' <=> (b = DLE /\ started # "pentair")
          /\ preCnt' = IF b = DLE /\ started # "pentair" THEN -1 ELSE PreCount(b)
        BY <1>5, WentOn
    <2>2. preCnt' \in {-1, 0, 1, 2, 3}
        BY <2>1, PreCountIs
    <2>3. /\ Begun(b) \in {"no", "jandy", "pentair"}
          /\ Begun(b) # "pentair" => started # "pentair"
          /\ started # "pentair" => Begun(b) # "pentair"
        BY DEF Begun, Locals
    <2>4. started # "pentair" => Count(b) = -1
        BY DEF Count, Locals
    <2> QED BY <2>1, <2>2, <2>3, <2>4 DEF Locals
<1> QED BY <1>2, <1>3, <1>4, <1>5

-----------------------------------------------------------------------------
(* A Jandy frame that began at any time: its p-th byte comes next, and the  *)
(* DLE before the last one has been seen.                                   *)
JandyComes(f, p) ==
    /\ LeftOf(wire, JandyWire(f), p)
    /\ p = Len(JandyWire(f)) => (started = "jandy" => lastByteDLE)

(* The last two bytes of a Jandy frame.                                     *)
LEMMA JandyTail ==
    ASSUME NEW f \in JandyFrames, NEW w, w = JandyWire(f)
    PROVE  /\ w \in Seq(Int) /\ Len(w) \in Nat /\ Len(w) >= 2
           /\ w[Len(w) - 1] = DLE /\ w[Len(w)] = ETX
<1>1. f \in Seq(Bytes)
    BY FrameIs
<1>2. PICK pk : pk = JandyPacket(f)
    OBVIOUS
<1>3. /\ pk \in Seq(Bytes) /\ Len(f) \in Nat /\ Len(pk) = Len(f) + 5
      /\ pk[Len(f) + 4] = DLE /\ pk[Len(f) + 5] = ETX
    BY <1>1, <1>2, JandyPacketIs
<1>4. PICK pos : w \in Seq(Bytes) /\ WireAt(w, pk, pos)
    BY <1>1, <1>2, JandyWireIs
<1>5. w \in Seq(Int) /\ Len(w) \in Nat
    BY <1>4, BytesAreInts, LenProperties
<1>6. PICK n \in Nat : n = Len(f) + 4
    BY <1>3
<1>7. n \in 1..(Len(pk) - 1) /\ n + 1 = Len(pk) /\ n \in 1..Len(pk) /\ n + 1 \in 1..Len(pk)
      /\ n + 1 = Len(f) + 5 /\ ~(n <= Len(pk) - 3)
    BY <1>3, <1>6
<1>8. ~DleInside(pk, n)
    BY <1>7 DEF DleInside
<1>9. /\ pos[n] \in 1..Len(w) /\ pos[n + 1] = pos[n] + 1 /\ pos[n + 1] = Len(w)
      /\ w[pos[n]] = pk[n] /\ w[pos[n + 1]] = pk[n + 1]
    BY <1>4, <1>7, <1>8 DEF WireAt
<1>10. Len(w) >= 2 /\ pos[n] = Len(w) - 1
    BY <1>5, <1>9
<1> QED BY <1>3, <1>5, <1>6, <1>7, <1>9, <1>10

(* A byte of it: at its end get_packet has read nothing else, or is in a    *)
(* Pentair packet.                                                          *)
LEMMA JandyComesNext ==
    ASSUME NEW f \in JandyFrames, NEW p, JandyComes(f, p), Locals, ReadByte
    PROVE  IF wire' = <<>> THEN Synced' ELSE JandyComes(f, p + 1)'
<1>1. PICK w : w = JandyWire(f)
    OBVIOUS
<1>2. /\ w \in Seq(Int) /\ Len(w) \in Nat /\ Len(w) >= 2
      /\ w[Len(w) - 1] = DLE /\ w[Len(w)] = ETX
    BY <1>1, JandyTail
<1>3. PICK b : b = Head(wire)
    OBVIOUS
<1>4. wire # <<>> /\ wire' = Tail(wire) /\ (FreshLocals \/ (GoOn(b) /\ ~Ends(b)))
    BY <1>3, ReadIs
<1>5. LeftOf(wire, w, p) /\ (p = Len(w) => (started = "jandy" => lastByteDLE))
    BY <1>1 DEF JandyComes
<1>6. /\ p \in 1..Len(w) /\ b = w[p] /\ LeftOf(wire', w, p + 1)
      /\ (wire' = <<>> <=> p = Len(w))
    BY <1>2, <1>3, <1>4, <1>5, LeftNext
<1>7. CASE FreshLocals
    <2>1. Synced' /\ started' = "no"
        BY <1>7, FreshIs
    <2> QED BY <1>1, <1>6, <2>1 DEF JandyComes
<1>8. CASE GoOn(b) /\ ~Ends(b) /\ p # Len(w)
    <2>1. ASSUME p + 1 = Len(w), started' = "jandy" PROVE lastByteDLE'
        <3>1. p = Len(w) - 1
            BY <1>2, <1>6, <2>1
        <3>2. b = DLE /\ ~Preamble(b)
            BY <1>2, <1>6, <3>1 DEF Preamble, DLE, PP4
        <3>3. started' = Begun(b) /\ (lastByteDLE' <=> (b = DLE /\ started # "pentair"))
            BY <1>8, <3>2, WentOn
        <3>4. Begun(b) = started
            BY <3>2 DEF Begun, DLE, STX
        <3> QED BY <2>1, <3>2, <3>3, <3>4
    <2> QED BY <1>1, <1>6, <1>8, <2>1 DEF JandyComes
<1>9. CASE GoOn(b) /\ ~Ends(b) /\ p = Len(w)
    <2>1. b = ETX /\ b # DLE /\ b # STX /\ b # PP1 /\ b # PP2 /\ ~Preamble(b)
        BY <1>2, <1>6, <1>9 DEF Preamble, DLE, STX, ETX, PP1, PP2, PP4
    <2>2. /\ packet' = (IF Begun(b) = "no" THEN <<>> ELSE Stored(b))
          /\ started' = Begun(b) /\ dataCnt' = Count(b)
          /\ lastByteDLE' <=> (b = DLE /\ started # "pentair")
          /\ preCnt' = IF b = DLE /\ started # "pentair" THEN -1 ELSE PreCount(b)
        BY <1>9, <2>1, WentOn
    <2>3. Begun(b) = started
        BY <2>1 DEF Begun
    <2>4. started # "jandy"
        BY <1>5, <1>9, <2>1 DEF Ends
    <2>5. PreCount(b) = 0
        BY <2>1, PreCountIs
    <2>6. started = "no" => Count(b) = -1
        BY DEF Count, Locals
    <2>7. started \in {"no", "pentair"}
        BY <2>4 DEF Locals
    <2>8. Synced'
        BY <2>1, <2>2, <2>3, <2>5, <2>6, <2>7 DEF Synced, FreshNow
    <2> QED BY <1>6, <1>9, <2>8
<1> QED BY <1>4, <1>7, <1>8, <1>9

(* The last byte of a plain Pentair packet leaves no count of a preamble.   *)
LEMMA PlainEnd ==
    ASSUME PlainFrames, NEW f \in PentairFrames, NEW w, w = PentairPacket(f),
           NEW p, p = Len(w), NEW b, b = w[p],
           Locals, preCnt = 1 => w[p - 1] = PP1
    PROVE  b # DLE /\ (~Preamble(b) => PreCount(b) = 0)
<1>1. b # DLE /\ b # PP1 /\ ~(w[p - 1] = PP1 /\ b = PP2)
    BY DEF PlainFrames
<1>2. ~(b = PP2 /\ preCnt = 1)
    BY <1>1
<1> QED BY <1>1, <1>2, PreCountIs

(* A Pentair packet that began at any time: its p-th byte comes next.       *)
PentairComes(f, p) ==
    /\ LeftOf(wire, PentairPacket(f), p)
    /\ preCnt = 1 /\ p >= 2 => PentairPacket(f)[p - 1] = PP1

(* What is assumed of it.                                                   *)
LEMMA PentairWire ==
    ASSUME NEW f \in PentairFrames, NEW w, w = PentairPacket(f)
    PROVE  /\ w \in Seq(Int) /\ Len(w) \in Nat /\ Len(w) >= 11
           /\ Len(w) < MaxPacket /\ MaxPacket \in Nat
           /\ w[1] = PP1 /\ w[2] = PP2 /\ w[3] = PP3 /\ w[4] = PP4
           /\ \A i \in 1..Len(w) : PreambleAt(w, i) => i = 4
<1>1. /\ f \in Seq(Bytes) /\ Len(f) >= 5 /\ Len(f) = f[5] + 5 /\ Len(f) + 6 < MaxPacket
      /\ MaxPacket \in Nat /\ \A i \in 1..Len(w) : PreambleAt(w, i) => i = 4
    BY FrameIs
<1>2. /\ w \in Seq(Int) /\ Len(w) = Len(f) + 6 /\ Len(f) \in Nat
      /\ w[1] = PP1 /\ w[2] = PP2 /\ w[3] = PP3 /\ w[4] = PP4
    BY <1>1, PentairPacketIs
<1> QED BY <1>1, <1>2, SMTT(30)

(* A byte of it: at the end of a plain one, nothing looks like the beginning*)
(* of a packet.                                                             *)
LEMMA PentairComesNext ==
    ASSUME NEW f \in PentairFrames, NEW p, PentairComes(f, p), Locals, ReadByte
    PROVE  IF wire' = <<>> THEN PlainFrames => Calm' ELSE PentairComes(f, p + 1)'
<1>1. PICK w : w = PentairPacket(f)
    OBVIOUS
<1>2. w \in Seq(Int) /\ Len(w) \in Nat /\ Len(w) >= 11
    BY <1>1, PentairWire
<1>3. PICK b : b = Head(wire)
    OBVIOUS
<1>4. wire # <<>> /\ wire' = Tail(wire) /\ (FreshLocals \/ GoOn(b))
    BY <1>3, ReadIs
<1>5. LeftOf(wire, w, p) /\ (preCnt = 1 /\ p >= 2 => w[p - 1] = PP1)
    BY <1>1 DEF PentairComes
<1>6. /\ p \in 1..Len(w) /\ b = w[p] /\ LeftOf(wire', w, p + 1)
      /\ (wire' = <<>> <=> p = Len(w))
    BY <1>2, <1>3, <1>4, <1>5, LeftNext
<1>7. CASE FreshLocals
    <2>1. Calm' /\ preCnt' = 0
        BY <1>7, FreshIs
    <2> QED BY <1>1, <1>6, <2>1 DEF PentairComes
<1>8. CASE GoOn(b) /\ p # Len(w)
    <2>1. ASSUME preCnt' = 1 PROVE b = PP1
        <3>1. ~Preamble(b)
            BY <1>8, <2>1, WentOn
        <3>2. PreCount(b) = 1
            BY <1>8, <2>1, <3>1, WentOn
        <3> QED BY <3>2, PreCountIs
    <2>2. (p + 1) - 1 = p
        BY <1>2, <1>6
    <2>3. preCnt' = 1 /\ p + 1 >= 2 => w[(p + 1) - 1] = PP1
        BY <1>6, <2>1, <2>2
    <2> QED BY <1>1, <1>6, <1>8, <2>3 DEF PentairComes
<1>9. CASE GoOn(b) /\ p = Len(w)
    <2>1. ASSUME PlainFrames PROVE Calm'
        <3>1. preCnt = 1 => w[p - 1] = PP1
            BY <1>2, <1>5, <1>9
        <3>2. b # DLE /\ (~Preamble(b) => PreCount(b) = 0)
            BY <1>1, <1>6, <1>9, <2>1, <3>1, PlainEnd
        <3>3. CASE Preamble(b)
            <4>1. started' = "pentair"
                BY <1>9, <3>3, WentOn
            <4> QED BY <4>1 DEF Calm
        <3>4. CASE ~Preamble(b)
            <4>1. /\ lastByteDLE' <=> (b = DLE /\ started # "pentair")
                  /\ preCnt' = IF b = DLE /\ started # "pentair" THEN -1 ELSE PreCount(b)
                BY <1>9, <3>4, WentOn
            <4> QED BY <3>2, <3>4, <4>1 DEF Calm
        <3> QED BY <3>3, <3>4
    <2> QED BY <1>6, <1>9, <2>1
<1> QED BY <1>4, <1>7, <1>8, <1>9

-----------------------------------------------------------------------------
(* A Pentair packet that began while nothing looked like the beginning of a *)
(* packet, though get_packet may have been in a Jandy one, and of which the *)
(* preamble is yet to be found, or has been missed.                         *)
Unfound(f, p) ==
    /\ LeftOf(wire, PentairPacket(f), p) /\ Primed(PentairPacket(f), p, preCnt)
    /\ IF p <= 4 THEN /\ ~lastByteDLE /\ started \in {"no", "jandy"}
                      /\ started = "jandy" => preCnt = p - 1
       ELSE started = "no" /\ (lastByteDLE => PentairPacket(f)[p - 1] = DLE)

(* Or it has been found, as if it had begun in step.                        *)
Catches(f, p) == Unfound(f, p) \/ (PentairHas(f, p) /\ ~(p <= 4))

(* A byte before the last one of the preamble.                              *)
LEMMA PreambleComes ==
    ASSUME NEW f \in PentairFrames, NEW p, Unfound(f, p), Locals, ReadByte, p <= 3
    PROVE  wire' # <<>> /\ Unfound(f, p + 1)'
<1>1. PICK w : w = PentairPacket(f)
    OBVIOUS
<1>2. /\ w \in Seq(Int) /\ Len(w) \in Nat /\ Len(w) >= 11
      /\ w[1] = PP1 /\ w[2] = PP2 /\ w[3] = PP3 /\ w[4] = PP4
    BY <1>1, PentairWire
<1>3. PICK b : b = Head(wire)
    OBVIOUS
<1>4. wire # <<>> /\ wire' = Tail(wire) /\ (FreshLocals \/ GoOn(b))
    BY <1>3, ReadIs
<1>5. /\ LeftOf(wire, w, p) /\ Primed(w, p, preCnt)
      /\ ~lastByteDLE /\ started \in {"no", "jandy"} /\ (started = "jandy" => preCnt = p - 1)
    <2>1. LeftOf(wire, w, p)
        BY <1>1 DEF Unfound
    <2>2. p <= 4
        BY <1>2, <2>1 DEF LeftOf
    <2> QED BY <1>1, <2>2 DEF Unfound
<1>6. /\ p \in 1..Len(w) /\ b = w[p] /\ LeftOf(wire', w, p + 1)
      /\ (wire' = <<>> <=> p = Len(w))
    BY <1>2, <1>3, <1>4, <1>5, LeftNext
<1>7. p \in {1, 2, 3} /\ wire' # <<>> /\ p + 1 <= 4 /\ p = (p + 1) - 1 /\ p \in Nat /\ p >= 1
    BY <1>2, <1>6
<1>8. b # DLE /\ ~Preamble(b)
    BY <1>2, <1>6, <1>7, SMTT(30) DEF Preamble, DLE, PP1, PP2, PP3, PP4
<1>9. CASE FreshLocals
    <2>1. started' = "no" /\ preCnt' = 0 /\ ~lastByteDLE'
        BY <1>9, FreshIs
    <2>2. Primed(w, p + 1, preCnt')
        BY <2>1 DEF Primed
    <2> QED BY <1>1, <1>6, <1>7, <2>1, <2>2 DEF Unfound
<1>10. CASE GoOn(b)
    <2>1. /\ started' = Begun(b) /\ preCnt' = PreCount(b) /\ ~lastByteDLE'
        BY <1>8, <1>10, WentOn
    <2>2. Begun(b) = started
        BY <1>5 DEF Begun
    <2>3. Primed(w, p + 1, preCnt')
        BY <1>5, <1>6, <1>7, <2>1, PrimedNext
    <2>4. ASSUME preCnt = p - 1 PROVE PreCount(b) = p
        <3>1. CASE p = 1
            BY <1>2, <1>6, <2>4, <3>1 DEF PreCount
        <3>2. CASE p = 2
            BY <1>2, <1>6, <2>4, <3>2 DEF PreCount, PP1, PP2
        <3>3. CASE p = 3
            BY <1>2, <1>6, <2>4, <3>3 DEF PreCount
        <3> QED BY <1>7, <3>1, <3>2, <3>3
    <2> QED BY <1>1, <1>5, <1>6, <1>7, <2>1, <2>2, <2>3, <2>4 DEF Unfound
<1> QED BY <1>4, <1>9, <1>10

(* Its last one: the packet is found, or missed with nothing else begun.    *)
LEMMA PreambleEnds ==
    ASSUME NEW f \in PentairFrames, NEW p, Unfound(f, p), Locals, ReadByte, p = 4
    PROVE  wire' # <<>> /\ Catches(f, p + 1)'
<1>1. PICK w : w = PentairPacket(f)
    OBVIOUS
<1>2. /\ w \in Seq(Int) /\ Len(w) \in Nat /\ Len(w) >= 11
      /\ w[1] = PP1 /\ w[2] = PP2 /\ w[3] = PP3 /\ w[4] = PP4
    BY <1>1, PentairWire
<1>3. PICK b : b = Head(wire)
    OBVIOUS
<1>4. /\ wire # <<>> /\ wire' = Tail(wire) /\ (FreshLocals \/ GoOn(b))
      /\ ~Ends(b) /\ ~TooLarge(b) => GoOn(b)
    BY <1>3, ReadIs
<1>5. /\ LeftOf(wire, w, p) /\ Primed(w, p, preCnt)
      /\ ~lastByteDLE /\ started \in {"no", "jandy"} /\ (started = "jandy" => preCnt = 3)
    BY <1>1 DEF Unfound
<1>6. /\ p \in 1..Len(w) /\ b = w[p] /\ LeftOf(wire', w, p + 1)
      /\ (wire' = <<>> <=> p = Len(w))
    BY <1>2, <1>3, <1>4, <1>5, LeftNext
<1>7. /\ b = PP4 /\ b # DLE /\ wire' # <<>> /\ p \in Nat /\ p >= 1
      /\ ~(p + 1 <= 4) /\ ~(p + 1 >= 10) /\ (p + 1) - 1 = 4
    <2>1. b = PP4
        BY <1>2, <1>6
    <2>2. p # Len(w)
        <3>1. PICK n \in Nat : n = Len(w)
            BY <1>2
        <3>2. n >= 11
            BY <1>2, <3>1
        <3>3. n # 4
            BY <3>2
        <3> QED BY <3>1, <3>3
    <2> QED BY <1>6, <2>1, <2>2 DEF DLE, PP4
<1>8. CASE preCnt = 3
    <2>1. Preamble(b)
        BY <1>7, <1>8 DEF Preamble
    <2>2. ~Ends(b)
        BY <1>5 DEF Ends
    <2>3. GoOn(b)
        BY <1>4, <2>1, <2>2 DEF TooLarge
    <2>4. /\ packet' = <<PP1, PP2, PP3, PP4>> /\ started' = "pentair" /\ dataCnt' = -1
          /\ ~lastByteDLE' /\ preCnt' = 3
        BY <2>1, <2>3, WentOn
    <2>5. Primed(w, p + 1, preCnt')
        <3>1. PreCount(b) = 3
            BY <1>8, <2>1, <1>7 DEF PreCount, PP1, PP2, PP3, PP4
        <3> QED BY <1>5, <1>6, <1>7, <2>4, <3>1, PrimedNext
    <2>6. FirstOf(packet', w, (p + 1) - 1)
        <3>1. PICK d : d = <<PP1, PP2, PP3, PP4>>
            OBVIOUS
        <3>2. d \in Seq(Int) /\ Len(d) = 4 /\ d[1] = PP1 /\ d[2] = PP2 /\ d[3] = PP3 /\ d[4] = PP4
            BY <3>1 DEF PP1, PP2, PP3, PP4
        <3>3. \A j \in 1..4 : j \in {1, 2, 3, 4}
            OBVIOUS
        <3>4. 4 <= Len(w) /\ \A j \in 1..4 : d[j] = w[j]
            BY <1>2, <3>2, <3>3
        <3>5. FirstOf(d, w, 4)
            BY <3>2, <3>4 DEF FirstOf
        <3> QED BY <1>7, <2>4, <3>1, <3>5
    <2>7. IF p + 1 <= 4
          THEN packet' = <<>> /\ started' = "no" /\ preCnt' = (p + 1) - 1 /\ dataCnt' = -1
          ELSE /\ FirstOf(packet', w, (p + 1) - 1) /\ started' = "pentair"
               /\ dataCnt' = IF p + 1 >= 10 THEN w[9] ELSE -1
        BY <1>7, <2>4, <2>6
    <2>8. PentairHas(f, p + 1)'
        BY <1>1, <1>6, <2>4, <2>5, <2>7 DEF PentairHas
    <2> QED BY <1>7, <2>8 DEF Catches
<1>9. CASE preCnt # 3
    <2>1. started = "no" /\ ~Preamble(b)
        BY <1>5, <1>9 DEF Preamble
    <2>2. CASE FreshLocals
        <3>1. started' = "no" /\ preCnt' = 0 /\ ~lastByteDLE'
            BY <2>2, FreshIs
        <3>2. Primed(w, p + 1, preCnt')
            BY <3>1 DEF Primed
        <3>3. Unfound(f, p + 1)'
            BY <1>1, <1>6, <1>7, <3>1, <3>2 DEF Unfound
        <3> QED BY <1>7, <3>3 DEF Catches
    <2>3. CASE GoOn(b)
        <3>1. started' = Begun(b) /\ preCnt' = PreCount(b) /\ ~lastByteDLE'
            BY <1>7, <2>1, <2>3, WentOn
        <3>2. Begun(b) = "no"
            BY <1>5, <2>1 DEF Begun
        <3>3. Primed(w, p + 1, preCnt')
            BY <1>5, <1>6, <1>7, <3>1, PrimedNext
        <3>4. Unfound(f, p + 1)'
            BY <1>1, <1>6, <1>7, <3>1, <3>2, <3>3 DEF Unfound
        <3> QED BY <1>7, <3>4 DEF Catches
    <2> QED BY <1>4, <2>2, <2>3
<1> QED BY <1>8, <1>9

(* A byte of a plain packet that was missed.                                *)
LEMMA MissedNext ==
    ASSUME PlainFrames, NEW f \in PentairFrames, NEW p, Unfound(f, p), Locals, ReadByte, ~(p <= 4)
    PROVE  IF wire' = <<>> THEN Synced' ELSE Unfound(f, p + 1)'
<1>1. PICK w : w = PentairPacket(f)
    OBVIOUS
<1>2. /\ w \in Seq(Int) /\ Len(w) \in Nat /\ Len(w) >= 11
      /\ \A i \in 1..Len(w) : PreambleAt(w, i) => i = 4
    BY <1>1, PentairWire
<1>3. PICK b : b = Head(wire)
    OBVIOUS
<1>4. wire # <<>> /\ wire' = Tail(wire) /\ (FreshLocals \/ GoOn(b))
    BY <1>3, ReadIs
<1>5. /\ LeftOf(wire, w, p) /\ Primed(w, p, preCnt)
      /\ started = "no" /\ (lastByteDLE => w[p - 1] = DLE)
    BY <1>1 DEF Unfound
<1>6. /\ p \in 1..Len(w) /\ b = w[p] /\ LeftOf(wire', w, p + 1)
      /\ (wire' = <<>> <=> p = Len(w))
    BY <1>2, <1>3, <1>4, <1>5, LeftNext
<1>7. p \in Nat /\ p >= 1 /\ p # 4 /\ ~(p + 1 <= 4) /\ (p + 1) - 1 = p /\ p - 1 \in 1..(Len(w) - 1)
      /\ (p - 1) + 1 = p
    BY <1>2, <1>6
<1>8. CASE FreshLocals
    <2>1. Synced' /\ started' = "no" /\ preCnt' = 0 /\ ~lastByteDLE'
        BY <1>8, FreshIs
    <2>2. Primed(w, p + 1, preCnt')
        BY <2>1 DEF Primed
    <2>3. Unfound(f, p + 1)'
        BY <1>1, <1>6, <1>7, <2>1, <2>2 DEF Unfound
    <2> QED BY <2>1, <2>3
<1>9. CASE GoOn(b)
    <2>1. ~Preamble(b)
        <3>1. Preamble(w[p]) => PreambleAt(w, p)
            <4>1. -1 = -1 \/ -1 = PreCount(w[p])
                OBVIOUS
            <4> QED BY <1>5, <1>7, <4>1, PrimedNext
        <3> QED BY <1>2, <1>6, <1>7, <3>1
    <2>2. /\ packet' = (IF Begun(b) = "no" THEN <<>> ELSE Stored(b))
          /\ started' = Begun(b) /\ dataCnt' = Count(b)
          /\ lastByteDLE' <=> (b = DLE /\ started # "pentair")
          /\ preCnt' = IF b = DLE /\ started # "pentair" THEN -1 ELSE PreCount(b)
        BY <1>9, <2>1, WentOn
    <2>3. ~(w[p - 1] = DLE /\ w[p] = STX)
        <3>1. \A i \in 1..(Len(w) - 1) : ~(w[i] = DLE /\ w[i + 1] = STX)
            BY <1>1 DEF PlainFrames
        <3> QED BY <1>7, <3>1
    <2>4. Begun(b) = "no"
        BY <1>5, <1>6, <2>3 DEF Begun
    <2>5. Count(b) = -1
        BY <1>5 DEF Count, Locals
    <2>6. Primed(w, p + 1, preCnt')
        <3>1. preCnt' = -1 \/ preCnt' = PreCount(w[p])
            BY <1>6, <2>2
        <3> QED BY <1>5, <1>7, <3>1, PrimedNext
    <2>7. Unfound(f, p + 1)'
        BY <1>1, <1>6, <1>7, <2>2, <2>4, <2>6 DEF Unfound
    <2>8. ASSUME wire' = <<>> PROVE Synced'
        <3>1. p = Len(w) /\ (preCnt = 1 => w[p - 1] = PP1)
            BY <1>5, <1>6, <2>8 DEF Primed
        <3>2. b # DLE /\ PreCount(b) = 0
            BY <1>1, <1>6, <2>1, <3>1, PlainEnd
        <3> QED BY <2>2, <2>4, <2>5, <3>2 DEF Synced, FreshNow
    <2> QED BY <2>7, <2>8
<1> QED BY <1>4, <1>8, <1>9

(* A byte of a plain packet, found or not.                                  *)
LEMMA CatchesNext ==
    ASSUME PlainFrames, NEW f \in PentairFrames, NEW p, Catches(f, p), Locals, ReadByte
    PROVE  IF wire' = <<>> THEN Synced' ELSE Catches(f, p + 1)'
<1>1. wire # <<>>
    BY DEF ReadByte
<1>2. CASE PentairHas(f, p) /\ ~(p <= 4)
    <2>1. IF wire' = <<>> THEN FreshLocals ELSE PentairHas(f, p + 1)'
        BY <1>1, <1>2, PentairGoesOn
    <2>2. ~(p + 1 <= 4)
        <3>1. p \in Int
            BY <1>2 DEF PentairHas, LeftOf
        <3> QED BY <1>2, <3>1
    <2>3. FreshLocals => Synced'
        BY FreshIs
    <2> QED BY <2>1, <2>2, <2>3 DEF Catches
<1>3. CASE Unfound(f, p) /\ p <= 3
    BY <1>3, PreambleComes DEF Catches
<1>4. CASE Unfound(f, p) /\ p = 4
    BY <1>4, PreambleEnds
<1>5. CASE Unfound(f, p) /\ ~(p <= 4)
    BY <1>5, MissedNext DEF Catches
<1>6. Unfound(f, p) => p <= 3 \/ p = 4 \/ ~(p <= 4)
    <2>1. ASSUME Unfound(f, p) PROVE p \in Int
        BY <2>1 DEF Unfound, LeftOf
    <2> QED BY <2>1
<1> QED BY <1>2, <1>3, <1>4, <1>5, <1>6 DEF Catches

-----------------------------------------------------------------------------
(* Where get_packet is between two frames, of which the last one was whole, *)
(* and in a whole one.                                                      *)
OfJandy == \E f \in JandyFrames : frame = JandyPacket(f)
BetweenFrames ==
    wire = <<>> /\ whole =>
        /\ inStep => FreshNow
        /\ OfJandy => Synced
        /\ PlainFrames =>
              (since = 0 => Calm) /\ (since = 1 => Synced) /\ (since = 2 => FreshNow)
JandyOnWire == \E f \in JandyFrames : frame = JandyPacket(f) /\ \E p : JandyComes(f, p)
PentairOnWire ==
    \E f \in PentairFrames :
        /\ frame = PentairPacket(f) /\ \E p : PentairComes(f, p)
        /\ PlainFrames /\ since = 1 => \E p : Catches(f, p)
InFrame ==
    wire # <<>> /\ whole =>
        /\ JandyOnWire \/ PentairOnWire
        /\ PlainFrames /\ since = 2 => inStep
SinceCounted == since \in {0, 1, 2} /\ (~whole => since = 0)
SyncInv == ReaderInv /\ Locals /\ SinceCounted /\ BetweenFrames /\ InFrame

(* A Pentair packet is not a Jandy packet.                                  *)
LEMMA TheyDiffer ==
    ASSUME NEW f \in PentairFrames, frame = PentairPacket(f)
    PROVE  ~OfJandy
<1> SUFFICES ASSUME NEW g \in JandyFrames, frame = JandyPacket(g) PROVE FALSE
    BY DEF OfJandy
<1>1. PICK w : w = frame
    OBVIOUS
<1>2. w[1] = PP1
    BY <1>1, PentairWire
<1>3. w[1] = DLE
    BY <1>1, FrameIs, JandyPacketIs
<1> QED BY <1>2, <1>3 DEF DLE, PP1

(* A byte of a whole frame.                                                 *)
LEMMA ByteSyncs ==
    ASSUME SyncInv, ReadByte, whole
    PROVE  BetweenFrames' /\ InFrame'
<1>1. /\ wire # <<>> /\ frame' = frame /\ whole' = whole /\ inStep' = inStep /\ since' = since
    BY ReadIs
<1>2. ReaderInv /\ Locals /\ SinceCounted /\ (PlainFrames /\ since = 2 => inStep)
      /\ (JandyOnWire \/ PentairOnWire)
    BY <1>1 DEF SyncInv, InFrame
<1>3. inStep /\ wire' = <<>> => FreshNow'
    BY <1>2, ByteIsRead, FreshIs
<1>4. PlainFrames /\ since' = 2 /\ wire' = <<>> => FreshNow'
    BY <1>1, <1>2, <1>3
<1>5. CASE JandyOnWire
    <2>1. PICK f \in JandyFrames : frame = JandyPacket(f) /\ \E p : JandyComes(f, p)
        BY <1>5 DEF JandyOnWire
    <2> PICK p : JandyComes(f, p)
        BY <2>1
    <2>2. IF wire' = <<>> THEN Synced' ELSE JandyComes(f, p + 1)'
        BY <1>2, <2>1, JandyComesNext
    <2>3. CASE wire' = <<>>
        <3>1. Synced' /\ Calm'
            BY <2>2, <2>3 DEF Synced, Calm, FreshNow
        <3> QED BY <1>1, <1>3, <1>4, <2>3, <3>1 DEF BetweenFrames, InFrame
    <2>4. CASE wire' # <<>>
        <3>1. JandyOnWire'
            BY <1>1, <2>1, <2>2, <2>4 DEF JandyOnWire
        <3> QED BY <1>1, <1>2, <2>4, <3>1 DEF BetweenFrames, InFrame
    <2> QED BY <2>3, <2>4
<1>6. CASE PentairOnWire
    <2>1. PICK f \in PentairFrames :
              /\ frame = PentairPacket(f) /\ \E p : PentairComes(f, p)
              /\ PlainFrames /\ since = 1 => \E p : Catches(f, p)
        BY <1>6 DEF PentairOnWire
    <2>2. PICK p : PentairComes(f, p)
        BY <2>1
    <2>3. IF wire' = <<>> THEN PlainFrames => Calm' ELSE PentairComes(f, p + 1)'
        BY <1>2, <2>2, PentairComesNext
    <2>4. ASSUME PlainFrames, since = 1
          PROVE  IF wire' = <<>> THEN Synced' ELSE \E q : Catches(f, q)'
        <3>1. PICK q : Catches(f, q)
            BY <2>1, <2>4
        <3>2. IF wire' = <<>> THEN Synced' ELSE Catches(f, q + 1)'
            BY <1>2, <2>4, <3>1, CatchesNext
        <3> QED BY <3>2
    <2>5. CASE wire' = <<>>
        <3>1. ~OfJandy'
            <4>1. ~OfJandy
                BY <2>1, TheyDiffer
            <4> QED BY <1>1, <4>1 DEF OfJandy
        <3> QED BY <1>1, <1>3, <1>4, <2>3, <2>4, <2>5, <3>1 DEF BetweenFrames, InFrame
    <2>6. CASE wire' # <<>>
        <3>1. PentairOnWire'
            BY <1>1, <2>1, <2>3, <2>4, <2>6 DEF PentairOnWire
        <3> QED BY <1>1, <1>2, <2>6, <3>1 DEF BetweenFrames, InFrame
    <2> QED BY <2>5, <2>6
<1> QED BY <1>2, <1>5, <1>6

(* What a frame that is sent begins with.                                   *)
LEMMA PutStarts ==
    ASSUME SyncInv, NEW w, NEW pk, Put(w, pk)
    PROVE  /\ wire = <<>> /\ wire' = w /\ frame' = pk /\ whole' /\ (inStep' <=> FreshNow)
           /\ packet' = packet /\ started' = started /\ (lastByteDLE' <=> lastByteDLE)
           /\ preCnt' = preCnt /\ dataCnt' = dataCnt
           /\ Locals' /\ SinceCounted'
           /\ PlainFrames /\ since' = 2 => FreshNow
           /\ PlainFrames /\ since' = 1 => Calm /\ started # "pentair"
<1>1. /\ wire = <<>> /\ wire' = w /\ frame' = pk /\ whole' = TRUE /\ inStep' = FreshNow
      /\ since' = IF started = "pentair" THEN 0 ELSE IF whole /\ since < 2 THEN since + 1 ELSE since
      /\ packet' = packet /\ started' = started /\ lastByteDLE' = lastByteDLE
      /\ preCnt' = preCnt /\ dataCnt' = dataCnt
    BY DEF Put, localVars
<1>2. Locals /\ since \in {0, 1, 2} /\ (~whole => since = 0)
    BY DEF SyncInv, SinceCounted
<1>3. Locals'
    BY <1>1, <1>2 DEF Locals
<1>4. SinceCounted'
    BY <1>1, <1>2 DEF SinceCounted
<1>5. PlainFrames /\ whole =>
          (since = 0 => Calm) /\ (since = 1 => Synced) /\ (since = 2 => FreshNow)
    BY <1>1 DEF SyncInv, BetweenFrames
<1>6. ASSUME PlainFrames, since' = 2 PROVE FreshNow
    <2>1. started # "pentair" /\ whole /\ since \in {1, 2}
        BY <1>1, <1>2, <1>6
    <2> QED BY <1>5, <1>6, <2>1 DEF Synced
<1>7. ASSUME PlainFrames, since' = 1 PROVE Calm /\ started # "pentair"
    <2>1. started # "pentair" /\ whole /\ since = 0
        BY <1>1, <1>2, <1>7
    <2> QED BY <1>5, <1>7, <2>1
<1> QED BY <1>1, <1>3, <1>4, <1>6, <1>7

(* A frame that is sent.                                                    *)
LEMMA PutSyncs ==
    ASSUME SyncInv, PutJandy \/ PutPentair
    PROVE  SyncInv'
<1>1. ReaderInv'
    BY PutBegins
<1>2. PICK one \in {1} : TRUE
    OBVIOUS
<1>3. CASE PutJandy
    <2>1. PICK f \in JandyFrames : Put(JandyWire(f), JandyPacket(f))
        BY <1>3 DEF PutJandy
    <2>2. PICK w : w = JandyWire(f)
        OBVIOUS
    <2>3. w \in Seq(Int) /\ Len(w) \in Nat /\ Len(w) >= 2
        BY <2>2, JandyTail
    <2>4. LeftOf(w, w, 1) /\ w # <<>>
        BY <2>3, LeftAtFirst, EmptySeq
    <2>5. /\ wire' = w /\ frame' = JandyPacket(f) /\ Locals' /\ SinceCounted'
          /\ (PlainFrames /\ since' = 2 => inStep')
        BY <2>1, <2>2, PutStarts
    <2>6. one # Len(w)
        <3>1. PICK n \in Nat : n = Len(w)
            BY <2>3
        <3>2. n >= 2
            BY <2>3, <3>1
        <3> QED BY <1>2, <3>1, <3>2
    <2>7. JandyComes(f, one)'
        BY <1>2, <2>2, <2>4, <2>5, <2>6 DEF JandyComes
    <2>8. JandyOnWire'
        BY <2>5, <2>7 DEF JandyOnWire
    <2> QED BY <1>1, <2>4, <2>5, <2>8 DEF SyncInv, BetweenFrames, InFrame
<1>4. CASE PutPentair
    <2>1. PICK f \in PentairFrames : Put(PentairPacket(f), PentairPacket(f))
        BY <1>4 DEF PutPentair
    <2>2. PICK w : w = PentairPacket(f)
        OBVIOUS
    <2>3. w \in Seq(Int) /\ Len(w) \in Nat /\ Len(w) >= 11
        BY <2>2, PentairWire
    <2>4. LeftOf(w, w, 1) /\ w # <<>>
        BY <2>3, LeftAtFirst, EmptySeq
    <2>5. /\ wire' = w /\ frame' = w /\ Locals /\ Locals' /\ SinceCounted'
          /\ started' = started /\ (lastByteDLE' <=> lastByteDLE) /\ preCnt' = preCnt
          /\ (PlainFrames /\ since' = 2 => inStep')
          /\ (PlainFrames /\ since' = 1 => Calm /\ started # "pentair")
        BY <2>1, <2>2, PutStarts DEF SyncInv
    <2>6. one <= 4 /\ ~(one >= 2) /\ one - 1 = 0
        BY <1>2
    <2>7. PentairComes(f, one)'
        BY <1>2, <2>2, <2>4, <2>5, <2>6 DEF PentairComes
    <2>8. ASSUME PlainFrames, since' = 1 PROVE Catches(f, one)'
        <3>1. ~lastByteDLE' /\ preCnt' = 0 /\ started' \in {"no", "jandy"}
            BY <2>5, <2>8 DEF Calm, Locals
        <3>2. Primed(w, one, preCnt')
            BY <3>1 DEF Primed
        <3>3. Unfound(f, one)'
            BY <1>2, <2>2, <2>4, <2>5, <2>6, <3>1, <3>2 DEF Unfound
        <3> QED BY <3>3 DEF Catches
    <2>9. PentairOnWire'
        BY <2>2, <2>5, <2>7, <2>8 DEF PentairOnWire
    <2> QED BY <1>1, <2>4, <2>5, <2>9 DEF SyncInv, BetweenFrames, InFrame
<1> QED BY <1>3, <1>4

(* What the variables say of the frame stays true with them.                *)
LEMMA StaysSynced ==
    ASSUME SyncInv, UNCHANGED <<packet, started, lastByteDLE, preCnt, dataCnt>>,
           UNCHANGED <<wire, frame, whole, inStep, since>>
    PROVE  SyncInv'
<1>1. ReaderInv'
    BY StaysRead DEF SyncInv
<1>2. ASSUME NEW f, NEW p, JandyComes(f, p) PROVE JandyComes(f, p)'
    BY <1>2 DEF JandyComes
<1>3. ASSUME NEW f, NEW p, PentairComes(f, p) PROVE PentairComes(f, p)'
    BY <1>3 DEF PentairComes
<1>4. ASSUME NEW f, NEW p, Catches(f, p) PROVE Catches(f, p)'
    BY <1>4 DEF Catches, Unfound, PentairHas
<1>5. JandyOnWire => JandyOnWire'
    BY <1>2 DEF JandyOnWire
<1>6. PentairOnWire => PentairOnWire'
    <2> SUFFICES ASSUME PentairOnWire PROVE PentairOnWire'
        OBVIOUS
    <2>1. PICK f \in PentairFrames :
              /\ frame = PentairPacket(f) /\ \E p : PentairComes(f, p)
              /\ PlainFrames /\ since = 1 => \E p : Catches(f, p)
        BY DEF PentairOnWire
    <2>2. (\E p : PentairComes(f, p)) => \E p : PentairComes(f, p)'
        BY <1>3
    <2>3. (\E p : Catches(f, p)) => \E p : Catches(f, p)'
        BY <1>4
    <2> QED BY <2>1, <2>2, <2>3 DEF PentairOnWire
<1>7. InFrame'
    BY <1>5, <1>6 DEF SyncInv, InFrame
<1>8. BetweenFrames'
    BY DEF SyncInv, BetweenFrames, FreshNow, Synced, Calm, OfJandy
<1>9. Locals' /\ SinceCounted'
    BY DEF SyncInv, Locals, SinceCounted
<1> QED BY <1>1, <1>7, <1>8, <1>9 DEF SyncInv

(* After a mishap nothing is said of the frame.                             *)
LEMMA TroubleSyncs ==
    ASSUME Trouble, Locals'
    PROVE  SyncInv'
<1>1. ~whole' /\ since' = 0
    BY DEF Trouble
<1> QED BY <1>1 DEF SyncInv, ReaderInv, SinceCounted, BetweenFrames, InFrame

(* Every step keeps the reader synchronized; what it reads in step is what  *)
(* was sent, and after a Jandy frame and the second one it is in step.      *)
LEMMA SyncStep ==
    ASSUME SyncInv, [ReaderNext]_readerVars
    PROVE  /\ SyncInv'
           /\ /\ wire = <<>> /\ whole /\ wire' # <<>> /\ whole' /\ started # "pentair" /\ OfJandy
              => inStep'
           /\ PlainFrames /\ wire # <<>> /\ wire' = <<>> /\ whole' /\ since >= 2
              => returned' = frame
<1>1. ReaderInv /\ Locals /\ SinceCounted
    BY DEF SyncInv
<1>2. CASE ReadByte
    <2>1. wire # <<>> /\ whole' = whole /\ inStep' = inStep /\ since' = since
        BY <1>2, ReadIs
    <2>2. ReaderInv' /\ (wire' = <<>> /\ whole' /\ inStep => returned' = frame)
        BY <1>1, <2>1, ReaderStep
    <2>3. Locals'
        BY <1>1, <1>2, LocalsNext
    <2>4. SinceCounted'
        BY <1>1, <2>1 DEF SinceCounted
    <2>5. BetweenFrames' /\ InFrame'
        <3>1. CASE whole
            BY <1>2, <3>1, ByteSyncs
        <3>2. CASE ~whole
            BY <2>1, <3>2 DEF BetweenFrames, InFrame
        <3> QED BY <3>1, <3>2
    <2>6. PlainFrames /\ whole /\ since >= 2 => inStep
        <3>1. since >= 2 => since = 2
            BY <1>1 DEF SinceCounted
        <3> QED BY <2>1, <3>1 DEF SyncInv, InFrame
    <2> QED BY <2>1, <2>2, <2>3, <2>4, <2>5, <2>6 DEF SyncInv
<1>3. CASE ReadTimeout
    <2>1. FreshLocals /\ wire' = wire /\ frame' = frame
          /\ IF wire = <<>> THEN NoTrouble ELSE Trouble
        BY <1>3 DEF ReadTimeout, Return
    <2>2. FreshNow' /\ Synced' /\ Calm' /\ Locals'
        BY <2>1, FreshIs
    <2>3. CASE wire = <<>>
        <3>1. SinceCounted'
            BY <1>1, <2>1, <2>3 DEF NoTrouble, SinceCounted
        <3>2. ReaderInv' /\ BetweenFrames' /\ InFrame'
            BY <2>1, <2>2, <2>3 DEF ReaderInv, BetweenFrames, InFrame
        <3> QED BY <2>1, <2>2, <2>3, <3>1, <3>2 DEF SyncInv
    <2>4. CASE wire # <<>>
        <3>1. SyncInv'
            BY <2>1, <2>2, <2>4, TroubleSyncs
        <3> QED BY <2>1, <2>4, <3>1
    <2> QED BY <2>3, <2>4
<1>4. CASE ReadAgain
    <2>1. wire # <<>> /\ wire' = wire
        BY <1>4 DEF ReadAgain
    <2>2. \/ FreshLocals /\ Trouble
          \/ /\ UNCHANGED <<packet, started, lastByteDLE, preCnt, dataCnt>>
             /\ UNCHANGED <<wire, frame, whole, inStep, since>>
        BY <1>4 DEF ReadAgain, Return, NoTrouble
    <2>3. SyncInv'
        <3>1. CASE FreshLocals /\ Trouble
            BY <3>1, FreshIs, TroubleSyncs
        <3>2. CASE /\ UNCHANGED <<packet, started, lastByteDLE, preCnt, dataCnt>>
                   /\ UNCHANGED <<wire, frame, whole, inStep, since>>
            BY <3>2, StaysSynced
        <3> QED BY <2>2, <3>1, <3>2
    <2> QED BY <2>1, <2>3
<1>5. CASE PutJandy \/ PutPentair
    <2>1. PICK w, pk : Put(w, pk)
        BY <1>5 DEF PutJandy, PutPentair
    <2>2. wire = <<>> /\ (inStep' <=> FreshNow)
        BY <2>1, PutStarts
    <2>3. whole /\ OfJandy => Synced
        BY <2>2 DEF SyncInv, BetweenFrames
    <2>4. SyncInv'
        BY <1>5, PutSyncs
    <2> QED BY <2>2, <2>3, <2>4 DEF Synced
<1>6. CASE LoseByte \/ AddByte \/ CutOff
    <2>1. Trouble /\ ~whole' /\ UNCHANGED localVars
        BY <1>6 DEF LoseByte, AddByte, CutOff, Damage, Trouble
    <2>2. Locals'
        BY <1>1, <2>1 DEF localVars, Locals
    <2> QED BY <2>1, <2>2, TroubleSyncs
<1>7. CASE UNCHANGED readerVars
    <2>1. /\ UNCHANGED <<packet, started, lastByteDLE, preCnt, dataCnt>>
          /\ UNCHANGED <<wire, frame, whole, inStep, since>>
        BY <1>7 DEF readerVars, localVars
    <2>2. SyncInv'
        BY <2>1, StaysSynced
    <2> QED BY <2>1, <2>2
<1> QED BY <1>2, <1>3, <1>4, <1>5, <1>6, <1>7 DEF ReaderNext

LEMMA SyncStart ==
    ASSUME ReaderInit
    PROVE  SyncInv
<1>1. /\ wire = <<>> /\ packet = <<>> /\ started = "no" /\ lastByteDLE = FALSE
      /\ preCnt = 0 /\ dataCnt = -1 /\ whole = TRUE /\ inStep = TRUE /\ since = 2
    BY DEF ReaderInit
<1>2. FreshNow /\ Synced /\ Locals /\ SinceCounted
    BY <1>1 DEF FreshNow, Synced, Locals, SinceCounted
<1> QED BY <1>1, <1>2 DEF SyncInv, ReaderInv, BetweenFrames, InFrame

(* After a whole Jandy frame, begun whatever get_packet had read by then,   *)
(* the next one begins in step, unless a Pentair packet was cut short: any  *)
(* frames that fit, any mishaps, any bytes between.                         *)
THEOREM JandySynchronizes == Spec => AfterJandyInStep
<1>1. DaemonInit => SyncInv
    BY PartInits, SyncStart
<1>2. SyncInv /\ [DaemonNext]_daemonVars => SyncInv'
    BY PartSteps, SyncStep
<1>3. SyncInv /\ [DaemonNext]_daemonVars =>
        [/\ wire = <<>> /\ whole /\ wire' # <<>> /\ whole' /\ started # "pentair"
         /\ \E f \in JandyFrames : frame = JandyPacket(f)
         => inStep']_readerVars
    BY PartSteps, SyncStep DEF OfJandy
<1> QED BY <1>1, <1>2, <1>3, PTL DEF Spec, AfterJandyInStep

(* Where the Pentair packets are plain, a damage costs the two whole frames *)
(* that follow it at most.                                                  *)
THEOREM BackInStep == PlainFrames => (Spec => LosesTwoAtMost)
<1> SUFFICES ASSUME PlainFrames PROVE Spec => LosesTwoAtMost
    OBVIOUS
<1>1. DaemonInit => SyncInv
    BY PartInits, SyncStart
<1>2. SyncInv /\ [DaemonNext]_daemonVars => SyncInv'
    BY PartSteps, SyncStep
<1>3. SyncInv /\ [DaemonNext]_daemonVars =>
        [wire # <<>> /\ wire' = <<>> /\ whole' /\ since >= 2 => returned' = frame]_readerVars
    BY PartSteps, SyncStep
<1> QED BY <1>1, <1>2, <1>3, ReadsWholeFrames, JandySynchronizes, PTL DEF Spec, LosesTwoAtMost

-----------------------------------------------------------------------------
(* The pages.  What Only has taken of the first members of a sequence.      *)
IsOnly(f, s, S, n) ==
    f = [k \in 0..n |-> IF k = 0 THEN <<>>
                        ELSE IF s[k] \in S THEN Append(f[k - 1], s[k]) ELSE f[k - 1]]

(* There is such a function for every number of members.                    *)
LEMMA OnlyExists ==
    ASSUME NEW s, NEW S, NEW n \in Nat
    PROVE  \E f : IsOnly(f, s, S, n)
<1> DEFINE T == {m \in Nat : ~\E f : IsOnly(f, s, S, m)}
<1> SUFFICES ASSUME T # {} PROVE FALSE
    OBVIOUS
<1>1. PICK m \in T : \A y \in T : m <= y
    BY NatMin
<1>2. CASE m = 0
    <2> DEFINE f == [k \in 0..0 |-> <<>>]
    <2>1. f = [k \in 0..0 |-> IF k = 0 THEN <<>>
                              ELSE IF s[k] \in S THEN Append(f[k - 1], s[k]) ELSE f[k - 1]]
        OBVIOUS
    <2>2. IsOnly(f, s, S, m)
        BY <1>2, <2>1 DEF IsOnly
    <2> QED BY <2>2
<1>3. CASE m # 0
    <2>1. m - 1 \in Nat /\ m \in Nat /\ m - 1 \notin T
        BY <1>1, <1>3
    <2>2. PICK q : IsOnly(q, s, S, m - 1)
        BY <2>1
    <2> DEFINE next == IF s[m] \in S THEN Append(q[m - 1], s[m]) ELSE q[m - 1]
               f == [k \in 0..m |-> IF k < m THEN q[k] ELSE next]
    <2>3. q = [k \in 0..(m - 1) |-> IF k = 0 THEN <<>>
                        ELSE IF s[k] \in S THEN Append(q[k - 1], s[k]) ELSE q[k - 1]]
        BY <2>2 DEF IsOnly
    <2>4. ASSUME NEW k \in 0..m
          PROVE  f[k] = IF k = 0 THEN <<>>
                        ELSE IF s[k] \in S THEN Append(f[k - 1], s[k]) ELSE f[k - 1]
        <3>1. CASE k = m
            <4>1. f[k] = next /\ f[m - 1] = q[m - 1]
                BY <2>1, <3>1
            <4> QED BY <1>3, <3>1, <4>1
        <3>2. CASE k # m
            <4>1. k \in 0..(m - 1) /\ f[k] = q[k]
                BY <2>1, <3>2
            <4>2. k # 0 => f[k - 1] = q[k - 1]
                BY <2>1, <4>1
            <4>3. q[k] = IF k = 0 THEN <<>>
                         ELSE IF s[k] \in S THEN Append(q[k - 1], s[k]) ELSE q[k - 1]
                BY <2>3, <4>1
            <4> QED BY <4>1, <4>2, <4>3
        <3> QED BY <3>1, <3>2
    <2>5. f = [k \in 0..m |-> f[k]]
        OBVIOUS
    <2>6. f = [k \in 0..m |-> IF k = 0 THEN <<>>
                              ELSE IF s[k] \in S THEN Append(f[k - 1], s[k]) ELSE f[k - 1]]
        <3> HIDE DEF f
        <3> QED BY <2>4, <2>5
    <2>7. IsOnly(f, s, S, m)
        BY <2>6 DEF IsOnly
    <2> QED BY <2>7
<1> QED BY <1>2, <1>3

(* Only returns a sequence, whose members are those that are in S.          *)
LEMMA OnlyIs ==
    ASSUME NEW T, NEW s \in Seq(T), NEW S
    PROVE  /\ Only(s, S) \in Seq(T)
           /\ PageSeq!ToSet(Only(s, S)) = PageSeq!ToSet(s) \cap S
<1>1. Len(s) \in Nat /\ DOMAIN s = 1..Len(s) /\ \A k \in 1..Len(s) : s[k] \in T
    BY LenProperties, ElementOfSeq
<1> DEFINE g == CHOOSE f : IsOnly(f, s, S, Len(s))
<1>2. IsOnly(g, s, S, Len(s))
    BY <1>1, OnlyExists
<1>3. g = CHOOSE f : f = [k \in 0..Len(s) |-> IF k = 0 THEN <<>>
                              ELSE IF s[k] \in S THEN Append(f[k - 1], s[k]) ELSE f[k - 1]]
    BY DEF IsOnly
<1>4. Only(s, S) = g[Len(s)]
    BY <1>3 DEF Only
<1> HIDE DEF g
<1>5. g[0] = <<>>
    BY <1>1, <1>2 DEF IsOnly
<1>6. \A k \in 1..Len(s) : g[k] = IF s[k] \in S THEN Append(g[k - 1], s[k]) ELSE g[k - 1]
    <2> SUFFICES ASSUME NEW k \in 1..Len(s)
                 PROVE  g[k] = IF s[k] \in S THEN Append(g[k - 1], s[k]) ELSE g[k - 1]
        OBVIOUS
    <2>1. k \in 0..Len(s) /\ k # 0
        BY <1>1
    <2>2. \A j \in 0..Len(s) : g[j] = IF j = 0 THEN <<>>
                          ELSE IF s[j] \in S THEN Append(g[j - 1], s[j]) ELSE g[j - 1]
        BY <1>2 DEF IsOnly
    <2> QED BY <2>1, <2>2
<1> DEFINE Taken(k) == /\ g[k] \in Seq(T)
                       /\ PageSeq!ToSet(g[k]) = {s[j] : j \in 1..k} \cap S
           U == {k \in 0..Len(s) : ~Taken(k)}
<1>7. U = {}
    <2> SUFFICES ASSUME U # {} PROVE FALSE
        OBVIOUS
    <2>1. U \in SUBSET Nat
        OBVIOUS
    <2>2. PICK k \in U : \A y \in U : k <= y
        BY <2>1, NatMin
    <2>3. Taken(0)
        BY <1>5 DEF PageSeq!ToSet
    <2>4. k \in 1..Len(s) /\ k - 1 \in 0..Len(s) /\ k - 1 \notin U
        <3> HIDE DEF Taken
        <3>1. k \in 0..Len(s) /\ k # 0 /\ k - 1 < k
            BY <1>1, <2>2, <2>3
        <3> QED BY <1>1, <2>2, <3>1
    <2>5. Taken(k - 1)
        <3> HIDE DEF Taken
        <3> QED BY <2>4
    <2>6. {s[j] : j \in 1..k} = {s[j] : j \in 1..(k - 1)} \cup {s[k]}
        BY <1>1, <2>4
    <2>7. CASE s[k] \in S
        <3>1. PICK q : q = g[k - 1]
            OBVIOUS
        <3>2. g[k] = Append(q, s[k]) /\ q \in Seq(T) /\ s[k] \in T
            BY <1>1, <1>6, <2>4, <2>5, <2>7, <3>1
        <3>3. /\ g[k] \in Seq(T) /\ DOMAIN g[k] = 1..(Len(q) + 1) /\ DOMAIN q = 1..Len(q)
              /\ Len(q) \in Nat /\ g[k][Len(q) + 1] = s[k]
              /\ \A i \in 1..Len(q) : g[k][i] = q[i]
            BY <3>2, AppendProperties, LenProperties
        <3>4. PageSeq!ToSet(g[k]) = PageSeq!ToSet(q) \cup {s[k]}
            <4>1. \A x : x \in PageSeq!ToSet(g[k]) <=> \E i \in 1..(Len(q) + 1) : g[k][i] = x
                BY <3>3 DEF PageSeq!ToSet
            <4>2. \A x : x \in PageSeq!ToSet(q) <=> \E i \in 1..Len(q) : q[i] = x
                BY <3>3 DEF PageSeq!ToSet
            <4>3. \A i : i \in 1..(Len(q) + 1) <=> i \in 1..Len(q) \/ i = Len(q) + 1
                BY <3>3
            <4>4. \A x : x \in PageSeq!ToSet(g[k]) <=> x \in PageSeq!ToSet(q) \/ x = s[k]
                BY <3>3, <4>1, <4>2, <4>3
            <4> QED BY <4>4
        <3>5. Taken(k)
            BY <2>5, <2>6, <2>7, <3>1, <3>3, <3>4
        <3> QED BY <2>2, <3>5
    <2>8. CASE s[k] \notin S
        <3>1. g[k] = g[k - 1]
            BY <1>6, <2>4, <2>8
        <3>2. Taken(k)
            BY <2>5, <2>6, <2>8, <3>1
        <3> QED BY <2>2, <3>2
    <2> QED BY <2>7, <2>8
<1>8. Taken(Len(s))
    <2> HIDE DEF Taken
    <2> QED BY <1>1, <1>7
<1>9. PageSeq!ToSet(s) = {s[j] : j \in 1..Len(s)}
    BY <1>1 DEF PageSeq!ToSet
<1> QED BY <1>4, <1>8, <1>9

(* What two sequences have, one after the other.                            *)
LEMMA ConcatHas ==
    ASSUME NEW T, NEW s \in Seq(T), NEW t \in Seq(T)
    PROVE  /\ s \o t \in Seq(T)
           /\ PageSeq!ToSet(s \o t) = PageSeq!ToSet(s) \cup PageSeq!ToSet(t)
<1>1. PICK r : r = s \o t
    OBVIOUS
<1>2. /\ r \in Seq(T) /\ DOMAIN r = 1..(Len(s) + Len(t))
      /\ DOMAIN s = 1..Len(s) /\ DOMAIN t = 1..Len(t) /\ Len(s) \in Nat /\ Len(t) \in Nat
      /\ \A i \in 1..(Len(s) + Len(t)) : r[i] = IF i <= Len(s) THEN s[i] ELSE t[i - Len(s)]
    BY <1>1, ConcatProperties, LenProperties
<1>3. ASSUME NEW x \in PageSeq!ToSet(r)
      PROVE  x \in PageSeq!ToSet(s) \/ x \in PageSeq!ToSet(t)
    <2>1. PICK i \in 1..(Len(s) + Len(t)) : x = r[i]
        BY <1>2, <1>3 DEF PageSeq!ToSet
    <2>2. CASE i <= Len(s)
        <3>1. i \in DOMAIN s /\ x = s[i]
            BY <1>2, <2>1, <2>2
        <3> QED BY <3>1 DEF PageSeq!ToSet
    <2>3. CASE ~(i <= Len(s))
        <3>1. i - Len(s) \in DOMAIN t /\ x = t[i - Len(s)]
            BY <1>2, <2>1, <2>3
        <3> QED BY <3>1 DEF PageSeq!ToSet
    <2> QED BY <2>2, <2>3
<1>4. ASSUME NEW x \in PageSeq!ToSet(s) PROVE x \in PageSeq!ToSet(r)
    <2>1. PICK i \in DOMAIN s : x = s[i]
        BY <1>4 DEF PageSeq!ToSet
    <2>2. i \in DOMAIN r /\ r[i] = x
        BY <1>2, <2>1
    <2> QED BY <2>2 DEF PageSeq!ToSet
<1>5. ASSUME NEW x \in PageSeq!ToSet(t) PROVE x \in PageSeq!ToSet(r)
    <2>1. PICK i \in DOMAIN t : x = t[i]
        BY <1>5 DEF PageSeq!ToSet
    <2>2. i + Len(s) \in 1..(Len(s) + Len(t)) /\ ~(i + Len(s) <= Len(s)) /\ i + Len(s) - Len(s) = i
        BY <1>2, <2>1
    <2>3. i + Len(s) \in DOMAIN r /\ r[i + Len(s)] = x
        BY <1>2, <2>1, <2>2
    <2> QED BY <2>3 DEF PageSeq!ToSet
<1>6. PageSeq!ToSet(r) = PageSeq!ToSet(s) \cup PageSeq!ToSet(t)
    BY <1>3, <1>4, <1>5
<1> QED BY <1>1, <1>2, <1>6

(* What is left of a sequence after its first n members.                    *)
LEMMA RestHas ==
    ASSUME NEW T, NEW s \in Seq(T), NEW n \in Nat
    PROVE  LET r == SubSeq(s, n + 1, Len(s))
           IN  /\ r \in Seq(T) /\ PageSeq!ToSet(r) \subseteq PageSeq!ToSet(s)
               /\ \A i \in 1..Len(s) : i > n => s[i] \in PageSeq!ToSet(r)
<1>1. PICK r : r = SubSeq(s, n + 1, Len(s))
    OBVIOUS
<1>2. Len(s) \in Nat /\ DOMAIN s = 1..Len(s)
    BY LenProperties
<1>3. /\ r \in Seq(T) /\ DOMAIN r = 1..(IF n + 1 <= Len(s) THEN Len(s) - n ELSE 0)
      /\ \A i \in 1..(Len(s) - n) : r[i] = s[n + i]
    <2>1. \A i \in (n + 1)..Len(s) : s[i] \in T
        BY <1>2, ElementOfSeq
    <2>2. /\ r \in Seq(T) /\ Len(r) = IF n + 1 <= Len(s) THEN Len(s) - (n + 1) + 1 ELSE 0
          /\ \A i \in 1..(Len(s) - (n + 1) + 1) : r[i] = s[n + 1 + i - 1]
        BY <1>1, <1>2, <2>1, SubSeqProperties
    <2>3. DOMAIN r = 1..Len(r)
        BY <2>2, LenProperties
    <2>4. DOMAIN r = 1..(IF n + 1 <= Len(s) THEN Len(s) - n ELSE 0)
        <3>1. Len(s) - (n + 1) + 1 = Len(s) - n
            BY <1>2
        <3>2. Len(r) = IF n + 1 <= Len(s) THEN Len(s) - n ELSE 0
            BY <2>2, <3>1
        <3> QED BY <2>3, <3>2
    <2>5. ASSUME NEW i \in 1..(Len(s) - n) PROVE r[i] = s[n + i]
        <3>1. i \in 1..(Len(s) - (n + 1) + 1) /\ n + 1 + i - 1 = n + i
            BY <1>2
        <3> QED BY <2>2, <3>1
    <2> QED BY <2>2, <2>4, <2>5
<1>4. ASSUME NEW x \in PageSeq!ToSet(r) PROVE x \in PageSeq!ToSet(s)
    <2>1. PICK i \in DOMAIN r : x = r[i]
        BY <1>4 DEF PageSeq!ToSet
    <2>2. i \in 1..(Len(s) - n) /\ n + i \in DOMAIN s
        BY <1>2, <1>3, <2>1
    <2>3. x = s[n + i]
        BY <1>3, <2>1, <2>2
    <2> QED BY <2>2, <2>3 DEF PageSeq!ToSet
<1>5. ASSUME NEW i \in 1..Len(s), i > n PROVE s[i] \in PageSeq!ToSet(r)
    <2>1. i - n \in DOMAIN r /\ r[i - n] = s[n + (i - n)] /\ n + (i - n) = i
        BY <1>2, <1>3, <1>5
    <2> QED BY <2>1 DEF PageSeq!ToSet
<1> QED BY <1>1, <1>3, <1>4, <1>5

-----------------------------------------------------------------------------
(* The pages of equipment status.  In a series that is complete so far every*)
(* device that can be read is still to be listed, or was read, or is a pump *)
(* on the page of a PDA that was not polled yet; and what was read is as it *)
(* is.  If the last series was complete, too, no bit is set of a device that*)
(* is not listed.                                                           *)
PagesTypes ==
    /\ display \in Displays /\ actual \in [Shown -> {"off", "on", "priming"}]
    /\ lines \in Seq(PageLine) /\ rest \in Seq(Shown) /\ seen \subseteq Shown
    /\ timeCount \in Nat
Over1 == remote = "touch" /\ rest = <<>>
IsRead(d) == d \in seen /\ told[d] = actual[d]
ToBeRead(d) ==
    remote = "pda" /\ ~pageRead /\ d \in Pumps /\ \E l \in PageSeq!ToSet(lines) : l.device = d
Series ==
    complete =>
        /\ paging /\ ~inProgram
        /\ \A l \in PageSeq!ToSet(lines) : l.status = actual[l.device]
        /\ ~Over1 => \A d \in Shown :
               ~Unread(d) => d \in PageSeq!ToSet(rest) \/ IsRead(d) \/ ToBeRead(d)
NoneLeft ==
    completeBefore =>
        IF ~paging \/ Over1 THEN seen = {}
        ELSE complete => \A d \in seen : ~Unread(d)
Times == (paging => timeCount = 0) /\ (timeCount >= 2 => seen \cap Buttons = {})
PagesInv == PagesTypes /\ Series /\ NoneLeft /\ Times

(* The remote, and what it lists.                                           *)
LEMMA DisplayIs ==
    ASSUME PagesTypes
    PROVE  /\ remote \in {"onetouch", "touch", "pda"}
           /\ display.devices \in Seq(Shown) /\ Shown \subseteq Pumps \cup Buttons
           /\ remote = "touch" => Shown \subseteq Pumps
           /\ Pumps \cap Buttons = {}
<1>1. /\ display \in [remote : {"onetouch", "touch", "pda"}, devices : Seq(Pumps \cup Buttons)]
      /\ display.remote = "touch" => display.devices \in Seq(Pumps)
      /\ Pumps \cap Buttons = {}
    BY PagesAssumption DEF PagesTypes
<1>2. PICK s : s = display.devices
    OBVIOUS
<1>3. s \in Seq(Pumps \cup Buttons) /\ (display.remote = "touch" => s \in Seq(Pumps))
    BY <1>1, <1>2
<1>4. Shown = {s[i] : i \in DOMAIN s} /\ DOMAIN s = 1..Len(s) /\ Len(s) \in Nat
    BY <1>2, <1>3, LenProperties DEF Shown, PageSeq!ToSet
<1>5. \A i \in 1..Len(s) : s[i] \in Pumps \cup Buttons /\ (display.remote = "touch" => s[i] \in Pumps)
    BY <1>3, ElementOfSeq
<1>6. \A i \in 1..Len(s) : s[i] \in Shown
    BY <1>4
<1>7. s \in Seq(Shown)
    <2>1. s = [i \in 1..Len(s) |-> s[i]]
        BY <1>3
    <2> QED BY <1>4, <1>6, <2>1
<1> QED BY <1>1, <1>2, <1>4, <1>5, <1>7 DEF remote

(* What is listed is on, and everything that is on is listed.               *)
LEMMA ListedIs ==
    ASSUME PagesTypes
    PROVE  ListedNow \in Seq(Shown) /\ PageSeq!ToSet(ListedNow) = {d \in Shown : actual[d] # "off"}
<1>1. display.devices \in Seq(Shown) /\ PageSeq!ToSet(display.devices) = Shown
    BY DisplayIs DEF Shown
<1>2. PICK S : S = {d \in Shown : actual[d] # "off"}
    OBVIOUS
<1>3. /\ Only(display.devices, S) \in Seq(Shown)
      /\ PageSeq!ToSet(Only(display.devices, S)) = Shown \cap S
    BY <1>1, OnlyIs
<1> QED BY <1>2, <1>3 DEF ListedNow

(* The page that comes shows what is listed next, as it is; the others are  *)
(* still to be listed.                                                      *)
LEMMA PageIs ==
    ASSUME PagesTypes
    PROVE  /\ After \in Seq(Shown) /\ Page \in Seq(PageLine)
           /\ \A l \in PageSeq!ToSet(Page) : l.status = actual[l.device]
           /\ \A d \in PageSeq!ToSet(Todo) :
                  \/ actual[d] = "off" \/ d \in PageSeq!ToSet(After)
                  \/ \E l \in PageSeq!ToSet(Page) : l.device = d
<1>1. PICK t : t = Todo
    OBVIOUS
<1>2. t \in Seq(Shown) /\ Len(t) \in Nat /\ DOMAIN t = 1..Len(t)
    BY <1>1, ListedIs, LenProperties DEF Todo, PagesTypes
<1>3. PICK n \in 0..Len(t) : n = Fit(t)
    <2>1. PerPage \in Nat \ {0}
        BY PagesAssumption
    <2>2. t # <<>> => Len(t) > 0
        BY <1>2, EmptySeq
    <2>3. \/ (Fit(t) = 1 /\ t # <<>>) \/ Fit(t) = Len(t)
          \/ Fit(t) = PerPage /\ ~(Len(t) < PerPage)
        BY DEF Fit
    <2>4. Fit(t) \in 0..Len(t)
        BY <1>2, <2>1, <2>2, <2>3
    <2> QED BY <2>4
<1>4. PICK p : p = [k \in 1..n |-> [device |-> t[k], status |-> actual[t[k]]]]
    OBVIOUS
<1>5. PICK Whole : Whole = [device : Shown, status : {"off", "on", "priming"}]
    OBVIOUS
<1>6. \A k \in 1..n : t[k] \in Shown /\ p[k] = [device |-> t[k], status |-> actual[t[k]]]
    BY <1>2, <1>3, <1>4, ElementOfSeq
<1>7. p \in Seq(Whole) /\ DOMAIN p = 1..n
    <2>1. ASSUME NEW k \in 1..n PROVE p[k] \in Whole
        <3>1. PICK d \in Shown : d = t[k]
            BY <1>6
        <3>2. actual[d] \in {"off", "on", "priming"}
            BY DEF PagesTypes
        <3>3. p[k] = [device |-> d, status |-> actual[d]]
            BY <1>6, <3>1
        <3> QED BY <1>5, <3>2, <3>3
    <2> QED BY <1>3, <1>4, <2>1
<1>8. Only(p, PageLine) \in Seq(Whole) /\ PageSeq!ToSet(Only(p, PageLine)) = PageSeq!ToSet(p) \cap PageLine
    BY <1>7, OnlyIs
<1>9. Page = Only(p, PageLine)
    BY <1>1, <1>3, <1>4, Zenon DEF Page
<1>10. Page \in Seq(PageLine)
    <2>1. PICK q : q = Page
        OBVIOUS
    <2>2. q \in Seq(Whole) /\ PageSeq!ToSet(q) \subseteq PageLine
        BY <1>8, <1>9, <2>1
    <2>3. DOMAIN q = 1..Len(q) /\ Len(q) \in Nat /\ q = [i \in 1..Len(q) |-> q[i]]
        BY <2>2, LenProperties
    <2>4. \A i \in 1..Len(q) : q[i] \in PageLine
        BY <2>2, <2>3 DEF PageSeq!ToSet
    <2>5. q \in Seq(PageLine)
        BY <2>3, <2>4
    <2> QED BY <2>1, <2>5
<1>11. ASSUME NEW l \in PageSeq!ToSet(Page) PROVE l.status = actual[l.device]
    <2>1. PICK k \in 1..n : l = p[k]
        BY <1>7, <1>8, <1>9, <1>11 DEF PageSeq!ToSet
    <2>2. PICK d : d = t[k]
        OBVIOUS
    <2>3. l = [device |-> d, status |-> actual[d]]
        BY <1>6, <2>1, <2>2
    <2>4. l.device = d /\ l.status = actual[d]
        BY <2>3
    <2> QED BY <2>4
<1>12. PICK a : a = SubSeq(t, n + 1, Len(t))
    OBVIOUS
<1>13. After = a
    BY <1>1, <1>3, <1>12, Zenon DEF After
<1>14. a \in Seq(Shown) /\ \A i \in 1..Len(t) : i > n => t[i] \in PageSeq!ToSet(a)
    <2>1. n \in Nat
        BY <1>2, <1>3
    <2> QED BY <1>2, <1>12, <2>1, RestHas
<1>15. ASSUME NEW d \in PageSeq!ToSet(t), actual[d] # "off", d \notin PageSeq!ToSet(a)
       PROVE  \E l \in PageSeq!ToSet(Page) : l.device = d
    <2>1. PICK k \in 1..Len(t) : d = t[k]
        BY <1>2, <1>15 DEF PageSeq!ToSet
    <2>2. k \in 1..n
        BY <1>2, <1>3, <1>14, <1>15, <2>1
    <2>3. d \in Shown /\ p[k] = [device |-> d, status |-> actual[d]]
        BY <1>6, <2>1, <2>2
    <2>4. p[k] \in PageLine /\ p[k].device = d
        <3>1. actual[d] \in {"on", "priming"}
            BY <1>15, <2>3 DEF PagesTypes
        <3> QED BY <2>3, <3>1 DEF PageLine
    <2>5. p[k] \in PageSeq!ToSet(p)
        BY <1>7, <2>2 DEF PageSeq!ToSet
    <2> QED BY <1>8, <1>9, <2>3, <2>4, <2>5
<1> QED BY <1>1, <1>10, <1>11, <1>13, <1>14, <1>15

(* What is noted of lines that are as the devices are.                      *)
LEMMA NotedIs ==
    ASSUME NEW t, NEW R, \A r \in R : r.status = actual[r.device], NEW d \in Shown
    PROVE  /\ d \in Bits(R) => Noted(t, R)[d] = actual[d]
           /\ d \notin Bits(R) => Noted(t, R)[d] = t[d]
<1>1. Noted(t, R)[d] = IF \E r \in R : r.device = d
                       THEN (CHOOSE r \in R : r.device = d).status ELSE t[d]
    BY DEF Noted
<1>2. d \in Bits(R) <=> \E r \in R : r.device = d
    BY DEF Bits
<1>3. CASE \E r \in R : r.device = d
    <2>1. PICK c : c = CHOOSE r \in R : r.device = d
        OBVIOUS
    <2>2. c \in R /\ c.device = d
        BY <1>3, <2>1
    <2> QED BY <1>1, <1>2, <1>3, <2>1, <2>2
<1>4. CASE ~\E r \in R : r.device = d
    BY <1>1, <1>2, <1>4
<1> QED BY <1>3, <1>4

(* The lines after a page has come.                                         *)
LEMMA OverIs ==
    ASSUME PagesTypes, NEW came \in Seq(PageLine)
    PROVE  /\ Over(came) \in Seq(PageLine)
           /\ PageSeq!ToSet(came) \subseteq PageSeq!ToSet(Over(came))
           /\ PageSeq!ToSet(Over(came)) \subseteq
                  PageSeq!ToSet(came) \cup (IF paging THEN PageSeq!ToSet(lines) ELSE {})
<1>1. CASE ~(remote = "touch" /\ paging)
    BY <1>1 DEF Over
<1>2. CASE remote = "touch" /\ paging
    <2>1. PICK r : r = SubSeq(lines, Len(came) + 1, Len(lines))
        OBVIOUS
    <2>2. Len(came) \in Nat /\ lines \in Seq(PageLine)
        BY LenProperties DEF PagesTypes
    <2>3. r \in Seq(PageLine) /\ PageSeq!ToSet(r) \subseteq PageSeq!ToSet(lines)
        BY <2>1, <2>2, RestHas
    <2>4. /\ came \o r \in Seq(PageLine)
          /\ PageSeq!ToSet(came \o r) = PageSeq!ToSet(came) \cup PageSeq!ToSet(r)
        BY <2>3, ConcatHas
    <2>5. Over(came) = came \o r
        BY <1>2, <2>1 DEF Over
    <2> QED BY <1>2, <2>3, <2>4, <2>5
<1> QED BY <1>1, <1>2

(* When a device cannot be read.                                            *)
LEMMA UnreadIs ==
    ASSUME NEW d
    PROVE  Unread(d) <=> actual[d] = "off" \/ (actual[d] # "on" /\ remote # "touch")
BY DEF Unread, Legible

(* What is read of lines that are as the devices are.                       *)
LEMMA ReadingsAre ==
    ASSUME PagesTypes, NEW ls \in Seq(PageLine), NEW D,
           \A l \in PageSeq!ToSet(ls) : l.status = actual[l.device]
    PROVE  /\ \A r \in Readings(ls, D) : r.status = actual[r.device]
           /\ \A d \in Bits(Readings(ls, D)) : d \in Shown /\ ~Unread(d)
           /\ \A l \in PageSeq!ToSet(ls) :
                  l.device \in D /\ ~Unread(l.device) => l.device \in Bits(Readings(ls, D))
<1>1. PICK L : L = PageSeq!ToSet(ls)
    OBVIOUS
<1>2. \A l \in L : l \in PageLine /\ l.status = actual[l.device]
    <2>1. DOMAIN ls = 1..Len(ls) /\ Len(ls) \in Nat
        BY LenProperties
    <2> QED BY <1>1, <2>1, ElementOfSeq DEF PageSeq!ToSet
<1>3. Readings(ls, D) = {l \in L : l.device \in D /\ Legible(l)}
    BY <1>1 DEF Readings
<1>4. \A l \in L : l.device \in Shown /\ l.status \in {"on", "priming"}
    BY <1>2 DEF PageLine
<1>5. ASSUME NEW l \in L PROVE Legible(l) <=> ~Unread(l.device)
    BY <1>2, <1>4, UnreadIs DEF Legible
<1> QED BY <1>1, <1>2, <1>3, <1>4, <1>5 DEF Bits

(* A page of a series that is complete so far.                              *)
LEMMA PageRead ==
    ASSUME PagesInv, CompleteSoFar, paging => rest # <<>>, NEW ls, NEW R,
           ls = Over(Page), R = Readings(ls, IF remote = "pda" THEN Buttons ELSE Shown)
    PROVE  /\ ~inProgram /\ ls \in Seq(PageLine)
           /\ \A l \in PageSeq!ToSet(ls) : l.status = actual[l.device]
           /\ \A d \in Bits(R) : d \in Shown /\ ~Unread(d)
           /\ \A d \in Shown : ~Unread(d) =>
                  \/ d \in PageSeq!ToSet(After)
                  \/ d \in seen \cup Bits(R) /\ Noted(told, R)[d] = actual[d]
                  \/ /\ remote = "pda" /\ d \in Pumps
                     /\ \E l \in PageSeq!ToSet(ls) : l.device = d
<1>1. PagesTypes /\ Series
    BY DEF PagesInv
<1>2. ~inProgram /\ (paging => complete /\ ~Hurried /\ ~Over1)
    BY <1>1 DEF CompleteSoFar, Series, Over1
<1>3. /\ Page \in Seq(PageLine) /\ \A l \in PageSeq!ToSet(Page) : l.status = actual[l.device]
      /\ \A d \in PageSeq!ToSet(Todo) :
             \/ actual[d] = "off" \/ d \in PageSeq!ToSet(After)
             \/ \E l \in PageSeq!ToSet(Page) : l.device = d
    BY <1>1, PageIs
<1>4. /\ ls \in Seq(PageLine)
      /\ PageSeq!ToSet(Page) \subseteq PageSeq!ToSet(ls)
      /\ PageSeq!ToSet(ls) \subseteq
             PageSeq!ToSet(Page) \cup (IF paging THEN PageSeq!ToSet(lines) ELSE {})
    BY <1>1, <1>3, OverIs
<1>5. \A l \in PageSeq!ToSet(ls) : l.status = actual[l.device]
    BY <1>1, <1>2, <1>3, <1>4 DEF Series
<1>6. PICK D : D = IF remote = "pda" THEN Buttons ELSE Shown
    OBVIOUS
<1>7. /\ \A r \in R : r.status = actual[r.device]
      /\ \A d \in Bits(R) : d \in Shown /\ ~Unread(d)
      /\ \A l \in PageSeq!ToSet(ls) : l.device \in D /\ ~Unread(l.device) => l.device \in Bits(R)
    BY <1>1, <1>4, <1>5, <1>6, ReadingsAre
<1>8. ASSUME NEW d \in Shown, ~Unread(d), d \notin PageSeq!ToSet(After)
      PROVE  \/ d \in seen \cup Bits(R) /\ Noted(told, R)[d] = actual[d]
             \/ remote = "pda" /\ d \in Pumps /\ \E l \in PageSeq!ToSet(ls) : l.device = d
    <2>1. /\ d \in Bits(R) => Noted(told, R)[d] = actual[d]
          /\ d \notin Bits(R) => Noted(told, R)[d] = told[d]
        BY <1>7, NotedIs
    <2>2. actual[d] # "off"
        BY <1>8, UnreadIs
    <2>3. CASE d \in PageSeq!ToSet(Todo)
        <3>1. PICK l \in PageSeq!ToSet(ls) : l.device = d
            BY <1>3, <1>4, <1>8, <2>2, <2>3
        <3>2. CASE d \in D
            BY <1>7, <1>8, <2>1, <3>1, <3>2
        <3>3. CASE d \notin D
            BY <1>1, <1>6, <3>1, <3>3, DisplayIs
        <3> QED BY <3>2, <3>3
    <2>4. CASE d \notin PageSeq!ToSet(Todo)
        <3>1. paging
            BY <1>1, <2>2, <2>4, ListedIs DEF Todo
        <3>2. ~ToBeRead(d)
            <4> SUFFICES ASSUME ToBeRead(d) PROVE Hurried
                BY <1>2, <3>1
            <4>1. PICK l \in PageSeq!ToSet(lines) : l.device = d
                BY DEF ToBeRead
            <4> QED BY <4>1 DEF Hurried, ToBeRead, PageSeq!ToSet
        <3>3. d \notin PageSeq!ToSet(rest)
            BY <2>4, <3>1 DEF Todo
        <3>4. IsRead(d)
            BY <1>1, <1>2, <1>8, <3>1, <3>2, <3>3 DEF Series
        <3> QED BY <2>1, <3>4 DEF IsRead
    <2> QED BY <2>3, <2>4
<1> QED BY <1>2, <1>4, <1>5, <1>7, <1>8

(* The devices and the remote are as before.                                *)
LEMMA SameDevices ==
    ASSUME display' = display, actual' = actual
    PROVE  /\ remote' = remote /\ Shown' = Shown /\ PageLine' = PageLine
           /\ \A d : Unread(d)' <=> Unread(d)
<1>1. remote' = remote /\ Shown' = Shown
    BY DEF remote, Shown
<1>2. PageLine' = PageLine
    BY <1>1 DEF PageLine
<1>3. ASSUME NEW d PROVE Unread(d)' <=> Unread(d)
    BY <1>1 DEF Unread, Legible
<1> QED BY <1>1, <1>2, <1>3

(* Bits are set of devices that are listed, and of those that are asked for.*)
LEMMA BitsAre ==
    ASSUME NEW ls \in Seq(PageLine), NEW D
    PROVE  Bits(Readings(ls, D)) \subseteq Shown \cap D
<1>1. \A l \in PageSeq!ToSet(ls) : l \in PageLine
    BY LenProperties, ElementOfSeq DEF PageSeq!ToSet
<1>2. \A l \in PageLine : l.device \in Shown
    BY DEF PageLine
<1> QED BY <1>1, <1>2 DEF Bits, Readings

(* The types of the state after a page has come.                            *)
LEMMA ArrivesTypes ==
    ASSUME PagesTypes, NEW came \in Seq(PageLine), Turns(After), Arrives(came),
           display' = display, actual' = actual
    PROVE  PagesTypes'
<1>1. remote' = remote /\ Shown' = Shown /\ PageLine' = PageLine
    BY SameDevices
<1>2. After \in Seq(Shown)
    BY PageIs
<1>3. rest' = After /\ timeCount' = 0
    BY DEF Turns
<1>4. PICK ls : ls = Over(came)
    OBVIOUS
<1>5. PICK bits : bits = Bits(Readings(ls, IF remote = "pda" THEN Buttons ELSE Shown))
    OBVIOUS
<1>6. lines' = ls /\ (seen' = {} \/ seen' = seen \cup bits)
    BY <1>4, <1>5 DEF Arrives
<1>7. ls \in Seq(PageLine)
    BY <1>4, OverIs
<1>8. bits \subseteq Shown
    BY <1>5, <1>7, BitsAre
<1>9. display' \in Displays /\ actual' \in [Shown' -> {"off", "on", "priming"}]
    BY <1>1 DEF PagesTypes
<1>10. lines' \in Seq(PageLine')
    BY <1>1, <1>6, <1>7
<1>11. rest' \in Seq(Shown')
    BY <1>1, <1>2, <1>3
<1>12. seen' \subseteq Shown'
    BY <1>1, <1>6, <1>8 DEF PagesTypes
<1> QED BY <1>3, <1>9, <1>10, <1>11, <1>12 DEF PagesTypes

(* A page without one of its lines.                                         *)
LEMMA OneLess ==
    ASSUME NEW T, NEW s \in Seq(T), NEW k \in DOMAIN s
    PROVE  PageSeq!RemoveAt(s, k) \in Seq(T)
<1>1. DOMAIN s = 1..Len(s) /\ Len(s) \in Nat
    BY LenProperties
<1>2. PICK a : a = SubSeq(s, 1, k - 1)
    OBVIOUS
<1>3. PICK b : b = SubSeq(s, k + 1, Len(s))
    OBVIOUS
<1>4. a \in Seq(T)
    <2>1. \A i \in 1..(k - 1) : s[i] \in T
        BY <1>1, ElementOfSeq
    <2> QED BY <1>1, <1>2, <2>1, SubSeqProperties
<1>5. b \in Seq(T)
    <2>1. k \in Nat
        BY <1>1
    <2> QED BY <1>3, <2>1, RestHas
<1>6. a \o b \in Seq(T)
    BY <1>4, <1>5, ConcatHas
<1> QED BY <1>2, <1>3, <1>6 DEF PageSeq!RemoveAt

(* A page comes in a complete series, or in one that a slip disturbed.      *)
LEMMA ShowPageKeeps ==
    ASSUME PagesInv, ShowPage
    PROVE  PagesInv'
<1>1. PagesTypes /\ Series /\ NoneLeft /\ Times
    BY DEF PagesInv
<1>2. /\ Turns(After) /\ Arrives(Page) /\ (complete' <=> CompleteSoFar)
      /\ display' = display /\ actual' = actual /\ (inProgram' <=> inProgram)
    BY DEF ShowPage, pagesEnv
<1>3. /\ remote' = remote /\ Shown' = Shown /\ PageLine' = PageLine
      /\ \A d : Unread(d)' <=> Unread(d)
    BY <1>2, SameDevices
<1>4. /\ paging => rest # <<>>
      /\ paging' /\ rest' = After /\ ~pageRead' /\ timeCount' = 0
    BY <1>2 DEF Turns
<1>5. PagesTypes'
    BY <1>1, <1>2, PageIs, ArrivesTypes
<1>6. PICK ls : ls = Over(Page)
    OBVIOUS
<1>7. PICK R : R = Readings(ls, IF remote = "pda" THEN Buttons ELSE Shown)
    OBVIOUS
<1> DEFINE last == remote = "touch" /\ After = <<>>
<1>8. /\ lines' = ls
      /\ told' = IF last THEN TurnedOff(Noted(told, R), seen \cup Bits(R), Pumps) ELSE Noted(told, R)
      /\ seen' = IF last THEN {} ELSE seen \cup Bits(R)
      /\ completeBefore' = IF last THEN complete' ELSE completeBefore
    BY <1>2, <1>6, <1>7 DEF Arrives
<1>9. Over1' <=> last
    BY <1>3, <1>4 DEF Over1
<1>10. ASSUME CompleteSoFar
       PROVE  /\ ~inProgram
              /\ \A l \in PageSeq!ToSet(ls) : l.status = actual[l.device]
              /\ \A d \in Bits(R) : d \in Shown /\ ~Unread(d)
              /\ \A d \in Shown : ~Unread(d) =>
                  \/ d \in PageSeq!ToSet(After)
                  \/ d \in seen \cup Bits(R) /\ Noted(told, R)[d] = actual[d]
                  \/ /\ remote = "pda" /\ d \in Pumps
                     /\ \E l \in PageSeq!ToSet(ls) : l.device = d
    BY <1>4, <1>6, <1>7, <1>10, PageRead
<1> HIDE DEF last
<1>11. Series'
    <2> SUFFICES ASSUME complete'
                 PROVE  /\ paging' /\ ~inProgram'
                        /\ \A l \in PageSeq!ToSet(lines') : l.status = actual'[l.device]
                        /\ ~Over1' => \A d \in Shown' : ~Unread(d)' =>
                               d \in PageSeq!ToSet(rest') \/ IsRead(d)' \/ ToBeRead(d)'
        BY DEF Series
    <2>1. CompleteSoFar
        BY <1>2
    <2>2. paging' /\ ~inProgram'
        BY <1>2, <1>4, <1>10, <2>1
    <2>3. \A l \in PageSeq!ToSet(lines') : l.status = actual'[l.device]
        BY <1>2, <1>8, <1>10, <2>1
    <2>4. ASSUME ~Over1', NEW d \in Shown', ~Unread(d)', d \notin PageSeq!ToSet(rest'), ~ToBeRead(d)'
          PROVE  IsRead(d)'
        <3>1. /\ ~last /\ d \in Shown /\ ~Unread(d) /\ d \notin PageSeq!ToSet(After)
            BY <1>3, <1>4, <1>9, <2>4
        <3>2. ~(remote = "pda" /\ d \in Pumps /\ \E l \in PageSeq!ToSet(ls) : l.device = d)
            <4>1. ~(remote' = "pda" /\ ~pageRead' /\ d \in Pumps
                        /\ \E l \in PageSeq!ToSet(lines') : l.device = d)
                BY <2>4 DEF ToBeRead
            <4> QED BY <1>3, <1>4, <1>8, <4>1
        <3>3. d \in seen \cup Bits(R) /\ Noted(told, R)[d] = actual[d]
            BY <1>10, <2>1, <3>1, <3>2
        <3>4. d \in seen' /\ told'[d] = actual'[d]
            BY <1>2, <1>8, <3>1, <3>3
        <3> QED BY <3>4 DEF IsRead
    <2> QED BY <2>2, <2>3, <2>4
<1>12. NoneLeft'
    <2> SUFFICES ASSUME completeBefore'
                 PROVE  IF ~paging' \/ Over1' THEN seen' = {}
                        ELSE complete' => \A d \in seen' : ~Unread(d)'
        BY DEF NoneLeft
    <2>1. CASE last
        BY <1>4, <1>8, <1>9, <2>1
    <2>2. CASE ~last
        <3>1. completeBefore /\ seen' = seen \cup Bits(R)
            BY <1>8, <2>2
        <3>2. ASSUME complete', NEW d \in seen PROVE ~Unread(d)
            <4>1. CompleteSoFar
                BY <1>2, <3>2
            <4>2. paging => complete /\ ~Over1
                BY <1>4, <4>1 DEF CompleteSoFar, Over1
            <4> QED BY <1>1, <3>1, <3>2, <4>2 DEF NoneLeft
        <3>3. complete' => \A d \in seen' : ~Unread(d)'
            BY <1>2, <1>3, <1>10, <3>1, <3>2
        <3> QED BY <1>4, <1>9, <2>2, <3>3
    <2> QED BY <2>1, <2>2
<1>13. Times'
    BY <1>4 DEF Times
<1> QED BY <1>5, <1>11, <1>12, <1>13 DEF PagesInv

(* A line is not heard.                                                     *)
LEMMA LineSlipsKeeps ==
    ASSUME PagesInv, LineSlips
    PROVE  PagesInv'
<1>1. PagesTypes /\ Series /\ NoneLeft /\ Times
    BY DEF PagesInv
<1>2. PICK k \in DOMAIN Page : Arrives(PageSeq!RemoveAt(Page, k))
    BY DEF LineSlips
<1>3. PICK came : came = PageSeq!RemoveAt(Page, k)
    OBVIOUS
<1>4. Turns(After) /\ ~complete' /\ display' = display /\ actual' = actual
    BY DEF LineSlips, pagesEnv
<1>5. came \in Seq(PageLine)
    BY <1>1, <1>3, PageIs, OneLess
<1>6. PagesTypes'
    BY <1>1, <1>2, <1>3, <1>4, <1>5, ArrivesTypes
<1>7. paging' /\ rest' = After /\ timeCount' = 0 /\ remote' = remote
    BY <1>4, SameDevices DEF Turns
<1>8. completeBefore' => ~(remote = "touch" /\ After = <<>>)
    BY <1>2, <1>4 DEF Arrives
<1>9. Series' /\ NoneLeft' /\ Times'
    BY <1>4, <1>7, <1>8 DEF Series, NoneLeft, Times, Over1
<1> QED BY <1>6, <1>9 DEF PagesInv

(* The end of the pages, or not.                                            *)
LEMMA EndTypes ==
    ASSUME PagesTypes, EndUnlessInProgram
    PROVE  seen' \subseteq Shown /\ (seen' = {} \/ seen' = seen)
BY DEF PagesTypes, EndUnlessInProgram, End

(* A title is not heard.                                                    *)
LEMMA TitleSlipsKeeps ==
    ASSUME PagesInv, TitleSlips
    PROVE  PagesInv'
<1>1. PagesTypes /\ Series /\ NoneLeft /\ Times
    BY DEF PagesInv
<1>2. /\ Turns(IF remote = "touch" THEN <<>> ELSE After) /\ ~complete' /\ lines' = <<>>
      /\ EndUnlessInProgram /\ (completeBefore' => remote # "touch")
      /\ display' = display /\ actual' = actual
    BY DEF TitleSlips, pagesEnv
<1>3. remote' = remote /\ Shown' = Shown /\ PageLine' = PageLine
    BY <1>2, SameDevices
<1>4. After \in Seq(Shown) /\ seen' \subseteq Shown
    BY <1>1, <1>2, PageIs, EndTypes
<1>5. paging' /\ rest' \in {<<>>, After} /\ timeCount' = 0
    BY <1>2 DEF Turns
<1>6. rest' \in Seq(Shown') /\ lines' \in Seq(PageLine')
    BY <1>2, <1>3, <1>4, <1>5, EmptySeq
<1>7. PagesTypes'
    BY <1>1, <1>2, <1>3, <1>4, <1>5, <1>6 DEF PagesTypes
<1>8. Series' /\ NoneLeft' /\ Times'
    BY <1>2, <1>3, <1>5 DEF Series, NoneLeft, Times, Over1
<1> QED BY <1>7, <1>8 DEF PagesInv

(* Another page comes.                                                      *)
LEMMA LeavesKeeps ==
    ASSUME PagesInv, Leaves
    PROVE  PagesInv'
<1>1. PagesTypes /\ Series /\ NoneLeft /\ Times
    BY DEF PagesInv
<1>2. /\ paging /\ ~paging' /\ rest' = <<>> /\ lines' = <<>> /\ ~complete' /\ EndUnlessInProgram
      /\ completeBefore' = IF remote = "touch" THEN completeBefore /\ rest = <<>> ELSE Completed
      /\ display' = display /\ actual' = actual /\ timeCount' = timeCount
    BY DEF Leaves, pagesEnv
<1>3. remote' = remote /\ Shown' = Shown /\ PageLine' = PageLine
    BY <1>2, SameDevices
<1>4. seen' \subseteq Shown /\ (seen' = {} \/ seen' = seen)
    BY <1>1, <1>2, EndTypes
<1>5. PagesTypes'
    BY <1>1, <1>2, <1>3, <1>4, EmptySeq DEF PagesTypes
<1>6. ASSUME completeBefore' PROVE seen' = {}
    <2>1. CASE remote = "touch"
        <3>1. completeBefore /\ rest = <<>>
            BY <1>2, <1>6, <2>1
        <3>2. seen = {}
            BY <1>1, <2>1, <3>1 DEF NoneLeft, Over1
        <3> QED BY <1>4, <3>2
    <2>2. CASE remote # "touch"
        <3>1. Completed
            BY <1>2, <1>6, <2>2
        <3>2. listing /\ ~inProgram
            BY <1>1, <3>1 DEF Completed, Series
        <3> QED BY <1>2, <3>2 DEF EndUnlessInProgram, End
    <2> QED BY <2>1, <2>2
<1>7. Series' /\ NoneLeft' /\ Times'
    BY <1>1, <1>2, <1>6 DEF Series, NoneLeft, Times
<1> QED BY <1>5, <1>7 DEF PagesInv

(* A PDA shows the time.                                                    *)
LEMMA TimeComesKeeps ==
    ASSUME PagesInv, TimeComes
    PROVE  PagesInv'
<1>1. PagesTypes /\ Series /\ NoneLeft /\ Times
    BY DEF PagesInv
<1>2. /\ ~paging /\ ~paging' /\ rest' = rest /\ lines' = lines
      /\ (complete' <=> complete) /\ (completeBefore' <=> completeBefore)
      /\ display' = display /\ actual' = actual
      /\ timeCount' = (IF timeCount < 3 THEN timeCount + 1 ELSE 3)
      /\ IF timeCount' >= 2 THEN seen' = seen \cap Pumps ELSE seen' = seen
    BY DEF TimeComes, pagesEnv
<1>3. Shown' = Shown /\ PageLine' = PageLine
    BY <1>2, SameDevices
<1>4. PagesTypes'
    BY <1>1, <1>2, <1>3 DEF PagesTypes
<1>5. timeCount' >= 2 => seen' \cap Buttons = {}
    BY <1>2, PagesAssumption
<1>6. Series' /\ NoneLeft' /\ Times'
    BY <1>1, <1>2, <1>5 DEF Series, NoneLeft, Times
<1> QED BY <1>4, <1>6 DEF PagesInv

(* A device changes, or a program starts or ends.                           *)
LEMMA ChangesKeep ==
    ASSUME PagesInv,
           ProgramRuns \/ \E d \in Shown, s \in {"off", "on", "priming"} : DeviceChangesTo(d, s)
    PROVE  PagesInv'
<1>1. PagesTypes /\ Series /\ NoneLeft /\ Times
    BY DEF PagesInv
<1>2. /\ display' = display /\ seen' = seen /\ paging' = paging /\ rest' = rest /\ lines' = lines
      /\ timeCount' = timeCount /\ (completeBefore' <=> completeBefore) /\ ~complete'
    BY DEF ProgramRuns, DeviceChangesTo
<1>3. remote' = remote /\ Shown' = Shown /\ PageLine' = PageLine
    BY <1>2 DEF remote, Shown, PageLine
<1>4. actual' \in [Shown -> {"off", "on", "priming"}]
    BY <1>1 DEF ProgramRuns, DeviceChangesTo, PagesTypes
<1>5. PagesTypes'
    BY <1>1, <1>2, <1>3, <1>4 DEF PagesTypes
<1>6. Series' /\ NoneLeft' /\ Times'
    BY <1>1, <1>2, <1>3 DEF Series, NoneLeft, Times, Over1
<1> QED BY <1>5, <1>6 DEF PagesInv

(* A PDA is polled: it reads the pumps on its page.                         *)
LEMMA PdaPollKeeps ==
    ASSUME PagesInv, PdaPoll
    PROVE  PagesInv'
<1>1. PagesTypes /\ Series /\ NoneLeft /\ Times
    BY DEF PagesInv
<1>2. /\ remote = "pda" /\ paging /\ paging' = paging /\ rest' = rest /\ lines' = lines
      /\ (complete' <=> complete) /\ (completeBefore' <=> completeBefore)
      /\ display' = display /\ actual' = actual /\ (inProgram' <=> inProgram)
      /\ timeCount' = timeCount
    BY DEF PdaPoll, pagesEnv
<1>3. /\ remote' = remote /\ Shown' = Shown /\ PageLine' = PageLine
      /\ \A d : Unread(d)' <=> Unread(d)
    BY <1>2, SameDevices
<1>4. CASE ~listing
    <2>1. told' = told /\ seen' = seen /\ (pageRead' <=> pageRead)
        BY <1>4 DEF PdaPoll
    <2>2. PagesTypes'
        BY <1>1, <1>2, <1>3, <2>1 DEF PagesTypes
    <2>3. \A d : (IsRead(d)' <=> IsRead(d)) /\ (ToBeRead(d)' <=> ToBeRead(d))
        BY <1>2, <1>3, <2>1 DEF IsRead, ToBeRead
    <2>4. Over1' <=> Over1
        BY <1>2, <1>3 DEF Over1
    <2>5. Series'
        BY <1>1, <1>2, <1>3, <2>3, <2>4 DEF Series
    <2>6. NoneLeft' /\ Times'
        BY <1>1, <1>2, <1>3, <2>1, <2>4 DEF NoneLeft, Times
    <2> QED BY <2>2, <2>5, <2>6 DEF PagesInv
<1>5. CASE listing
    <2>1. PICK R : R = Readings(lines, Pumps)
        OBVIOUS
    <2>2. pageRead' /\ told' = Noted(told, R) /\ seen' = seen \cup Bits(R)
        BY <1>5, <2>1 DEF PdaPoll
    <2>3. lines \in Seq(PageLine)
        BY <1>1 DEF PagesTypes
    <2>4. Bits(R) \subseteq Shown \cap Pumps
        BY <2>1, <2>3, BitsAre
    <2>5. ASSUME complete
          PROVE  /\ \A r \in R : r.status = actual[r.device]
                 /\ \A d \in Bits(R) : d \in Shown /\ ~Unread(d)
                 /\ \A l \in PageSeq!ToSet(lines) :
                        l.device \in Pumps /\ ~Unread(l.device) => l.device \in Bits(R)
        <3>1. \A l \in PageSeq!ToSet(lines) : l.status = actual[l.device]
            BY <1>1, <2>5 DEF Series
        <3> QED BY <1>1, <2>1, <2>3, <3>1, ReadingsAre
    <2>6. PagesTypes'
        BY <1>1, <1>2, <1>3, <2>2, <2>4 DEF PagesTypes
    <2>7. Over1' <=> Over1
        BY <1>2, <1>3 DEF Over1
    <2>8. ASSUME complete, NEW d \in Shown, ~Unread(d), ~Over1, d \notin PageSeq!ToSet(rest)
          PROVE  IsRead(d)'
        <3>1. /\ d \in Bits(R) => Noted(told, R)[d] = actual[d]
              /\ d \notin Bits(R) => Noted(told, R)[d] = told[d]
            BY <2>5, <2>8, NotedIs
        <3>2. IsRead(d) \/ ToBeRead(d)
            BY <1>1, <2>8 DEF Series
        <3>3. CASE d \in Bits(R)
            BY <1>2, <2>2, <3>1, <3>3 DEF IsRead
        <3>4. CASE d \notin Bits(R)
            <4>1. ~ToBeRead(d)
                BY <2>5, <2>8, <3>4 DEF ToBeRead
            <4> QED BY <1>2, <2>2, <3>1, <3>2, <3>4, <4>1 DEF IsRead
        <3> QED BY <3>3, <3>4
    <2>9. Series'
        <3> SUFFICES ASSUME complete'
                     PROVE  /\ paging' /\ ~inProgram'
                            /\ \A l \in PageSeq!ToSet(lines') : l.status = actual'[l.device]
                            /\ ~Over1' => \A d \in Shown' : ~Unread(d)' =>
                                   d \in PageSeq!ToSet(rest') \/ IsRead(d)' \/ ToBeRead(d)'
            BY DEF Series
        <3>1. complete /\ paging' /\ ~inProgram'
            BY <1>1, <1>2 DEF Series
        <3>2. \A l \in PageSeq!ToSet(lines') : l.status = actual'[l.device]
            BY <1>1, <1>2, <3>1 DEF Series
        <3>3. ASSUME ~Over1', NEW d \in Shown', ~Unread(d)', d \notin PageSeq!ToSet(rest')
              PROVE  IsRead(d)'
            BY <1>2, <1>3, <2>7, <2>8, <3>1, <3>3
        <3> QED BY <3>1, <3>2, <3>3
    <2>10. NoneLeft'
        <3> SUFFICES ASSUME completeBefore'
                     PROVE  ~Over1' /\ (complete' => \A d \in seen' : ~Unread(d)')
            BY <1>2 DEF NoneLeft
        <3>1. ~Over1 /\ completeBefore
            BY <1>2 DEF Over1
        <3>2. complete => \A d \in seen : ~Unread(d)
            BY <1>1, <1>2, <3>1 DEF NoneLeft
        <3> QED BY <1>2, <1>3, <2>2, <2>5, <2>7, <3>1, <3>2
    <2>11. Times'
        BY <1>1, <1>2 DEF Times
    <2> QED BY <2>6, <2>9, <2>10, <2>11 DEF PagesInv
<1> QED BY <1>4, <1>5

(* No series has begun at first.                                            *)
LEMMA PagesStart ==
    ASSUME PagesInit
    PROVE  PagesInv
<1>1. PagesTypes
    BY EmptySeq DEF PagesInit, PagesTypes
<1>2. Series /\ NoneLeft /\ Times
    BY DEF PagesInit, Series, NoneLeft, Times
<1> QED BY <1>1, <1>2 DEF PagesInv

(* No step of the pages breaks the invariant.                               *)
LEMMA PagesStep ==
    ASSUME PagesInv, [PagesNext]_pagesVars
    PROVE  PagesInv'
<1>1. CASE ShowPage
    BY <1>1, ShowPageKeeps
<1>2. CASE LineSlips
    BY <1>2, LineSlipsKeeps
<1>3. CASE TitleSlips
    BY <1>3, TitleSlipsKeeps
<1>4. CASE PdaPoll
    BY <1>4, PdaPollKeeps
<1>5. CASE Leaves
    BY <1>5, LeavesKeeps
<1>6. CASE TimeComes
    BY <1>6, TimeComesKeeps
<1>7. CASE ProgramRuns \/ \E d \in Shown, s \in {"off", "on", "priming"} : DeviceChangesTo(d, s)
    BY <1>7, ChangesKeep
<1>8. CASE UNCHANGED pagesVars
    <2>1. /\ display' = display /\ actual' = actual /\ lines' = lines /\ rest' = rest
          /\ seen' = seen /\ timeCount' = timeCount /\ told' = told /\ paging' = paging
          /\ pageRead' = pageRead /\ inProgram' = inProgram /\ complete' = complete
          /\ completeBefore' = completeBefore
        BY <1>8 DEF pagesVars
    <2>2. /\ remote' = remote /\ Shown' = Shown /\ PageLine' = PageLine
          /\ \A d : Unread(d)' <=> Unread(d)
        BY <2>1, SameDevices
    <2>3. \A d : (IsRead(d)' <=> IsRead(d)) /\ (ToBeRead(d)' <=> ToBeRead(d))
        BY <2>1, <2>2 DEF IsRead, ToBeRead
    <2>4. Over1' <=> Over1
        BY <2>1, <2>2 DEF Over1
    <2>5. PagesTypes'
        BY <2>1, <2>2 DEF PagesTypes, PagesInv
    <2>6. Series'
        BY <2>1, <2>2, <2>3, <2>4 DEF Series, PagesInv
    <2>7. NoneLeft' /\ Times'
        BY <2>1, <2>2, <2>4 DEF NoneLeft, Times, PagesInv
    <2> QED BY <2>5, <2>6, <2>7 DEF PagesInv
<1> QED BY <1>1, <1>2, <1>3, <1>4, <1>5, <1>6, <1>7, <1>8 DEF PagesNext

(* What is turned off at the end, and what a OneTouch does after that.      *)
LEMMA TurnedOffIs ==
    ASSUME NEW t, NEW bits, NEW D, NEW d \in Shown
    PROVE  /\ d \in D \ bits => TurnedOff(t, bits, D)[d] = "off"
           /\ d \notin D \ bits => TurnedOff(t, bits, D)[d] = t[d]
BY DEF TurnedOff

(* The button at which a OneTouch stops is one that is listed.              *)
LEMMA FirstButtonIs ==
    ASSUME PagesTypes, Shown \cap Buttons # {}
    PROVE  FirstButton \in Shown \cap Buttons
<1>1. PICK o : o = Only(display.devices, Buttons)
    OBVIOUS
<1>2. display.devices \in Seq(Shown) /\ PageSeq!ToSet(display.devices) = Shown
    BY DisplayIs DEF Shown
<1>3. o \in Seq(Shown) /\ PageSeq!ToSet(o) = Shown \cap Buttons
    BY <1>1, <1>2, OnlyIs
<1>4. DOMAIN o = 1..Len(o) /\ Len(o) \in Nat
    BY <1>3, LenProperties
<1>5. 1 \in DOMAIN o
    BY <1>3, <1>4 DEF PageSeq!ToSet
<1>6. o[1] \in PageSeq!ToSet(o)
    BY <1>5 DEF PageSeq!ToSet
<1> QED BY <1>1, <1>3, <1>6 DEF FirstButton

(* What is known at the end of a complete series.                           *)
LEMMA EndTells ==
    ASSUME PagesInv, remote # "touch", Leaves, Completed, NEW d \in Shown
    PROVE  /\ ~Unread(d) /\ ~(Rs16(d) /\ d = FirstButton) => told'[d] = actual[d]
           /\ Unread(d) /\ completeBefore /\ ~Rs16(d) => told'[d] = "off"
<1>1. PagesTypes /\ Series /\ NoneLeft
    BY DEF PagesInv
<1>2. paging /\ rest = <<>> /\ complete /\ listing /\ ~Hurried /\ ~Over1
    BY DEF Completed, Over1
<1>3. told' \in EndTold
    BY <1>1, <1>2 DEF Leaves, EndUnlessInProgram, End, Series
<1>4. PICK D : D = IF remote = "onetouch" THEN Pumps ELSE Shown
    OBVIOUS
<1>5. PICK t : t = TurnedOff(told, seen, D)
    OBVIOUS
<1>6. /\ d \in D \ seen => t[d] = "off"
      /\ d \notin D \ seen => t[d] = told[d]
    BY <1>5, TurnedOffIs
<1>7. told'[d] = t[d] \/ (Rs16(d) /\ d = FirstButton)
    <2>1. CASE remote = "onetouch"
        <3>1. told' \in AfterRs16(t)
            BY <1>3, <1>4, <1>5, <2>1 DEF EndTold
        <3>2. CASE Shown \cap Buttons = {}
            BY <3>1, <3>2 DEF AfterRs16
        <3>3. CASE Shown \cap Buttons # {}
            <4>1. told' = t \/ told' = [t EXCEPT ![FirstButton] = "off"]
                BY <3>1, <3>3 DEF AfterRs16
            <4>2. FirstButton \in Buttons
                BY <1>1, <3>3, FirstButtonIs
            <4>3. DOMAIN t = Shown
                BY <1>5 DEF TurnedOff
            <4>4. d # FirstButton => told'[d] = t[d]
                BY <4>1, <4>3
            <4> QED BY <2>1, <4>2, <4>4 DEF Rs16
        <3> QED BY <3>2, <3>3
    <2>2. CASE remote # "onetouch"
        BY <1>3, <1>4, <1>5, <2>2 DEF EndTold
    <2> QED BY <2>1, <2>2
<1>8. ASSUME ~Unread(d) PROVE IsRead(d)
    <2>1. ~ToBeRead(d)
        <3> SUFFICES ASSUME ToBeRead(d) PROVE Hurried
            BY <1>2
        <3>1. PICK l \in PageSeq!ToSet(lines) : l.device = d
            BY DEF ToBeRead
        <3> QED BY <3>1 DEF Hurried, ToBeRead, PageSeq!ToSet
    <2>2. d \notin PageSeq!ToSet(rest)
        BY <1>2 DEF PageSeq!ToSet
    <2> QED BY <1>1, <1>2, <1>8, <2>1, <2>2 DEF Series
<1>9. ASSUME Unread(d), completeBefore PROVE d \notin seen
    BY <1>1, <1>2, <1>9 DEF NoneLeft
<1>10. ~Rs16(d) => d \in D
    <2>1. d \in Pumps \/ d \in Buttons
        BY <1>1, DisplayIs
    <2> QED BY <1>4, <2>1 DEF Rs16
<1>11. ASSUME ~Unread(d), ~(Rs16(d) /\ d = FirstButton) PROVE told'[d] = actual[d]
    BY <1>6, <1>7, <1>8, <1>11 DEF IsRead
<1>12. ASSUME Unread(d), completeBefore, ~Rs16(d) PROVE told'[d] = "off"
    BY <1>6, <1>7, <1>9, <1>10, <1>12
<1> QED BY <1>11, <1>12

(* The same after the last page of an iAqualink Touch.                      *)
LEMMA LastPageTells ==
    ASSUME PagesInv, remote = "touch", ShowPage, After = <<>>, complete', NEW d \in Shown
    PROVE  /\ ~Unread(d) => told'[d] = actual[d]
           /\ Unread(d) /\ completeBefore => told'[d] = "off"
<1>1. PagesTypes /\ NoneLeft
    BY DEF PagesInv
<1>2. Turns(After) /\ Arrives(Page) /\ CompleteSoFar
    BY DEF ShowPage
<1>3. paging => rest # <<>>
    BY <1>2 DEF Turns
<1>4. PICK ls : ls = Over(Page)
    OBVIOUS
<1>5. PICK R : R = Readings(ls, Shown)
    OBVIOUS
<1>6. R = Readings(ls, IF remote = "pda" THEN Buttons ELSE Shown)
    BY <1>5
<1>7. /\ \A e \in Bits(R) : e \in Shown /\ ~Unread(e)
      /\ ~Unread(d) => \/ d \in PageSeq!ToSet(After)
                       \/ d \in seen \cup Bits(R) /\ Noted(told, R)[d] = actual[d]
                       \/ remote = "pda" /\ d \in Pumps /\ \E l \in PageSeq!ToSet(ls) : l.device = d
    BY <1>2, <1>3, <1>4, <1>6, PageRead
<1>8. d \notin PageSeq!ToSet(After)
    BY DEF PageSeq!ToSet
<1>9. PICK t : t = Noted(told, R)
    OBVIOUS
<1>10. told' = TurnedOff(t, seen \cup Bits(R), Pumps)
    BY <1>2, <1>4, <1>6, <1>9 DEF Arrives
<1>11. /\ d \in Pumps \ (seen \cup Bits(R)) => told'[d] = "off"
       /\ d \notin Pumps \ (seen \cup Bits(R)) => told'[d] = t[d]
    BY <1>10, TurnedOffIs
<1>12. d \in Pumps
    BY <1>1, DisplayIs
<1>13. ASSUME Unread(d), completeBefore PROVE d \notin seen \cup Bits(R)
    <2>1. paging => complete /\ ~Over1
        BY <1>2, <1>3 DEF CompleteSoFar, Over1
    <2> QED BY <1>1, <1>7, <1>13, <2>1 DEF NoneLeft
<1> QED BY <1>7, <1>8, <1>9, <1>11, <1>12, <1>13

(* The buttons of a PDA are known to be off when the time comes once more.  *)
LEMMA TimeTells ==
    ASSUME PagesInv, TimeComes, timeCount >= 2, NEW d \in Buttons \cap Shown
    PROVE  told'[d] = "off"
<1>1. PagesTypes /\ Times
    BY DEF PagesInv
<1>2. timeCount' >= 2
    BY <1>1 DEF TimeComes, PagesTypes
<1>3. told' = TurnedOff(told, seen, Buttons)
    BY <1>2 DEF TimeComes
<1>4. d \notin seen
    BY <1>1 DEF Times
<1> QED BY <1>3, <1>4, TurnedOffIs

(* What every step tells, from the invariant.                               *)
LEMMA StepTells ==
    ASSUME PagesInv
    PROVE  /\ PagesEnd => \A d \in Shown :
                 /\ ~Unread(d) /\ ~(Rs16(d) /\ d = FirstButton) => told'[d] = actual[d]
                 /\ Unread(d) /\ completeBefore /\ ~Rs16(d) => told'[d] = "off"
           /\ TimeComes /\ timeCount >= 2 => \A d \in Buttons \cap Shown : told'[d] = "off"
<1>1. ASSUME PagesEnd, NEW d \in Shown
      PROVE  /\ ~Unread(d) /\ ~(Rs16(d) /\ d = FirstButton) => told'[d] = actual[d]
             /\ Unread(d) /\ completeBefore /\ ~Rs16(d) => told'[d] = "off"
    <2>1. CASE remote # "touch" /\ Leaves /\ Completed
        BY <2>1, EndTells
    <2>2. CASE remote = "touch" /\ ShowPage /\ After = <<>> /\ complete'
        BY <2>2, LastPageTells
    <2> QED BY <1>1, <2>1, <2>2 DEF PagesEnd
<1>2. ASSUME TimeComes, timeCount >= 2, NEW d \in Buttons \cap Shown
      PROVE  told'[d] = "off"
    BY <1>2, TimeTells
<1> QED BY <1>1, <1>2

(* At the end of a complete and undisturbed series of pages the devices     *)
(* that can be read there are known as they are, and the others are known   *)
(* to be off if the series before was so, too: whatever was missed, changed *)
(* or left early before that.                                               *)
THEOREM TellsWhatIsOn == Spec => PagesAreTold
<1>1. DaemonInit => PagesInv
    BY PartInits, PagesStart
<1>2. PagesInv /\ [DaemonNext]_daemonVars => PagesInv'
    BY PartSteps, PagesStep
<1>3. PagesInv /\ [DaemonNext]_daemonVars =>
        [ /\ PagesEnd => \A d \in Shown :
              /\ ~Unread(d) /\ ~(Rs16(d) /\ d = FirstButton) => told'[d] = actual[d]
              /\ Unread(d) /\ completeBefore /\ ~Rs16(d) => told'[d] = "off"
          /\ TimeComes /\ timeCount >= 2 => \A d \in Buttons \cap Shown : told'[d] = "off"
        ]_pagesVars
    BY StepTells
<1> QED BY <1>1, <1>2, <1>3, PTL DEF Spec, PagesAreTold
=============================================================================
