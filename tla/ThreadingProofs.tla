--------------------------- MODULE ThreadingProofs ---------------------------
(* The threads of the mailbox view, proved for all instances: whatever headers   *)
(* the messages carry and in whatever order they are linked, the links close no  *)
(* loop, every message is shown once, and answers stand with what they answer.   *)
(* The model climbs by recursive functions; what they compute is shown here by   *)
(* induction over sets of numbers, and the climbs as walks along the links.      *)
EXTENDS MCMailbox, TLAPS, FiniteSetTheorems, SequenceTheorems, WellFoundedInduction

\* A count in a component is a count.
LEMMA CountsAgree ==
  \A S : Threading!Cardinality(S) = Cardinality(S) /\ (Threading!IsFiniteSet(S) <=> IsFiniteSet(S))
BY DEF Cardinality, IsFiniteSet, Threading!Cardinality, Threading!IsFiniteSet

\* Induction over the naturals, for a property given as a set.
LEMMA FromNull ==
  ASSUME NEW S, 0 \in S, \A n \in Nat : n \in S => n + 1 \in S
  PROVE  Nat \subseteq S
<1> DEFINE out == Nat \ S
<1> SUFFICES ASSUME out # {} PROVE FALSE
  OBVIOUS
<1>1. PICK n \in out : \A m \in out : <<m, n>> \notin OpToRel(<, Nat)
  BY NatLessThanWellFounded, WFMin
<1>2. \A m \in out : ~(m < n)
  BY <1>1 DEF OpToRel
<1>3. n # 0 /\ n - 1 \in Nat
  OBVIOUS
<1>4. n - 1 \in S
  BY <1>2, <1>3
<1>5. QED
  BY <1>3, <1>4

\* A sequence of values, each made from the one before it.
Makes(f, a, g) == f[0] = a /\ \A n \in Nat : f[n + 1] = g[<<n, f[n]>>]
LEMMA Recursion ==
  ASSUME NEW V, NEW a \in V, NEW g, \A n \in Nat, v \in V : g[<<n, v>>] \in V
  PROVE  \E f \in [Nat -> V] : Makes(f, a, g)
<1> DEFINE Up(h, m) == h \in [0 .. m -> V] /\ h[0] = a /\ \A n \in 0 .. m - 1 : h[n + 1] = g[<<n, h[n]>>]
<1>1. \A m \in Nat : \E h : Up(h, m)
  <2> DEFINE S == {m \in Nat : \E h : Up(h, m)}
  <2>1. 0 \in S
    <3>1. Up([n \in 0 .. 0 |-> a], 0)
      OBVIOUS
    <3> HIDE DEF Up
    <3>2. QED
      BY <3>1
  <2>2. ASSUME NEW m \in Nat, m \in S PROVE m + 1 \in S
    <3>1. PICK h : Up(h, m)
      BY <2>2
    <3> DEFINE k == [n \in 0 .. m + 1 |-> IF n = m + 1 THEN g[<<m, h[m]>>] ELSE h[n]]
    <3>2. h \in [0 .. m -> V] /\ h[0] = a /\ \A n \in 0 .. m - 1 : h[n + 1] = g[<<n, h[n]>>]
      BY <3>1
    <3>3. k \in [0 .. m + 1 -> V]
      BY <3>2
    <3>4. k[0] = a
      BY <3>2
    <3>5. ASSUME NEW n \in 0 .. m PROVE k[n + 1] = g[<<n, k[n]>>]
      <4>1. CASE n = m
        BY <4>1
      <4>2. CASE n # m
        <5>1. n \in 0 .. m - 1 /\ n + 1 # m + 1 /\ n # m + 1
          BY <4>2
        <5>2. QED
          BY <3>2, <5>1
      <4>3. QED
        BY <4>1, <4>2
    <3>6. Up(k, m + 1)
      <4>1. (m + 1) - 1 = m
        OBVIOUS
      <4> HIDE DEF k
      <4>2. QED
        BY <3>3, <3>4, <3>5, <4>1
    <3> HIDE DEF Up, k
    <3>7. QED
      BY <3>6
  <2> HIDE DEF S
  <2>3. Nat \subseteq S
    BY <2>1, <2>2, FromNull
  <2>4. QED
    BY <2>3 DEF S
<1>2. ASSUME NEW m \in Nat, NEW h, NEW k, Up(h, m), Up(k, m + 1)
      PROVE  k[m] = h[m]
  <2> DEFINE S == {n \in Nat : n <= m => k[n] = h[n]}
  <2>1. 0 \in S
    BY <1>2
  <2>2. ASSUME NEW n \in Nat, n \in S PROVE n + 1 \in S
    <3>1. CASE n + 1 <= m
      <4>1. n \in 0 .. m - 1 /\ n \in 0 .. (m + 1) - 1 /\ n <= m
        BY <3>1
      <4>2. h[n + 1] = g[<<n, h[n]>>]
        BY <1>2, <4>1
      <4>3. k[n + 1] = g[<<n, k[n]>>]
        BY <1>2, <4>1
      <4>4. k[n] = h[n]
        BY <2>2, <4>1
      <4>5. QED
        BY <4>2, <4>3, <4>4
    <3>2. CASE ~(n + 1 <= m)
      BY <3>2
    <3>3. QED
      BY <3>1, <3>2
  <2> HIDE DEF S
  <2>3. m \in S
    BY <2>1, <2>2, FromNull
  <2>4. QED
    BY <2>3 DEF S
<1> DEFINE part(m) == CHOOSE h : Up(h, m)
           f == [m \in Nat |-> part(m)[m]]
<1>3. \A m \in Nat : Up(part(m), m)
  <2> HIDE DEF Up
  <2>1. QED
    BY <1>1
<1>4. f \in [Nat -> V]
  <2>1. ASSUME NEW m \in Nat PROVE part(m)[m] \in V
    <3>1. Up(part(m), m)
      BY <1>3
    <3> HIDE DEF part
    <3>2. QED
      BY <3>1
  <2> HIDE DEF part
  <2>2. QED
    BY <2>1
<1>5. f[0] = a
  <2>1. ASSUME NEW m \in Nat PROVE part(m)[0] = a
    <3>1. Up(part(m), m)
      BY <1>3
    <3> HIDE DEF part
    <3>2. QED
      BY <3>1
  <2> HIDE DEF part
  <2>2. QED
    BY <2>1
<1>6. ASSUME NEW n \in Nat PROVE f[n + 1] = g[<<n, f[n]>>]
  <2>1. Up(part(n), n) /\ Up(part(n + 1), n + 1)
    <3> HIDE DEF part, Up
    <3>1. n + 1 \in Nat
      OBVIOUS
    <3>2. QED
      BY <1>3, <3>1
  <2>2. part(n + 1)[n] = part(n)[n]
    <3> HIDE DEF part, Up
    <3>1. QED
      BY <1>2, <2>1
  <2> HIDE DEF part
  <2>3. part(n + 1)[n + 1] = g[<<n, part(n + 1)[n]>>]
    <3>1. n \in 0 .. (n + 1) - 1
      OBVIOUS
    <3>2. QED
      BY <2>1, <3>1
  <2>4. QED
    BY <2>2, <2>3
<1>7. QED
  <2> HIDE DEF f
  <2>1. QED
    BY <1>4, <1>5, <1>6 DEF Makes
\* The containers, what a container can have above it, and the links between containers.
Nodes == Threading!Containers
Top == Threading!NoParent
Ends == Nodes \cup {Top}
Links == [Nodes -> Ends]
Count == Cardinality(Nodes)

\* What the headers are made of gives containers that can be counted, and none is the mark above a root.
LEMMA NodesAreCounted ==
  /\ IsFiniteSet(Nodes) /\ Count \in Nat /\ Top \notin Nodes
  /\ Threading!Cardinality(Nodes) = Count
  /\ \A c \in Nodes : Count >= 1
<1>1. IsFiniteSet(Mailboxes \X Uids)
  <2>1. IsFiniteSet(Mailboxes) /\ IsFiniteSet(Uids)
    BY MailboxAssumption, CountsAgree DEF Threading!HeadersAssumption
  <2>2. QED
    BY <2>1, FS_Product
<1>2. IsFiniteSet(MessageIds)
  BY MailboxAssumption, CountsAgree DEF Threading!HeadersAssumption
<1>3. IsFiniteSet(Nodes)
  BY <1>1, <1>2, FS_Union DEF Nodes, Threading!Containers, Threading!Mail
<1>4. Count \in Nat
  BY <1>3, FS_CardinalityType DEF Count
<1>5. Top \notin Nodes
  <2>1. <<>> \notin MessageIds
    BY MailboxAssumption DEF Threading!HeadersAssumption
  <2>2. <<>> \notin Mailboxes \X Uids
    OBVIOUS
  <2>3. QED
    BY <2>1, <2>2 DEF Top, Nodes, Threading!Containers, Threading!Mail, Threading!NoParent
<1>6. \A c \in Nodes : Count >= 1
  <2>1. Nodes # {} => Count # 0
    BY <1>3, FS_EmptySet DEF Count
  <2>2. QED
    BY <1>4, <2>1
<1>7. QED
  BY <1>3, <1>4, <1>5, <1>6, CountsAgree DEF Count

\* One step up, and the walk up from a container.
Up(up, x) == IF x = Top THEN Top ELSE up[x]
IsWalk(f, up, c) == f \in [Nat -> Ends] /\ f[0] = c /\ \A n \in Nat : f[n + 1] = Up(up, f[n])
Walk(up, c) == CHOOSE f : IsWalk(f, up, c)

\* Every container has its walk.
LEMMA WalkIs ==
  ASSUME NEW up \in Links, NEW c \in Ends
  PROVE  IsWalk(Walk(up, c), up, c)
<1> DEFINE g == [p \in Nat \X Ends |-> Up(up, p[2])]
<1>1. \A n \in Nat, v \in Ends : g[<<n, v>>] = Up(up, v)
  OBVIOUS
<1>2. \A n \in Nat, v \in Ends : g[<<n, v>>] \in Ends
  BY <1>1 DEF Links, Up, Ends
<1> HIDE DEF g
<1>3. PICK f \in [Nat -> Ends] : Makes(f, c, g)
  BY <1>2, Recursion
<1>4. \A n \in Nat : f[n + 1] = Up(up, f[n])
  BY <1>1, <1>3 DEF Makes
<1>5. IsWalk(f, up, c)
  BY <1>3, <1>4 DEF Makes, IsWalk
<1>6. QED
  BY <1>5, Zenon DEF Walk

\* There is one walk.
LEMMA OneWalk ==
  ASSUME NEW up \in Links, NEW c \in Ends, NEW f, IsWalk(f, up, c), NEW n \in Nat
  PROVE  f[n] = Walk(up, c)[n]
<1> DEFINE S == {k \in Nat : f[k] = Walk(up, c)[k]}
<1>1. IsWalk(Walk(up, c), up, c)
  BY WalkIs
<1>2. 0 \in S
  BY <1>1 DEF IsWalk
<1>3. \A k \in Nat : k \in S => k + 1 \in S
  BY <1>1 DEF IsWalk
<1> HIDE DEF S
<1>4. n \in S
  BY <1>2, <1>3, FromNull
<1>5. QED
  BY <1>4 DEF S

\* A walk goes on as the walk from where it is.
LEMMA WalkOn ==
  ASSUME NEW up \in Links, NEW c \in Ends, NEW k \in Nat, NEW n \in Nat
  PROVE  Walk(up, Walk(up, c)[k])[n] = Walk(up, c)[k + n]
<1>1. IsWalk(Walk(up, c), up, c)
  BY WalkIs
<1> DEFINE w == Walk(up, c)
<1> HIDE DEF w
<1>2. IsWalk(w, up, c)
  BY <1>1 DEF w
<1> DEFINE f == [i \in Nat |-> w[k + i]]
<1>3. f \in [Nat -> Ends] /\ f[0] = w[k]
  BY <1>2 DEF IsWalk
<1>4. ASSUME NEW i \in Nat PROVE f[i + 1] = Up(up, f[i])
  <2>1. k + i \in Nat /\ k + (i + 1) = (k + i) + 1
    OBVIOUS
  <2>2. w[(k + i) + 1] = Up(up, w[k + i])
    BY <1>2, <2>1 DEF IsWalk
  <2>3. QED
    BY <2>1, <2>2
<1>5. IsWalk(f, up, w[k]) /\ f[n] = w[k + n]
  BY <1>3, <1>4 DEF IsWalk
<1>6. w[k] \in Ends
  BY <1>2 DEF IsWalk
<1> HIDE DEF f
<1>7. f[n] = Walk(up, w[k])[n]
  BY <1>5, <1>6, OneWalk
<1>8. QED
  BY <1>5, <1>7 DEF w

\* Above a root the walk stays.
LEMMA WalkStays ==
  ASSUME NEW up \in Links, NEW c \in Ends, NEW k \in Nat, NEW n \in Nat, Walk(up, c)[k] = Top, k <= n
  PROVE  Walk(up, c)[n] = Top
<1>1. Walk(up, Top)[n - k] = Walk(up, c)[n]
  BY WalkOn
<1> DEFINE f == [i \in Nat |-> Top]
<1>2. IsWalk(f, up, Top) /\ Top \in Ends /\ f[n - k] = Top
  BY DEF IsWalk, Up, Ends
<1> HIDE DEF f
<1>3. QED
  BY <1>1, <1>2, OneWalk

\* hasAncestor asks whether the walk passes a container.
LEMMA AboveIs ==
  ASSUME NEW up \in Links, NEW c \in Nodes, NEW p
  PROVE  p \in Threading!Above(up, c) <=> p \in Nodes /\ \E n \in 1 .. Count : Walk(up, c)[n] = p
<1> DEFINE w == Walk(up, c)
<1>1. IsWalk(w, up, c)
  BY WalkIs DEF Ends
<1> HIDE DEF w
<1> DEFINE G(f) == [n \in 0 .. Count |-> IF n = 0 THEN {c} ELSE {up[x] : x \in f[n - 1] \ {Top}}]
           climb == CHOOSE f : f = G(f)
           at(n) == IF n = 0 \/ w[n - 1] # Top THEN {w[n]} ELSE {}
           h == [n \in 0 .. Count |-> at(n)]
<1>2. h = G(h)
  <2> SUFFICES ASSUME NEW n \in 0 .. Count
               PROVE  at(n) = IF n = 0 THEN {c} ELSE {up[x] : x \in h[n - 1] \ {Top}}
    OBVIOUS
  <2>1. CASE n = 0
    BY <1>1, <2>1 DEF IsWalk
  <2>2. CASE n # 0
    <3>1. n - 1 \in Nat /\ n - 1 \in 0 .. Count /\ (n - 1) + 1 = n
      BY <2>2, NodesAreCounted
    <3>2. w[n] = Up(up, w[n - 1])
      BY <1>1, <3>1 DEF IsWalk
    <3>3. h[n - 1] = at(n - 1)
      BY <3>1
    <3>4. CASE w[n - 1] = Top
      BY <2>2, <3>3, <3>4
    <3>5. CASE w[n - 1] # Top
      <4>1. h[n - 1] = {w[n - 1]}
        <5>1. n - 1 = 0 \/ w[(n - 1) - 1] # Top
          <6>1. CASE n - 1 # 0
            <7>1. (n - 1) - 1 \in Nat /\ ((n - 1) - 1) + 1 = n - 1
              BY <3>1, <6>1
            <7>2. w[n - 1] = Up(up, w[(n - 1) - 1])
              BY <1>1, <7>1 DEF IsWalk
            <7>3. QED
              BY <3>5, <7>2 DEF Up
          <6>2. QED
            BY <6>1
        <5>2. QED
          BY <3>3, <5>1
      <4>2. w[n] = up[w[n - 1]]
        BY <3>2, <3>5 DEF Up
      <4>3. {up[x] : x \in {w[n - 1]} \ {Top}} = {w[n]}
        BY <3>5, <4>2
      <4>4. QED
        BY <2>2, <3>5, <4>1, <4>3
    <3>6. QED
      BY <3>4, <3>5
  <2>3. QED
    BY <2>1, <2>2
<1>3. climb = G(climb)
  <2> HIDE DEF h, G
  <2>1. QED
    BY <1>2
<1>4. \A n \in 0 .. Count : climb[n] = h[n]
  <2> DEFINE S == {n \in Nat : n <= Count => climb[n] = h[n]}
  <2> HIDE DEF climb, h
  <2>1. 0 \in S
    BY <1>2, <1>3, NodesAreCounted
  <2>2. ASSUME NEW n \in Nat, n \in S PROVE n + 1 \in S
    <3>1. CASE n + 1 <= Count
      <4>1. n + 1 \in 0 .. Count /\ n + 1 # 0 /\ (n + 1) - 1 = n /\ n <= Count
        BY <3>1, NodesAreCounted
      <4>2. climb[n + 1] = {up[x] : x \in climb[n] \ {Top}}
        BY <1>3, <4>1
      <4>3. h[n + 1] = {up[x] : x \in h[n] \ {Top}}
        BY <1>2, <4>1
      <4>4. climb[n] = h[n]
        BY <2>2, <4>1
      <4>5. QED
        BY <4>2, <4>3, <4>4
    <3>2. QED
      BY <3>1
  <2> HIDE DEF S
  <2>3. Nat \subseteq S
    BY <2>1, <2>2, FromNull
  <2>4. QED
    BY <2>3, NodesAreCounted DEF S
<1>5. Threading!Above(up, c) = (UNION {climb[n] : n \in 1 .. Count}) \ {Top}
  BY NodesAreCounted DEF Threading!Above, Nodes, Top
<1>6. ASSUME NEW n \in 1 .. Count PROVE climb[n] = at(n)
  <2>1. n \in 0 .. Count
    OBVIOUS
  <2>2. h[n] = at(n)
    BY <2>1
  <2> HIDE DEF climb, h
  <2>3. QED
    BY <1>4, <2>1, <2>2
<1>7. \A n \in 1 .. Count : w[n] \in Ends /\ (w[n] # Top => w[n - 1] # Top)
  <2> SUFFICES ASSUME NEW n \in 1 .. Count PROVE w[n] \in Ends /\ (w[n] # Top => w[n - 1] # Top)
    OBVIOUS
  <2>1. n - 1 \in Nat /\ (n - 1) + 1 = n /\ n \in Nat
    BY NodesAreCounted
  <2>2. QED
    BY <1>1, <2>1 DEF IsWalk, Up
<1> HIDE DEF climb
<1>8. \A n \in 1 .. Count : p # Top => (p \in climb[n] <=> w[n] = p)
  BY <1>6, <1>7
<1>9. p \in Threading!Above(up, c) <=> p # Top /\ \E n \in 1 .. Count : w[n] = p
  <2>1. PICK U : U = UNION {climb[n] : n \in 1 .. Count}
    OBVIOUS
  <2>2. p \in U <=> \E n \in 1 .. Count : p \in climb[n]
    BY <2>1
  <2>3. Threading!Above(up, c) = U \ {Top}
    BY <1>5, <2>1, Zenon
  <2>4. p # Top => ((\E n \in 1 .. Count : p \in climb[n]) <=> \E n \in 1 .. Count : w[n] = p)
    BY <1>8
  <2>5. p \in Threading!Above(up, c) <=> p \in U /\ p # Top
    BY <2>3, Zenon
  <2>6. QED
    BY <2>2, <2>4, <2>5, Zenon
<1>10. QED
  BY <1>7, <1>9, NodesAreCounted DEF w, Ends

\* No walk comes back to where it began.
Loopless(up) == \A c \in Nodes : \A n \in 1 .. Count : Walk(up, c)[n] # c

\* A walk without loops ends: a longer one would pass a container twice.
LEMMA WalksEnd ==
  ASSUME NEW up \in Links, Loopless(up), NEW c \in Nodes, NEW n \in Nat, n >= Count
  PROVE  Walk(up, c)[n] = Top
<1> DEFINE w == Walk(up, c)
<1>1. IsWalk(w, up, c)
  BY WalkIs DEF Ends
<1>2. ASSUME NEW i \in Nat, NEW j \in Nat, i < j, j <= Count, w[i] = w[j], w[i] # Top
      PROVE  FALSE
  <2>1. PICK d \in 1 .. Count : d = j - i
    BY <1>2, NodesAreCounted
  <2>2. d \in Nat /\ i + d = j
    BY <1>2, <2>1, NodesAreCounted
  <2>3. w[i] \in Nodes
    BY <1>1, <1>2 DEF IsWalk, Ends
  <2>4. c \in Ends
    BY DEF Ends
  <2>5. Walk(up, w[i])[d] = w[i + d]
    BY <2>2, <2>4, WalkOn
  <2> HIDE DEF w
  <2>6. QED
    BY <1>2, <2>2, <2>3, <2>5 DEF Loopless
<1> HIDE DEF w
<1>3. \E i \in 0 .. Count : w[i] = Top
  <2> SUFFICES ASSUME \A i \in 0 .. Count : w[i] # Top PROVE FALSE
    OBVIOUS
  <2>1. \A i \in 0 .. Count : w[i] \in Nodes
    BY <1>1, NodesAreCounted DEF IsWalk, Ends
  <2> DEFINE f == [i \in 0 .. Count |-> w[i]]
  <2>2. f \in [0 .. Count -> Nodes] /\ \A i \in 0 .. Count : f[i] = w[i]
    BY <2>1
  <2> HIDE DEF f
  <2>3. IsFiniteSet(0 .. Count) /\ Cardinality(0 .. Count) = Count + 1
    <3>1. 0 \in Int /\ Count \in Int /\ ~(0 > Count)
      BY NodesAreCounted
    <3>2. QED
      BY <3>1, FS_Interval
  <2>4. Cardinality(Nodes) < Cardinality(0 .. Count)
    BY <2>3, NodesAreCounted DEF Count
  <2>5. PICK i, j \in 0 .. Count : i # j /\ f[i] = f[j]
    BY <2>2, <2>3, <2>4, NodesAreCounted, FS_PigeonHole
  <2>6. i \in Nat /\ j \in Nat /\ w[i] = w[j] /\ w[i] # Top /\ i <= Count /\ j <= Count
    BY <2>2, <2>5, NodesAreCounted
  <2>7. i < j \/ j < i
    BY <2>5, <2>6
  <2>8. QED
    BY <1>2, <2>6, <2>7
<1>4. PICK i \in 0 .. Count : w[i] = Top
  BY <1>3
<1>5. i \in Nat /\ i <= n
  BY NodesAreCounted
<1>6. QED
  BY <1>4, <1>5, WalkStays DEF w, Ends

\* Nor does a longer one.
LEMMA NoWayBack ==
  ASSUME NEW up \in Links, Loopless(up), NEW c \in Nodes, NEW n \in Nat, n # 0
  PROVE  Walk(up, c)[n] # c
<1>1. CASE n <= Count
  BY <1>1, NodesAreCounted DEF Loopless
<1>2. CASE ~(n <= Count)
  BY <1>2, WalksEnd, NodesAreCounted
<1>3. QED
  BY <1>1, <1>2

\* Acyclic says that no walk comes back.
LEMMA LooplessIs ==
  ASSUME NEW up \in Links
  PROVE  /\ Loopless(up) <=> \A c \in Nodes : c \notin Threading!Above(up, c)
         /\ Loopless(up) <=> \A c \in Nodes : up[c] # Top => c \notin Threading!Above(up, c)
<1>1. \A c \in Nodes : c \notin Threading!Above(up, c) <=> \A n \in 1 .. Count : Walk(up, c)[n] # c
  BY AboveIs
<1>2. Loopless(up) <=> \A c \in Nodes : c \notin Threading!Above(up, c)
  BY <1>1 DEF Loopless
<1>3. ASSUME NEW c \in Nodes, up[c] = Top
      PROVE  c \notin Threading!Above(up, c)
  <2>1. IsWalk(Walk(up, c), up, c)
    BY WalkIs DEF Ends
  <2>2. Walk(up, c)[0 + 1] = Up(up, Walk(up, c)[0]) /\ Walk(up, c)[0] = c
    BY <2>1 DEF IsWalk
  <2>3. Walk(up, c)[1] = Top
    BY <1>3, <2>2 DEF Up
  <2>4. \A n \in 1 .. Count : Walk(up, c)[n] = Top
    BY <2>3, WalkStays, NodesAreCounted DEF Ends
  <2>5. QED
    BY <1>1, <2>4, NodesAreCounted
<1>4. QED
  BY <1>2, <1>3

\* Where all links of one are links of the other, so are the walks.
Within(up, wide) == \A c \in Nodes : up[c] # Top => wide[c] = up[c]
LEMMA WalksWithin ==
  ASSUME NEW up \in Links, NEW wide \in Links, Within(up, wide), NEW c \in Nodes, NEW n \in Nat, Walk(up, c)[n] # Top
  PROVE  Walk(wide, c)[n] = Walk(up, c)[n]
<1> DEFINE w == Walk(up, c)
           v == Walk(wide, c)
           S == {k \in Nat : w[k] # Top => v[k] = w[k]}
<1>1. IsWalk(w, up, c) /\ IsWalk(v, wide, c)
  BY WalkIs DEF Ends
<1> HIDE DEF w, v
<1>2. 0 \in S
  BY <1>1 DEF IsWalk
<1>3. ASSUME NEW k \in Nat, k \in S PROVE k + 1 \in S
  <2> SUFFICES ASSUME w[k + 1] # Top PROVE v[k + 1] = w[k + 1]
    OBVIOUS
  <2>1. w[k + 1] = Up(up, w[k]) /\ v[k + 1] = Up(wide, v[k]) /\ w[k] \in Ends
    BY <1>1 DEF IsWalk
  <2>2. w[k] # Top /\ w[k + 1] = up[w[k]] /\ w[k] \in Nodes
    BY <2>1 DEF Up, Ends
  <2>3. v[k] = w[k]
    BY <1>3, <2>2
  <2>4. QED
    BY <2>1, <2>2, <2>3 DEF Up, Within
<1> HIDE DEF S
<1>4. n \in S
  BY <1>2, <1>3, FromNull
<1>5. QED
  BY <1>4 DEF S, w, v

\* What has fewer links has no loop either.
LEMMA FewerLinks ==
  ASSUME NEW up \in Links, NEW wide \in Links, Within(up, wide), Loopless(wide)
  PROVE  Loopless(up)
<1> SUFFICES ASSUME NEW c \in Nodes, NEW n \in 1 .. Count, Walk(up, c)[n] = c
             PROVE  FALSE
  BY DEF Loopless
<1>1. n \in Nat /\ c # Top
  BY NodesAreCounted
<1>2. Walk(wide, c)[n] = c
  BY <1>1, WalksWithin
<1>3. QED
  BY <1>2 DEF Loopless

\* The link that is made where hasAncestor allows it closes no loop: a way back to where it began
\* would pass the new link, and go on from the parent to the child.
LEMMA PutHolds ==
  ASSUME NEW up \in Links, NEW p \in Nodes, NEW c \in Nodes
  PROVE  /\ Threading!Put(up, p, c) \in Links
         /\ Within(up, Threading!Put(up, p, c))
         /\ Loopless(up) => Loopless(Threading!Put(up, p, c))
<1> DEFINE new == [up EXCEPT ![c] = p]
<1>1. CASE ~Threading!MayLink(up, p, c)
  BY <1>1 DEF Threading!Put, Within
<1>2. CASE Threading!MayLink(up, p, c)
  <2>1. Threading!Put(up, p, c) = new
    BY <1>2 DEF Threading!Put
  <2>2. up[c] = Top /\ c # p /\ c \notin Threading!Above(up, p)
    BY <1>2 DEF Threading!MayLink, Top
  <2>3. new \in Links /\ new[c] = p /\ \A x \in Nodes : x # c => new[x] = up[x]
    BY DEF Links, Ends
  <2> HIDE DEF new
  <2>4. Within(up, new)
    BY <2>2, <2>3 DEF Within
  <2>5. \A x \in Ends : x # c => Up(new, x) = Up(up, x)
    BY <2>3 DEF Up, Ends
  <2>6. ASSUME Loopless(up) PROVE Loopless(new)
    \* From the parent the walk does not change.
    <3>1. ASSUME NEW x \in Nodes, NEW m \in Nat, \A k \in 0 .. m : k < m => Walk(up, x)[k] # c
          PROVE  \A k \in 0 .. m : Walk(new, x)[k] = Walk(up, x)[k]
      <4> DEFINE w == Walk(up, x)
                 v == Walk(new, x)
                 S == {k \in Nat : k <= m => v[k] = w[k]}
      <4>1. IsWalk(w, up, x) /\ IsWalk(v, new, x)
        BY <2>3, WalkIs DEF Ends
      <4>2. \A k \in 0 .. m : k < m => w[k] # c
        BY <3>1
      <4> HIDE DEF w, v
      <4>3. 0 \in S
        BY <4>1 DEF IsWalk
      <4>4. ASSUME NEW k \in Nat, k \in S PROVE k + 1 \in S
        <5> SUFFICES ASSUME k + 1 <= m PROVE v[k + 1] = w[k + 1]
          OBVIOUS
        <5>1. v[k] = w[k] /\ w[k] # c /\ w[k] \in Ends
          BY <4>1, <4>2, <4>4 DEF IsWalk
        <5>2. v[k + 1] = Up(new, v[k]) /\ w[k + 1] = Up(up, w[k])
          BY <4>1 DEF IsWalk
        <5>3. QED
          BY <2>5, <5>1, <5>2
      <4> HIDE DEF S
      <4>5. Nat \subseteq S
        BY <4>3, <4>4, FromNull
      <4>6. QED
        BY <4>5 DEF S, w, v
    <3>2. \A k \in Nat : Walk(up, p)[k] # c
      <4>1. ASSUME NEW k \in Nat PROVE Walk(up, p)[k] # c
        <5>1. CASE k = 0
          <6>1. IsWalk(Walk(up, p), up, p)
            BY WalkIs DEF Ends
          <6>2. QED
            BY <2>2, <5>1, <6>1 DEF IsWalk
        <5>2. CASE k \in 1 .. Count
          BY <2>2, <5>2, AboveIs
        <5>3. CASE k > Count
          BY <2>6, <5>3, WalksEnd, NodesAreCounted
        <5>4. QED
          BY <5>1, <5>2, <5>3, NodesAreCounted
      <4>2. QED
        BY <4>1
    <3>3. \A k \in Nat : Walk(new, p)[k] # c
      <4>1. ASSUME NEW k \in Nat PROVE Walk(new, p)[k] # c
        <5>1. k \in 0 .. k /\ \A i \in 0 .. k : i < k => Walk(up, p)[i] # c
          BY <3>2
        <5>2. Walk(new, p)[k] = Walk(up, p)[k]
          BY <3>1, <5>1
        <5>3. QED
          BY <3>2, <5>2
      <4>2. QED
        BY <4>1
    <3>4. SUFFICES ASSUME NEW x \in Nodes, NEW n \in 1 .. Count, Walk(new, x)[n] = x
                   PROVE  FALSE
      BY DEF Loopless
    <3>5. n \in Nat /\ n # 0
      BY NodesAreCounted
    <3>6. CASE \A k \in 0 .. n : k < n => Walk(up, x)[k] # c
      <4>1. Walk(new, x)[n] = Walk(up, x)[n]
        BY <3>1, <3>5, <3>6
      <4>2. QED
        BY <2>6, <3>4, <4>1 DEF Loopless
    <3>7. CASE \E k \in 0 .. n : k < n /\ Walk(up, x)[k] = c
      <4> DEFINE S == {k \in 0 .. n : k < n /\ Walk(up, x)[k] = c}
      <4>1. PICK k \in S : \A i \in S : ~(i < k)
        <5>1. S \subseteq Nat /\ S # {}
          BY <3>5, <3>7
        <5> HIDE DEF S
        <5>2. PICK k \in S : \A i \in S : <<i, k>> \notin OpToRel(<, Nat)
          BY <5>1, NatLessThanWellFounded, WFMin
        <5>3. QED
          BY <5>1, <5>2 DEF OpToRel
      <4>2. k \in Nat /\ k < n /\ Walk(up, x)[k] = c
        BY <3>5, <4>1
      <4>3. \A i \in 0 .. k : i < k => Walk(up, x)[i] # c
        BY <3>5, <4>1, <4>2
      <4>4. Walk(new, x)[k] = c
        BY <3>1, <4>2, <4>3
      <4>5. Walk(new, c)[1] = p
        <5>1. IsWalk(Walk(new, c), new, c)
          BY <2>3, WalkIs DEF Ends
        <5>2. Walk(new, c)[0 + 1] = Up(new, Walk(new, c)[0]) /\ Walk(new, c)[0] = c
          BY <5>1 DEF IsWalk
        <5>3. c # Top
          BY NodesAreCounted
        <5>4. QED
          BY <2>3, <5>2, <5>3 DEF Up
      <4>6. Walk(new, x)[k + 1] = p
        <5>1. x \in Ends /\ 1 \in Nat /\ k \in Nat
          BY <4>2 DEF Ends
        <5> HIDE DEF S
        <5>2. Walk(new, Walk(new, x)[k])[1] = Walk(new, x)[k + 1]
          BY <2>3, <5>1, WalkOn
        <5>3. QED
          BY <4>4, <4>5, <5>2
      <4>7. Walk(new, p)[n - (k + 1)] = x
        <5>1. n - (k + 1) \in Nat /\ k + 1 \in Nat /\ (k + 1) + (n - (k + 1)) = n
          BY <3>5, <4>2
        <5>2. Walk(new, Walk(new, x)[k + 1])[n - (k + 1)] = Walk(new, x)[(k + 1) + (n - (k + 1))]
          BY <2>3, <5>1, WalkOn DEF Ends
        <5>3. QED
          BY <3>4, <4>6, <5>1, <5>2
      <4>8. Walk(new, p)[(n - (k + 1)) + k] = c
        <5>1. n - (k + 1) \in Nat
          BY <3>5, <4>2
        <5>2. Walk(new, Walk(new, p)[n - (k + 1)])[k] = Walk(new, p)[(n - (k + 1)) + k]
          BY <2>3, <4>2, <5>1, WalkOn DEF Ends
        <5>3. QED
          BY <4>4, <4>7, <5>2
      <4>9. QED
        BY <3>3, <3>5, <4>2, <4>8
    <3>8. QED
      BY <3>6, <3>7
  <2>7. QED
    BY <2>1, <2>3, <2>4, <2>6
<1>3. QED
  BY <1>1, <1>2

\* Hang makes the links of a path one after the other.
HungAs(f, up, path) ==
  /\ f[0] = up
  /\ \A n \in 1 .. Len(path) - 1 : f[n] = Threading!Put(f[n - 1], path[n], path[n + 1])
LEMMA HangIs ==
  ASSUME NEW up \in Links, NEW path \in Seq(Nodes), path # <<>>
  PROVE  \E f \in [0 .. Len(path) - 1 -> Links] : HungAs(f, up, path) /\ Threading!Hang(up, path) = f[Len(path) - 1]
<1> DEFINE M == Len(path) - 1
           G(f) == [n \in 0 .. M |-> IF n = 0 THEN up ELSE Threading!Put(f[n - 1], path[n], path[n + 1])]
           links == CHOOSE f : f = G(f)
           g == [q \in Nat \X Links |-> IF q[1] < M THEN Threading!Put(q[2], path[q[1] + 1], path[q[1] + 2]) ELSE up]
<1>1. M \in Nat
  BY EmptySeq, LenProperties
<1>2. \A n \in Nat, v \in Links :
        g[<<n, v>>] \in Links /\ (n < M => g[<<n, v>>] = Threading!Put(v, path[n + 1], path[n + 2]))
  <2> SUFFICES ASSUME NEW n \in Nat, NEW v \in Links
               PROVE  g[<<n, v>>] \in Links /\ (n < M => g[<<n, v>>] = Threading!Put(v, path[n + 1], path[n + 2]))
    OBVIOUS
  <2>1. g[<<n, v>>] = IF n < M THEN Threading!Put(v, path[n + 1], path[n + 2]) ELSE up
    OBVIOUS
  <2>2. n < M => path[n + 1] \in Nodes /\ path[n + 2] \in Nodes
    BY <1>1, ElementOfSeq
  <2> HIDE DEF g, M
  <2>3. n < M => Threading!Put(v, path[n + 1], path[n + 2]) \in Links
    BY <2>2, PutHolds
  <2>4. QED
    BY <2>1, <2>3
<1> HIDE DEF g
<1>3. PICK h \in [Nat -> Links] : Makes(h, up, g)
  BY <1>2, Recursion
<1> DEFINE k == [n \in 0 .. M |-> h[n]]
<1>4. ASSUME NEW n \in 1 .. M PROVE h[n] = Threading!Put(h[n - 1], path[n], path[n + 1])
  <2>1. n - 1 \in Nat /\ (n - 1) + 1 = n /\ (n - 1) + 2 = n + 1 /\ n - 1 < M
    BY <1>1
  <2>2. h[(n - 1) + 1] = g[<<n - 1, h[n - 1]>>] /\ h[n - 1] \in Links
    BY <1>3, <2>1 DEF Makes
  <2>3. QED
    BY <1>2, <2>1, <2>2
<1>5. k = G(k)
  <2> SUFFICES ASSUME NEW n \in 0 .. M
               PROVE  h[n] = IF n = 0 THEN up ELSE Threading!Put(k[n - 1], path[n], path[n + 1])
    OBVIOUS
  <2>1. CASE n = 0
    BY <1>3, <2>1 DEF Makes
  <2>2. CASE n # 0
    <3>1. n \in 1 .. M /\ n - 1 \in 0 .. M
      BY <1>1, <2>2
    <3>2. k[n - 1] = h[n - 1]
      BY <3>1
    <3>3. QED
      BY <1>4, <2>2, <3>1, <3>2
  <2>3. QED
    BY <2>1, <2>2
<1>6. links = G(links)
  <2> HIDE DEF k, G
  <2>1. QED
    BY <1>5
<1>7. Threading!Hang(up, path) = links[M]
  BY DEF Threading!Hang
<1> HIDE DEF links
<1>8. links[0] = up /\ \A n \in 1 .. M : links[n] = Threading!Put(links[n - 1], path[n], path[n + 1])
  <2>1. links[0] = up
    <3>1. 0 \in 0 .. M
      BY <1>1
    <3>2. QED
      BY <1>6, <3>1
  <2>2. ASSUME NEW n \in 1 .. M PROVE links[n] = Threading!Put(links[n - 1], path[n], path[n + 1])
    <3>1. n \in 0 .. M /\ n # 0
      BY <1>1
    <3>2. QED
      BY <1>6, <3>1
  <2>3. QED
    BY <2>1, <2>2
<1>9. \A n \in 0 .. M : links[n] \in Links
  <2> DEFINE S == {n \in Nat : n <= M => links[n] \in Links}
  <2>1. 0 \in S
    BY <1>8
  <2>2. ASSUME NEW n \in Nat, n \in S PROVE n + 1 \in S
    <3> SUFFICES ASSUME n + 1 <= M PROVE links[n + 1] \in Links
      OBVIOUS
    <3>1. n + 1 \in 1 .. M /\ (n + 1) - 1 = n /\ links[n] \in Links
      BY <1>1, <2>2
    <3>2. links[n + 1] = Threading!Put(links[n], path[n + 1], path[(n + 1) + 1])
      BY <1>8, <3>1
    <3>3. path[n + 1] \in Nodes /\ path[(n + 1) + 1] \in Nodes
      BY <1>1, <3>1, ElementOfSeq
    <3>4. QED
      BY <3>1, <3>2, <3>3, PutHolds
  <2> HIDE DEF S, M
  <2>3. Nat \subseteq S
    BY <2>1, <2>2, FromNull
  <2>4. QED
    BY <1>1, <2>3 DEF S
<1>10. links \in [0 .. M -> Links]
  <2>1. links = [n \in 0 .. M |-> links[n]]
    BY <1>6
  <2>2. QED
    BY <1>9, <2>1
<1>11. QED
  BY <1>7, <1>8, <1>10 DEF HungAs

\* The links a path asks for.
Asked(path) == {<<path[i], path[i + 1]>> : i \in 1 .. Len(path) - 1}

\* Hanging a path keeps the links there are, adds only what the path asks for, and closes no loop.
LEMMA HangHolds ==
  ASSUME NEW up \in Links, NEW path \in Seq(Nodes), path # <<>>
  PROVE  LET new == Threading!Hang(up, path)
         IN  /\ new \in Links
             /\ Within(up, new)
             /\ \A c \in Nodes : new[c] # up[c] => <<new[c], c>> \in Asked(path)
             /\ Loopless(up) => Loopless(new)
<1> DEFINE M == Len(path) - 1
<1>1. M \in Nat
  BY EmptySeq, LenProperties
<1>2. PICK f \in [0 .. M -> Links] : HungAs(f, up, path) /\ Threading!Hang(up, path) = f[M]
  BY HangIs
<1> DEFINE Holds(new) == /\ new \in Links
                         /\ Within(up, new)
                         /\ \A c \in Nodes : new[c] # up[c] => <<new[c], c>> \in Asked(path)
                         /\ Loopless(up) => Loopless(new)
           S == {n \in Nat : n <= M => Holds(f[n])}
<1>3. 0 \in S
  BY <1>2 DEF HungAs, Within
<1>4. ASSUME NEW n \in Nat, n \in S PROVE n + 1 \in S
  <2> SUFFICES ASSUME n + 1 <= M PROVE Holds(f[n + 1])
    OBVIOUS
  <2>1. Holds(f[n])
    BY <1>4
  <2>2. n + 1 \in 1 .. M /\ (n + 1) - 1 = n
    BY <1>1
  <2>3. f[n + 1] = Threading!Put(f[n], path[n + 1], path[(n + 1) + 1])
    BY <1>2, <2>2 DEF HungAs
  <2> DEFINE a == path[n + 1]
             b == path[(n + 1) + 1]
             old == f[n]
             new == f[n + 1]
  <2>4. a \in Nodes /\ b \in Nodes
    BY <1>1, <2>2, ElementOfSeq
  <2>5. <<a, b>> \in Asked(path)
    BY <2>2 DEF Asked
  <2>6. new = Threading!Put(old, a, b)
    BY <2>3
  <2>7. \A c \in Nodes : new[c] # old[c] => c = b /\ new[c] = a
    BY <2>1, <2>4, <2>6 DEF Threading!Put, Links
  <2> HIDE DEF a, b, old, new, S, M
  <2>8. old \in Links /\ Within(up, old) /\ (Loopless(up) => Loopless(old))
        /\ \A c \in Nodes : old[c] # up[c] => <<old[c], c>> \in Asked(path)
    BY <2>1 DEF old
  <2>9. new \in Links /\ Within(old, new) /\ (Loopless(old) => Loopless(new))
    BY <2>4, <2>6, <2>8, PutHolds
  <2>10. Within(up, new)
    BY <2>8, <2>9 DEF Within
  <2>11. \A c \in Nodes : new[c] # up[c] => <<new[c], c>> \in Asked(path)
    BY <2>5, <2>7, <2>8
  <2>12. QED
    BY <2>8, <2>9, <2>10, <2>11 DEF new
<1> HIDE DEF S
<1>5. M \in S
  BY <1>1, <1>3, <1>4, FromNull
<1>6. Holds(f[M])
  BY <1>1, <1>5 DEF S
<1>7. QED
  BY <1>2, <1>6

\* Reference chains that tell of one tree: at most one id before each, and no loop.
FromTold(told) == [c \in Nodes |-> IF \E e \in told : e[2] = c THEN (CHOOSE e \in told : e[2] = c)[1] ELSE Top]
OneTree(told) ==
  /\ \A d, e \in told : d[2] = e[2] => d = e
  /\ Loopless(FromTold(told))

\* Its function chooses one of the links told of.
LEMMA ToldIsLinks ==
  ASSUME NEW told, told \subseteq Nodes \X Nodes
  PROVE  /\ FromTold(told) \in Links
         /\ \A c \in Nodes : FromTold(told)[c] # Top => <<FromTold(told)[c], c>> \in told
         /\ \A e \in told : FromTold(told)[e[2]] # Top
<1> DEFINE choice(c) == CHOOSE e \in told : e[2] = c
<1>1. \A c \in Nodes : (\E e \in told : e[2] = c) => choice(c) \in told /\ choice(c)[2] = c
  OBVIOUS
<1>2. \A c \in Nodes : FromTold(told)[c] = IF \E e \in told : e[2] = c THEN choice(c)[1] ELSE Top
  BY DEF FromTold
<1> HIDE DEF choice
<1>3. \A e \in told : e[2] \in Nodes /\ e[1] \in Nodes /\ e = <<e[1], e[2]>>
  OBVIOUS
<1>4. \A c \in Nodes : FromTold(told)[c] \in Ends
  BY <1>1, <1>2, <1>3 DEF Ends
<1>5. FromTold(told) \in Links
  BY <1>4 DEF FromTold, Links
<1>6. ASSUME NEW c \in Nodes, FromTold(told)[c] # Top
      PROVE  <<FromTold(told)[c], c>> \in told
  <2>1. choice(c) \in told /\ choice(c)[2] = c /\ FromTold(told)[c] = choice(c)[1]
    BY <1>1, <1>2, <1>6
  <2>2. choice(c) = <<choice(c)[1], choice(c)[2]>>
    BY <1>3, <2>1
  <2>3. QED
    BY <2>1, <2>2
<1>7. ASSUME NEW e \in told PROVE FromTold(told)[e[2]] # Top
  <2>1. choice(e[2]) \in told /\ FromTold(told)[e[2]] = choice(e[2])[1]
    BY <1>1, <1>2, <1>3
  <2>2. QED
    BY <1>3, <2>1, NodesAreCounted
<1>8. QED
  BY <1>5, <1>6, <1>7

\* Where each has one before it, that is the one.
LEMMA ToldLinks ==
  ASSUME NEW told, told \subseteq Nodes \X Nodes, \A d, e \in told : d[2] = e[2] => d = e
  PROVE  \A e \in told : FromTold(told)[e[2]] = e[1]
<1> SUFFICES ASSUME NEW e \in told PROVE FromTold(told)[e[2]] = e[1]
  OBVIOUS
<1>1. e[2] \in Nodes /\ FromTold(told)[e[2]] # Top
  BY ToldIsLinks
<1>2. PICK d : d = <<FromTold(told)[e[2]], e[2]>>
  OBVIOUS
<1>3. d \in told /\ d[2] = e[2] /\ d[1] = FromTold(told)[e[2]]
  BY <1>1, <1>2, ToldIsLinks
<1>4. QED
  BY <1>3

\* A part of a tree is one.
LEMMA OneTreeShrinks ==
  ASSUME NEW wide, wide \subseteq Nodes \X Nodes, OneTree(wide), NEW told, told \subseteq wide
  PROVE  OneTree(told)
<1>1. told \subseteq Nodes \X Nodes /\ \A d, e \in told : d[2] = e[2] => d = e
  BY DEF OneTree
<1>2. FromTold(told) \in Links /\ FromTold(wide) \in Links
  BY <1>1, ToldIsLinks
<1>3. Within(FromTold(told), FromTold(wide))
  <2> SUFFICES ASSUME NEW c \in Nodes, FromTold(told)[c] # Top
               PROVE  FromTold(wide)[c] = FromTold(told)[c]
    BY DEF Within
  <2>1. PICK e : e = <<FromTold(told)[c], c>>
    OBVIOUS
  <2>2. e \in wide /\ e[2] = c /\ e[1] = FromTold(told)[c]
    BY <1>1, <2>1, ToldIsLinks
  <2>3. FromTold(wide)[e[2]] = e[1]
    BY <2>2, ToldLinks DEF OneTree
  <2>4. QED
    BY <2>2, <2>3
<1>4. Loopless(FromTold(told))
  BY <1>2, <1>3, FewerLinks DEF OneTree
<1>5. QED
  BY <1>1, <1>4 DEF OneTree

\* A path of such a tree is hung whole.
LEMMA HangTold ==
  ASSUME NEW up \in Links, NEW path \in Seq(Nodes), path # <<>>,
         NEW told, told \subseteq Nodes \X Nodes, OneTree(told), Asked(path) \subseteq told,
         \A c \in Nodes : up[c] # Top => <<up[c], c>> \in told
  PROVE  \A e \in Asked(path) : Threading!Hang(up, path)[e[2]] = e[1]
<1> DEFINE M == Len(path) - 1
           tree == FromTold(told)
<1>1. M \in Nat
  BY EmptySeq, LenProperties
<1>2. PICK f \in [0 .. M -> Links] : HungAs(f, up, path) /\ Threading!Hang(up, path) = f[M]
  BY HangIs
<1>3. tree \in Links /\ Loopless(tree) /\ \A e \in told : tree[e[2]] = e[1]
  BY ToldIsLinks, ToldLinks DEF OneTree
<1> HIDE DEF tree
<1> DEFINE Hung(n) == /\ \A c \in Nodes : f[n][c] # Top => <<f[n][c], c>> \in told
                      /\ \A i \in 1 .. n : f[n][path[i + 1]] = path[i]
           S == {n \in Nat : n <= M => Hung(n)}
<1>4. 0 \in S
  BY <1>2 DEF HungAs
<1>5. ASSUME NEW n \in Nat, n \in S PROVE n + 1 \in S
  <2> SUFFICES ASSUME n + 1 <= M PROVE Hung(n + 1)
    OBVIOUS
  <2>1. Hung(n)
    BY <1>5
  <2>2. n + 1 \in 1 .. M /\ (n + 1) - 1 = n
    BY <1>1
  <2>3. f[n + 1] = Threading!Put(f[n], path[n + 1], path[(n + 1) + 1])
    BY <1>2, <2>2 DEF HungAs
  <2> DEFINE a == path[n + 1]
             b == path[(n + 1) + 1]
             old == f[n]
             new == f[n + 1]
  <2>4. a \in Nodes /\ b \in Nodes /\ \A i \in 1 .. n : path[i] \in Nodes /\ path[i + 1] \in Nodes
    BY <1>1, <2>2, ElementOfSeq
  <2>5. <<a, b>> \in told
    BY <2>2 DEF Asked
  <2>6. new = Threading!Put(old, a, b) /\ old \in Links
    BY <1>1, <2>2, <2>3
  <2>7. \A c \in Nodes : old[c] # Top => <<old[c], c>> \in told
    BY <2>1
  <2>8. \A i \in 1 .. n : old[path[i + 1]] = path[i]
    BY <2>1
  <2> HIDE DEF a, b, old, new, S, M
  <2>9. new \in Links /\ Within(old, new) /\ \A c \in Nodes : new[c] # old[c] => c = b /\ new[c] = a
    <3>1. new \in Links /\ Within(old, new)
      BY <2>4, <2>6, PutHolds
    <3>2. QED
      BY <2>4, <2>6, <3>1 DEF Threading!Put, Links
  <2>10. Within(old, tree)
    BY <1>3, <2>7 DEF Within
  <2>11. new[b] = a
    <3>1. CASE old[b] # Top
      <4>1. tree[b] = a /\ tree[b] = old[b]
        BY <1>3, <2>4, <2>5, <2>10, <3>1 DEF Within
      <4>2. QED
        BY <2>4, <2>9, <3>1, <4>1 DEF Within
    <3>2. CASE old[b] = Top
      <4>1. Walk(tree, b)[1] = a
        <5>1. IsWalk(Walk(tree, b), tree, b)
          BY <1>3, <2>4, WalkIs DEF Ends
        <5>2. Walk(tree, b)[0 + 1] = Up(tree, Walk(tree, b)[0]) /\ Walk(tree, b)[0] = b
          BY <5>1 DEF IsWalk
        <5>3. tree[b] = a /\ b # Top
          BY <1>3, <2>4, <2>5, NodesAreCounted
        <5>4. QED
          BY <5>2, <5>3 DEF Up
      <4>2. a # b
        BY <1>3, <2>4, <4>1, NoWayBack
      <4>3. ASSUME NEW n1 \in 1 .. Count, Walk(old, a)[n1] = b PROVE FALSE
        <5>1. n1 \in Nat /\ 1 + n1 \in Nat /\ 1 + n1 # 0 /\ b # Top
          BY <2>4, NodesAreCounted
        <5>2. Walk(tree, a)[n1] = b
          BY <1>3, <2>4, <2>6, <2>10, <4>3, <5>1, WalksWithin
        <5>3. Walk(tree, Walk(tree, b)[1])[n1] = Walk(tree, b)[1 + n1]
          <6>1. b \in Ends /\ 1 \in Nat
            BY <2>4 DEF Ends
          <6>2. QED
            BY <1>3, <5>1, <6>1, WalkOn
        <5>4. Walk(tree, b)[1 + n1] = b
          BY <4>1, <5>2, <5>3
        <5>5. QED
          BY <1>3, <2>4, <5>1, <5>4, NoWayBack
      <4>4. b \notin Threading!Above(old, a)
        BY <2>4, <2>6, <4>3, AboveIs
      <4>5. Threading!MayLink(old, a, b)
        BY <3>2, <4>2, <4>4 DEF Threading!MayLink, Top
      <4>6. QED
        BY <2>4, <2>6, <4>5 DEF Threading!Put, Links
    <3>3. QED
      BY <3>1, <3>2
  <2>12. \A c \in Nodes : new[c] # Top => <<new[c], c>> \in told
    BY <2>5, <2>7, <2>9
  <2>13. ASSUME NEW i \in 1 .. n + 1 PROVE new[path[i + 1]] = path[i]
    <3>1. CASE i = n + 1
      BY <2>11, <3>1 DEF a, b
    <3>2. CASE i # n + 1
      <4>1. i \in 1 .. n
        BY <3>2
      <4>2. old[path[i + 1]] = path[i] /\ path[i] \in Nodes /\ path[i + 1] \in Nodes
        BY <2>4, <2>8, <4>1
      <4>3. QED
        BY <2>9, <4>2, NodesAreCounted DEF Within
    <3>3. QED
      BY <3>1, <3>2
  <2>14. QED
    BY <2>12, <2>13 DEF new
<1> HIDE DEF S
<1>6. M \in S
  BY <1>1, <1>4, <1>5, FromNull
<1>7. \A i \in 1 .. M : f[M][path[i + 1]] = path[i]
  BY <1>1, <1>6 DEF S
<1>8. QED
  BY <1>2, <1>7 DEF Asked

\* A container is under a root when the walk up from it passes the root.
IsUnder(up, r, c) == c = r \/ r \in Threading!Above(up, c)
LEMMA UnderIs ==
  ASSUME NEW up \in Links, Loopless(up), NEW c \in Nodes, NEW r \in Nodes
  PROVE  IsUnder(up, r, c) <=> \E n \in Nat : Walk(up, c)[n] = r
<1>1. IsWalk(Walk(up, c), up, c)
  BY WalkIs DEF Ends
<1>2. Walk(up, c)[0] = c
  BY <1>1 DEF IsWalk
<1>3. r \in Threading!Above(up, c) <=> \E n \in 1 .. Count : Walk(up, c)[n] = r
  BY AboveIs
<1>4. ASSUME NEW n \in Nat, Walk(up, c)[n] = r
      PROVE  n = 0 \/ n \in 1 .. Count
  <2>1. ~(n >= Count)
    BY <1>4, WalksEnd, NodesAreCounted
  <2>2. QED
    BY <2>1, NodesAreCounted
<1>5. ASSUME IsUnder(up, r, c)
      PROVE  \E n \in Nat : Walk(up, c)[n] = r
  <2>1. CASE c = r
    BY <1>2, <2>1
  <2>2. CASE r \in Threading!Above(up, c)
    <3>1. PICK n \in 1 .. Count : Walk(up, c)[n] = r
      BY <1>3, <2>2
    <3>2. n \in Nat
      BY NodesAreCounted
    <3>3. QED
      BY <3>1, <3>2
  <2>3. QED
    BY <1>5, <2>1, <2>2 DEF IsUnder
<1>6. ASSUME NEW n \in Nat, Walk(up, c)[n] = r
      PROVE  IsUnder(up, r, c)
  BY <1>2, <1>3, <1>4, <1>6 DEF IsUnder
<1>7. QED
  BY <1>5, <1>6

\* The roots a container is under.
RootsOf(up, c) == {r \in Nodes : up[r] = Top /\ IsUnder(up, r, c)}

\* There is one.
LEMMA OneRoot ==
  ASSUME NEW up \in Links, Loopless(up), NEW c \in Nodes
  PROVE  \E r \in Nodes : RootsOf(up, c) = {r}
<1> DEFINE w == Walk(up, c)
           S == {n \in Nat : w[n] = Top}
<1>1. IsWalk(w, up, c)
  BY WalkIs DEF Ends
<1>2. S # {} /\ S \subseteq Nat
  <2>1. w[Count] = Top
    BY WalksEnd, NodesAreCounted
  <2>2. QED
    BY <2>1, NodesAreCounted
<1> HIDE DEF w
<1>3. PICK k \in S : \A i \in S : ~(i < k)
  <2> HIDE DEF S
  <2>1. PICK k \in S : \A i \in S : <<i, k>> \notin OpToRel(<, Nat)
    BY <1>2, NatLessThanWellFounded, WFMin
  <2>2. QED
    BY <1>2, <2>1 DEF OpToRel
<1>4. k # 0
  BY <1>1, <1>3, NodesAreCounted DEF IsWalk
<1>5. k - 1 \in Nat /\ (k - 1) + 1 = k /\ k - 1 < k
  BY <1>2, <1>4
<1>6. w[k - 1] # Top
  BY <1>3, <1>5
<1>7. w[k - 1] \in Nodes
  BY <1>1, <1>5, <1>6 DEF IsWalk, Ends
<1>8. w[(k - 1) + 1] = Up(up, w[k - 1])
  BY <1>1, <1>5 DEF IsWalk
<1>9. up[w[k - 1]] = Top
  BY <1>3, <1>5, <1>6, <1>8 DEF Up
<1>10. IsUnder(up, w[k - 1], c)
  BY <1>5, <1>7, UnderIs DEF w
<1>11. ASSUME NEW q \in Nodes, up[q] = Top, IsUnder(up, q, c)
       PROVE  q = w[k - 1]
  <2>1. PICK n \in Nat : w[n] = q
    BY <1>11, UnderIs DEF w
  <2>2. w[n] # Top
    BY <2>1, NodesAreCounted
  <2>3. n < k
    <3>1. k \in Nat /\ w[k] = Top
      BY <1>2, <1>3
    <3>2. k <= n => w[n] = Top
      BY <3>1, WalkStays DEF w, Ends
    <3>3. QED
      BY <2>2, <3>1, <3>2
  <2>4. w[n + 1] = Up(up, w[n])
    BY <1>1 DEF IsWalk
  <2>5. w[n + 1] = Top
    BY <1>11, <2>1, <2>2, <2>4 DEF Up
  <2>6. ~(n + 1 < k)
    BY <1>3, <2>5
  <2>7. n = k - 1
    BY <1>5, <2>3, <2>6
  <2>8. QED
    BY <2>1, <2>7
<1>12. RootsOf(up, c) = {w[k - 1]}
  BY <1>7, <1>9, <1>10, <1>11 DEF RootsOf
<1>13. QED
  BY <1>7, <1>12

\* A link does not leave its tree.
LEMMA SameRoots ==
  ASSUME NEW up \in Links, Loopless(up), NEW a \in Nodes, NEW b \in Nodes, up[b] = a
  PROVE  RootsOf(up, b) = RootsOf(up, a)
<1>0. b \in Ends /\ b # Top /\ a # Top /\ 1 \in Nat
  BY NodesAreCounted DEF Ends
<1>1. IsWalk(Walk(up, b), up, b)
  BY <1>0, WalkIs
<1>2. Walk(up, b)[0] = b /\ Walk(up, b)[0 + 1] = Up(up, Walk(up, b)[0])
  BY <1>1 DEF IsWalk
<1>3. Walk(up, b)[1] = a
  BY <1>0, <1>2 DEF Up
<1>4. \A n \in Nat : Walk(up, a)[n] = Walk(up, b)[1 + n]
  BY <1>0, <1>3, WalkOn
<1>5. ASSUME NEW r \in Nodes, up[r] = Top
      PROVE  IsUnder(up, r, a) <=> IsUnder(up, r, b)
  <2>1. ASSUME NEW n \in Nat, Walk(up, a)[n] = r
        PROVE  \E i \in Nat : Walk(up, b)[i] = r
    <3>1. 1 + n \in Nat /\ Walk(up, b)[1 + n] = r
      BY <1>4, <2>1
    <3>2. QED
      BY <3>1
  <2>2. ASSUME NEW n \in Nat, Walk(up, b)[n] = r
        PROVE  \E i \in Nat : Walk(up, a)[i] = r
    <3>1. n # 0
      BY <1>0, <1>2, <1>5, <2>2
    <3>2. n - 1 \in Nat /\ 1 + (n - 1) = n
      BY <3>1
    <3>3. Walk(up, a)[n - 1] = Walk(up, b)[1 + (n - 1)]
      BY <1>4, <3>2
    <3>4. QED
      BY <2>2, <3>2, <3>3
  <2>3. QED
    BY <2>1, <2>2, UnderIs
<1>6. QED
  BY <1>5 DEF RootsOf

\* The containers a message names, in the order of its references, itself last.
Path(m) == Append(Threading!Chain(header[m]), Threading!Named(m))

\* The messages that have arrived.
Known == {m \in Threading!Mail : header[m] \in Headers}

ThreadShape ==
  /\ header \in [Threading!Mail -> Headers \cup {Threading!NoHeader}]
  /\ mailbox \subseteq Known /\ page \subseteq Known /\ todo \subseteq Known /\ linked \subseteq Known
  /\ kept \in [Threading!Spaces -> [Uids -> Known \cup {Threading!NoMail}]]
  /\ phase \in {"idle", "store", "load", "link", "answer"} /\ space \in Threading!Spaces
  /\ holder \in [Nodes -> linked \cup {Threading!NoMail}] /\ parent \in Links
  /\ threads \subseteq SUBSET linked
  /\ arrived \in Nat /\ listings \in Nat /\ cacheFaults \in Nat
  /\ phase = "idle" => linked = {}

\* A container holds a message of its name as soon as one was linked.
HoldersHeld ==
  /\ \A c \in Nodes : holder[c] # Threading!NoMail => Threading!Named(holder[c]) = c
  /\ \A m \in linked : holder[Threading!Named(m)] # Threading!NoMail

\* The links close no loop, and are told of; where what is told of is one tree, they are all of it.
LinksHeld ==
  /\ Loopless(parent)
  /\ \A c \in Nodes : parent[c] # Top => <<parent[c], c>> \in Threading!Told
  /\ OneTree(Threading!Told) => \A e \in Threading!Told : parent[e[2]] = e[1]

ThreadInv == ThreadShape /\ HoldersHeld /\ LinksHeld /\ Threading!ShownOnce /\ Threading!RepliesTogether

\* What a header is made of.
LEMMA HeaderIs ==
  ASSUME NEW h \in Headers
  PROVE  /\ h # Threading!NoHeader
         /\ h.id \in MessageIds \cup {None}
         /\ Threading!Chain(h) \in Seq(MessageIds)
<1>1. /\ DOMAIN h = {"id", "refs", "irt", "subject"} /\ {h.id, h.irt} \subseteq MessageIds \cup {None}
      /\ h.refs \in Seq(MessageIds)
  BY MailboxAssumption DEF Threading!HeadersAssumption
<1>2. DOMAIN Threading!NoHeader = {"id"}
  BY DEF Threading!NoHeader
<1>3. h # Threading!NoHeader
  <2>1. "refs" \in DOMAIN h /\ "refs" \notin DOMAIN Threading!NoHeader
    BY <1>1, <1>2
  <2>2. QED
    BY <2>1
<1>4. Threading!Chain(h) \in Seq(MessageIds)
  <2>1. CASE h.irt = None \/ \E i \in DOMAIN h.refs : h.refs[i] = h.irt
    BY <1>1, <2>1 DEF Threading!Chain
  <2>2. CASE ~(h.irt = None \/ \E i \in DOMAIN h.refs : h.refs[i] = h.irt)
    <3>1. h.irt \in MessageIds
      BY <1>1, <2>2
    <3>2. Threading!Chain(h) = Append(h.refs, h.irt)
      BY <2>2 DEF Threading!Chain
    <3>3. QED
      BY <1>1, <3>1, <3>2, AppendProperties
  <2>3. QED
    BY <2>1, <2>2
<1>5. QED
  BY <1>1, <1>3, <1>4

\* None is no Message-ID, and a message is none.
LEMMA NamesDiffer ==
  /\ None \notin MessageIds
  /\ MessageIds \cap Threading!Mail = {}
  /\ Threading!NoMail \notin Threading!Mail
  /\ Threading!Mail \subseteq Nodes /\ MessageIds \subseteq Nodes
<1>1. None \notin MessageIds /\ MessageIds \cap Threading!Mail = {}
  BY MailboxAssumption DEF Threading!HeadersAssumption, Threading!Mail
<1>2. Threading!NoMail \notin Threading!Mail
  BY DEF Threading!NoMail, Threading!Mail
<1>3. QED
  BY <1>1, <1>2 DEF Nodes, Threading!Containers

\* A path is one of containers, and its links join containers.
LEMMA PathIs ==
  ASSUME NEW m \in Known
  PROVE  /\ Threading!Named(m) \in Nodes
         /\ Path(m) \in Seq(Nodes) /\ Path(m) # <<>>
         /\ Asked(Path(m)) \subseteq Nodes \X Nodes
         /\ Threading!LinksOf(parent, m) = Threading!Hang(parent, Path(m))
         /\ Len(Path(m)) = Len(Threading!Chain(header[m])) + 1
         /\ \A i \in 1 .. Len(Threading!Chain(header[m])) : Path(m)[i] = Threading!Chain(header[m])[i]
         /\ Path(m)[Len(Path(m))] = Threading!Named(m)
<1>1. header[m] \in Headers /\ m \in Threading!Mail
  BY DEF Known
<1>2. header[m].id \in MessageIds \cup {None} /\ Threading!Chain(header[m]) \in Seq(MessageIds)
  BY <1>1, HeaderIs
<1>3. Threading!Named(m) \in Nodes
  BY <1>1, <1>2, NamesDiffer DEF Threading!Named
<1>4. PICK chain : chain = Threading!Chain(header[m])
  OBVIOUS
<1>5. chain \in Seq(Nodes)
  BY <1>2, <1>4, NamesDiffer
<1>6. Path(m) = Append(chain, Threading!Named(m))
  BY <1>4 DEF Path
<1>7. Path(m) \in Seq(Nodes) /\ Len(Path(m)) = Len(chain) + 1 /\ Len(chain) \in Nat
  BY <1>3, <1>5, <1>6, AppendProperties, LenProperties
<1>8. Path(m) # <<>>
  BY <1>7, EmptySeq
<1>9. \A i \in 1 .. Len(Path(m)) : Path(m)[i] \in Nodes
  BY <1>7, ElementOfSeq
<1>10. Asked(Path(m)) \subseteq Nodes \X Nodes
  <2>1. \A i \in 1 .. Len(Path(m)) - 1 : i \in 1 .. Len(Path(m)) /\ i + 1 \in 1 .. Len(Path(m))
    BY <1>7
  <2>2. QED
    BY <1>9, <2>1 DEF Asked
<1>11. \A i \in 1 .. Len(chain) : Path(m)[i] = chain[i]
  BY <1>3, <1>5, <1>6, AppendProperties
<1>12. Path(m)[Len(Path(m))] = Threading!Named(m)
  BY <1>3, <1>5, <1>6, <1>7, AppendProperties
<1>13. QED
  BY <1>3, <1>4, <1>7, <1>8, <1>10, <1>11, <1>12 DEF Path, Threading!LinksOf

\* What is told of is what the paths ask for.
LEMMA ToldIs ==
  ASSUME linked \subseteq Known
  PROVE  /\ Threading!Told = UNION {Asked(Path(m)) : m \in linked}
         /\ Threading!Told \subseteq Nodes \X Nodes
         /\ Threading!Truthful <=> OneTree(Threading!Told)
<1>1. Threading!Told = UNION {Asked(Path(m)) : m \in linked}
  BY DEF Threading!Told, Asked, Path
<1>2. Threading!Told \subseteq Nodes \X Nodes
  BY <1>1, PathIs
<1>3. FromTold(Threading!Told) \in Links
  BY <1>2, ToldIsLinks
<1>4. Threading!Truthful <=>
        /\ \A d, e \in Threading!Told : d[2] = e[2] => d = e
        /\ \A c \in Nodes : c \notin Threading!Above(FromTold(Threading!Told), c)
  BY DEF Threading!Truthful, FromTold, Nodes, Top
<1>5. QED
  BY <1>1, <1>2, <1>3, <1>4, LooplessIs DEF OneTree

\* It begins with no mail and no listing.
LEMMA ThreadsBegin ==
  ASSUME Threading!Init
  PROVE  ThreadInv
<1>1. linked = {} /\ phase = "idle" /\ threads = {} /\ page = {} /\ todo = {} /\ mailbox = {}
  BY DEF Threading!Init
<1>2. ThreadShape
  <2>1. header \in [Threading!Mail -> Headers \cup {Threading!NoHeader}]
    BY DEF Threading!Init
  <2>2. kept \in [Threading!Spaces -> [Uids -> Known \cup {Threading!NoMail}]]
    BY DEF Threading!Init
  <2>3. holder \in [Nodes -> linked \cup {Threading!NoMail}] /\ parent \in Links
    BY DEF Threading!Init, Nodes, Links, Ends, Top
  <2>4. QED
    BY <1>1, <2>1, <2>2, <2>3 DEF ThreadShape, Threading!Init, Threading!Spaces
<1>3. HoldersHeld
  BY <1>1 DEF HoldersHeld, Threading!Init, Nodes
<1>4. \A c \in Nodes : parent[c] = Top
  BY DEF Threading!Init, Nodes, Top
<1>5. LinksHeld
  <2>1. Loopless(parent)
    BY <1>2, <1>4, LooplessIs DEF ThreadShape
  <2>2. Threading!Told = {}
    BY <1>1 DEF Threading!Told
  <2>3. QED
    BY <1>4, <2>1, <2>2 DEF LinksHeld
<1>6. QED
  BY <1>1, <1>2, <1>3, <1>5 DEF ThreadInv, Threading!ShownOnce, Threading!RepliesTogether

\* Mail comes and goes between the listings.
LEMMA MailHolds ==
  ASSUME ThreadInv,
         (\E m \in Threading!Mail, h \in Headers : Threading!Arrive(m, h)) \/ \E m \in mailbox : Threading!Leave(m)
  PROVE  ThreadInv'
<1>1. /\ phase = "idle" /\ linked = {} /\ UNCHANGED Threading!request
      /\ kept' = kept /\ cacheFaults' = cacheFaults /\ listings' = listings /\ ThreadShape
  BY DEF Threading!Arrive, Threading!Leave, ThreadInv, ThreadShape
<1>2. /\ phase' = phase /\ space' = space /\ page' = page /\ todo' = todo /\ linked' = linked /\ holder' = holder
      /\ parent' = parent /\ threads' = threads
  BY <1>1 DEF Threading!request
<1>3. /\ header' \in [Threading!Mail -> Headers \cup {Threading!NoHeader}] /\ Known \subseteq Known'
      /\ mailbox' \subseteq Known' /\ arrived' \in Nat
  <2>1. CASE \E m \in Threading!Mail, h \in Headers : Threading!Arrive(m, h)
    <3>1. PICK m \in Threading!Mail, h \in Headers : Threading!Arrive(m, h)
      BY <2>1
    <3>2. header' = [header EXCEPT ![m] = h] /\ mailbox' = mailbox \cup {m} /\ arrived' = arrived + 1
      BY <3>1 DEF Threading!Arrive
    <3>3. \A n \in Threading!Mail : header'[n] = IF n = m THEN h ELSE header[n]
      BY <1>1, <3>2 DEF ThreadShape
    <3>4. QED
      BY <1>1, <3>2, <3>3 DEF ThreadShape, Known
  <2>2. CASE \E m \in mailbox : Threading!Leave(m)
    BY <1>1, <2>2 DEF Threading!Leave, ThreadShape, Known
  <2>3. QED
    BY <2>1, <2>2
<1>4. ThreadShape'
  <2>1. kept' \in [Threading!Spaces -> [Uids -> Known' \cup {Threading!NoMail}]]
    BY <1>1, <1>3 DEF ThreadShape
  <2>2. QED
    BY <1>1, <1>2, <1>3, <2>1 DEF ThreadShape
<1>5. HoldersHeld'
  <2>1. \A c \in Nodes : holder[c] = Threading!NoMail
    BY <1>1 DEF ThreadShape
  <2>2. QED
    BY <1>1, <1>2, <2>1 DEF HoldersHeld
<1>6. LinksHeld'
  <2>1. Threading!Told = {} /\ Threading!Told' = {}
    BY <1>1, <1>2 DEF Threading!Told
  <2>2. QED
    BY <1>2, <2>1 DEF LinksHeld, ThreadInv
<1>7. QED
  BY <1>1, <1>2, <1>4, <1>5, <1>6 DEF ThreadInv, Threading!ShownOnce, Threading!RepliesTogether

\* A listing begins, and ends, with no links.
LEMMA AskHolds ==
  ASSUME ThreadInv, (\E boxes \in SUBSET Mailboxes : Threading!Ask(boxes)) \/ Threading!Return
  PROVE  ThreadInv'
<1>1. /\ header' = header /\ mailbox' = mailbox /\ kept' = kept /\ linked' = {} /\ threads' = {} /\ todo' \subseteq todo
      /\ holder' = [c \in Nodes |-> Threading!NoMail] /\ parent' = [c \in Nodes |-> Top]
      /\ phase' \in {"store", "idle"} /\ cacheFaults' = cacheFaults /\ arrived' = arrived
  BY DEF Threading!Ask, Threading!Return, Nodes, Top
<1>2. Known' = Known /\ ThreadShape
  BY <1>1 DEF Known, ThreadInv
<1>3. page' \subseteq mailbox /\ space' \in Threading!Spaces /\ listings' \in Nat
  <2>1. CASE Threading!Return
    BY <1>2, <2>1 DEF Threading!Return, ThreadShape
  <2>2. CASE \E boxes \in SUBSET Mailboxes : Threading!Ask(boxes)
    <3>1. PICK boxes \in SUBSET Mailboxes : Threading!Ask(boxes)
      BY <2>2
    <3>2. page' = Threading!Newest(boxes) /\ listings' = listings + 1 /\ space' \in {"folder", "unified"}
      BY <3>1 DEF Threading!Ask
    <3>3. Threading!Newest(boxes) \subseteq mailbox
      BY DEF Threading!Newest
    <3>4. QED
      BY <1>2, <3>2, <3>3 DEF Threading!Spaces, ThreadShape
  <2>3. QED
    BY <2>1, <2>2
<1>4. parent' \in Links /\ holder' \in [Nodes -> linked' \cup {Threading!NoMail}]
  BY <1>1 DEF Links, Ends
<1>5. ThreadShape'
  BY <1>1, <1>2, <1>3, <1>4 DEF ThreadShape
<1>6. HoldersHeld'
  BY <1>1 DEF HoldersHeld
<1>7. LinksHeld'
  <2>1. Threading!Told' = {}
    BY <1>1 DEF Threading!Told
  <2>2. \A c \in Nodes : parent'[c] = Top
    BY <1>1
  <2>3. Loopless(parent')
    BY <1>4, <2>2, LooplessIs
  <2>4. QED
    BY <2>1, <2>2, <2>3 DEF LinksHeld
<1>8. QED
  BY <1>1, <1>5, <1>6, <1>7 DEF ThreadInv, Threading!ShownOnce, Threading!RepliesTogether

\* What a listing keeps and loads does not touch its links.
LEMMA CacheHolds ==
  ASSUME ThreadInv, (\E written \in SUBSET page : Threading!KeepHeaders(written)) \/ Threading!Load
  PROVE  ThreadInv'
<1>1. /\ header' = header /\ mailbox' = mailbox /\ space' = space /\ page' = page /\ linked' = linked /\ holder' = holder
      /\ parent' = parent /\ threads' = threads /\ arrived' = arrived /\ listings' = listings
      /\ phase' \in {"load", "link"} /\ phase # "idle"
  BY DEF Threading!KeepHeaders, Threading!Load
<1>2. Known' = Known /\ ThreadShape
  BY <1>1 DEF Known, ThreadInv
<1>3. cacheFaults' \in Nat
  BY <1>2 DEF Threading!KeepHeaders, Threading!Load, ThreadShape
<1>4. kept' \in [Threading!Spaces -> [Uids -> Known \cup {Threading!NoMail}]] /\ todo' \subseteq Known
  <2>1. CASE Threading!Load
    <3>1. Threading!Cached \subseteq Known
      BY <1>2 DEF Threading!Cached, ThreadShape
    <3>2. QED
      BY <1>2, <2>1, <3>1 DEF Threading!Load, ThreadShape
  <2>2. CASE \E written \in SUBSET page : Threading!KeepHeaders(written)
    <3>1. PICK written \in SUBSET page : Threading!KeepHeaders(written)
      BY <2>2
    <3>2. PICK k \in [Uids -> Threading!Mail \cup {Threading!NoMail}] :
             /\ kept' = [kept EXCEPT ![space] = k]
             /\ \A u \in Uids : LET of == {m \in written : Threading!Uid(m) = u}
                                IN  IF of = {} THEN k[u] = kept[space][u] ELSE k[u] \in of
      BY <3>1 DEF Threading!KeepHeaders
    <3>3. ASSUME NEW u \in Uids PROVE k[u] \in Known \cup {Threading!NoMail}
      <4>1. PICK of : of = {m \in written : Threading!Uid(m) = u}
        OBVIOUS
      <4>2. IF of = {} THEN k[u] = kept[space][u] ELSE k[u] \in of
        BY <3>2, <4>1
      <4>3. of \subseteq Known
        BY <1>2, <4>1 DEF ThreadShape
      <4>4. kept[space][u] \in Known \cup {Threading!NoMail}
        BY <1>2 DEF ThreadShape
      <4>5. QED
        BY <4>2, <4>3, <4>4
    <3>4. k \in [Uids -> Known \cup {Threading!NoMail}]
      BY <3>3
    <3>5. todo' = todo
      BY <3>1 DEF Threading!KeepHeaders
    <3>6. QED
      BY <1>2, <3>2, <3>4, <3>5 DEF ThreadShape
  <2>3. QED
    BY <2>1, <2>2
<1>5. ThreadShape'
  BY <1>1, <1>2, <1>3, <1>4 DEF ThreadShape
<1>6. HoldersHeld'
  <2>1. \A m : Threading!Named(m)' = Threading!Named(m)
    BY <1>1 DEF Threading!Named
  <2>2. QED
    BY <1>1, <2>1 DEF HoldersHeld, ThreadInv, Threading!Named
<1>7. Threading!Told' = Threading!Told
  BY <1>1 DEF Threading!Told, Threading!Named
<1>8. LinksHeld'
  BY <1>1, <1>7 DEF LinksHeld, ThreadInv
<1>9. QED
  BY <1>1, <1>5, <1>6, <1>8 DEF ThreadInv, Threading!ShownOnce, Threading!RepliesTogether

\* A message is linked: its path is hung, and told of from now on.
LEMMA LinkHolds ==
  ASSUME ThreadInv, NEW m \in todo, Threading!LinkMessage(m)
  PROVE  ThreadInv'
<1>1. /\ header' = header /\ mailbox' = mailbox /\ kept' = kept /\ space' = space /\ page' = page /\ threads' = threads
      /\ arrived' = arrived /\ listings' = listings /\ cacheFaults' = cacheFaults /\ phase = "link" /\ phase' = "link"
      /\ todo' = todo \ {m} /\ linked' = linked \cup {m} /\ parent' = Threading!LinksOf(parent, m)
      /\ holder' = IF holder[Threading!Named(m)] = Threading!NoMail
                   THEN [holder EXCEPT ![Threading!Named(m)] = m] ELSE holder
  BY DEF Threading!LinkMessage
<1>2. Known' = Known /\ ThreadShape /\ m \in Known
  BY <1>1 DEF Known, ThreadInv, ThreadShape
<1>3. \A n : Threading!Named(n)' = Threading!Named(n)
  BY <1>1 DEF Threading!Named
<1>4. PICK path : path = Path(m)
  OBVIOUS
<1>5. /\ path \in Seq(Nodes) /\ path # <<>> /\ Asked(path) \subseteq Nodes \X Nodes
      /\ parent' = Threading!Hang(parent, path) /\ Threading!Named(m) \in Nodes
  BY <1>1, <1>2, <1>4, PathIs
<1>6. /\ parent' \in Links /\ Within(parent, parent')
      /\ \A c \in Nodes : parent'[c] # parent[c] => <<parent'[c], c>> \in Asked(path)
      /\ Loopless(parent) => Loopless(parent')
  <2>1. PICK new : new = parent'
    OBVIOUS
  <2>2. parent \in Links
    BY <1>2 DEF ThreadShape
  <2>3. /\ new \in Links /\ Within(parent, new)
        /\ \A c \in Nodes : new[c] # parent[c] => <<new[c], c>> \in Asked(path)
        /\ Loopless(parent) => Loopless(new)
    BY <1>5, <2>1, <2>2, HangHolds
  <2>4. QED
    BY <2>1, <2>3
<1>7. ThreadShape'
  <2>1. holder' \in [Nodes -> linked' \cup {Threading!NoMail}]
    BY <1>1, <1>2, <1>5 DEF ThreadShape
  <2>2. threads' \subseteq SUBSET linked'
    BY <1>1, <1>2 DEF ThreadShape
  <2>3. QED
    BY <1>1, <1>2, <1>6, <2>1, <2>2 DEF ThreadShape
<1>8. HoldersHeld'
  <2>1. \A c \in Nodes : holder[c] # Threading!NoMail => Threading!Named(holder[c]) = c
    BY DEF ThreadInv, HoldersHeld
  <2>2. \A n \in linked : holder[Threading!Named(n)] # Threading!NoMail /\ Threading!Named(n) \in Nodes
    BY <1>2, PathIs DEF ThreadInv, HoldersHeld, ThreadShape
  <2>3. PICK name : name = Threading!Named(m)
    OBVIOUS
  <2>4. m # Threading!NoMail
    BY <1>2, NamesDiffer DEF Known
  <2>5. \A c \in Nodes : holder'[c] = IF c = name /\ holder[c] = Threading!NoMail THEN m ELSE holder[c]
    BY <1>1, <1>2, <1>5, <2>3 DEF ThreadShape
  <2>6. \A c \in Nodes : holder'[c] # Threading!NoMail => Threading!Named(holder'[c]) = c
    BY <2>1, <2>3, <2>5
  <2>7. \A n \in linked' : holder'[Threading!Named(n)] # Threading!NoMail
    BY <1>1, <1>5, <2>2, <2>3, <2>4, <2>5
  <2>8. \A x : Threading!Named(x)' = Threading!Named(x)
    BY <1>3
  <2>9. QED
    BY <1>1, <2>6, <2>7 DEF HoldersHeld, Threading!Named
<1>9. PICK told : told = Threading!Told
  OBVIOUS
<1>10. PICK wide : wide = Threading!Told'
  OBVIOUS
<1>11. linked \subseteq Known /\ told \subseteq Nodes \X Nodes /\ told = UNION {Asked(Path(n)) : n \in linked}
  BY <1>2, <1>9, ToldIs DEF ThreadShape
<1>12. wide = told \cup Asked(path)
  <2>1. Threading!Told' = UNION {Asked(Path(n)) : n \in linked'}
    BY <1>1 DEF Threading!Told, Asked, Path, Threading!Named
  <2>2. QED
    BY <1>1, <1>4, <1>10, <1>11, <2>1
<1>13. wide \subseteq Nodes \X Nodes /\ told \subseteq wide /\ Asked(path) \subseteq wide
  BY <1>5, <1>11, <1>12
<1>14. \A c \in Nodes : parent[c] # Top => <<parent[c], c>> \in told
  BY <1>9 DEF ThreadInv, LinksHeld
<1>15. \A c \in Nodes : parent'[c] # Top => <<parent'[c], c>> \in wide
  BY <1>6, <1>12, <1>14
<1>16. ASSUME OneTree(wide) PROVE \A e \in wide : parent'[e[2]] = e[1]
  <2>1. OneTree(told)
    BY <1>13, <1>16, OneTreeShrinks
  <2>2. \A e \in told : parent[e[2]] = e[1]
    BY <1>9, <2>1 DEF ThreadInv, LinksHeld
  <2>3. \A e \in told : parent'[e[2]] = e[1]
    <3>1. \A e \in told : e[2] \in Nodes /\ e[1] \in Nodes
      BY <1>11
    <3>2. QED
      BY <1>6, <2>2, <3>1, NodesAreCounted DEF Within
  <2>4. \A e \in Asked(path) : parent'[e[2]] = e[1]
    <3>1. parent \in Links /\ \A c \in Nodes : parent[c] # Top => <<parent[c], c>> \in wide
      BY <1>2, <1>13, <1>14 DEF ThreadShape
    <3>2. \A e \in Asked(path) : Threading!Hang(parent, path)[e[2]] = e[1]
      BY <1>5, <1>13, <1>16, <3>1, HangTold
    <3>3. QED
      BY <1>5, <3>2
  <2>5. QED
    BY <1>12, <2>3, <2>4
<1>17. LinksHeld'
  <2>1. Loopless(parent')
    BY <1>6 DEF ThreadInv, LinksHeld
  <2>2. Top' = Top /\ Nodes' = Nodes
    BY DEF Top, Nodes, Threading!NoParent, Threading!Containers, Threading!Mail
  <2>3. QED
    BY <1>10, <1>15, <1>16, <2>1 DEF LinksHeld
<1>18. QED
  BY <1>1, <1>7, <1>8, <1>17 DEF ThreadInv, Threading!ShownOnce, Threading!RepliesTogether

\* A message that is shown, and the root it is shown under.
Shown(m) == m \in linked /\ holder[Threading!Named(m)] = m
RootOf(m) == CHOOSE r \in Nodes : RootsOf(parent, Threading!Named(m)) = {r}
LEMMA RootIs ==
  ASSUME ThreadInv, NEW m \in linked
  PROVE  /\ RootOf(m) \in Threading!Roots
         /\ RootsOf(parent, Threading!Named(m)) = {RootOf(m)}
<1>1. ThreadShape /\ Loopless(parent) /\ parent \in Links /\ m \in Known
  BY DEF ThreadInv, LinksHeld, ThreadShape
<1>2. PICK name : name = Threading!Named(m)
  OBVIOUS
<1>3. name \in Nodes
  BY <1>1, <1>2, PathIs
<1>4. RootOf(m) \in Nodes /\ RootsOf(parent, name) = {RootOf(m)}
  BY <1>1, <1>2, <1>3, OneRoot DEF RootOf
<1>5. PICK r : r = RootOf(m)
  OBVIOUS
<1>6. r \in Nodes /\ parent[r] = Top /\ IsUnder(parent, r, name)
  BY <1>4, <1>5 DEF RootsOf
<1>7. r \in Threading!Made
  <2>1. CASE r = name
    BY <1>2, <2>1 DEF Threading!Made
  <2>2. CASE r # name
    <3>1. PICK n \in Nat : Walk(parent, name)[n] = r
      BY <1>1, <1>3, <1>6, UnderIs
    <3>2. IsWalk(Walk(parent, name), parent, name)
      BY <1>1, <1>3, WalkIs DEF Ends
    <3>3. n # 0
      BY <2>2, <3>1, <3>2 DEF IsWalk
    <3>4. n - 1 \in Nat /\ (n - 1) + 1 = n
      BY <3>3
    <3>5. PICK x : x = Walk(parent, name)[n - 1]
      OBVIOUS
    <3>6. r = Up(parent, x) /\ x \in Ends
      BY <3>1, <3>2, <3>4, <3>5 DEF IsWalk
    <3>7. x \in Nodes /\ parent[x] = r /\ r # Top
      BY <1>6, <3>6, NodesAreCounted DEF Up, Ends
    <3>8. <<r, x>> \in Threading!Told
      BY <3>7 DEF ThreadInv, LinksHeld
    <3>9. PICK q \in linked : <<r, x>> \in Asked(Path(q))
      BY <1>1, <3>8, ToldIs DEF ThreadShape
    <3>10. PICK i \in 1 .. Len(Path(q)) - 1 : r = Path(q)[i]
      BY <3>9 DEF Asked
    <3>11. q \in Known
      BY <1>1 DEF ThreadShape
    <3>12. PICK chain : chain = Threading!Chain(header[q])
      OBVIOUS
    <3>13. chain \in Seq(MessageIds) /\ Len(Path(q)) = Len(chain) + 1 /\ \A j \in 1 .. Len(chain) : Path(q)[j] = chain[j]
      BY <3>11, <3>12, PathIs, HeaderIs DEF Known
    <3>14. i \in 1 .. Len(chain) /\ Len(chain) \in Nat
      BY <3>10, <3>13, LenProperties
    <3>15. i \in DOMAIN chain /\ r = chain[i]
      BY <3>10, <3>13, <3>14, LenProperties
    <3>16. r \in Threading!Range(chain)
      BY <3>15 DEF Threading!Range
    <3>17. QED
      BY <3>12, <3>16 DEF Threading!Made
  <2>3. QED
    BY <2>1, <2>2
<1>8. r \in Threading!Roots
  BY <1>6, <1>7 DEF Threading!Roots, Top
<1>9. QED
  BY <1>2, <1>4, <1>5, <1>8

\* The messages of a tree are those shown under its root.
LEMMA TreeIs ==
  ASSUME ThreadInv, NEW r \in Threading!Roots, NEW m
  PROVE  m \in Threading!Tree(r) <=> Shown(m) /\ RootOf(m) = r
<1>1. ThreadShape /\ HoldersHeld /\ parent \in Links
  BY DEF ThreadInv, ThreadShape
<1>2. Threading!Made \subseteq Nodes
  <2>1. ASSUME NEW q \in linked PROVE Threading!Named(q) \in Nodes /\ Threading!Range(Threading!Chain(header[q])) \subseteq Nodes
    <3>1. q \in Known
      BY <1>1 DEF ThreadShape
    <3>2. Threading!Chain(header[q]) \in Seq(MessageIds)
      BY <3>1, HeaderIs DEF Known
    <3>3. PICK chain : chain = Threading!Chain(header[q])
      OBVIOUS
    <3>4. \A i \in DOMAIN chain : chain[i] \in MessageIds
      BY <3>2, <3>3
    <3>5. QED
      BY <3>1, <3>3, <3>4, PathIs, NamesDiffer DEF Threading!Range
  <2>2. QED
    BY <2>1 DEF Threading!Made
<1>3. r \in Nodes /\ parent[r] = Top
  BY <1>2 DEF Threading!Roots, Top
<1>4. Threading!Tree(r) = {holder[c] : c \in {x \in Threading!Made : IsUnder(parent, r, x)}} \ {Threading!NoMail}
  BY DEF Threading!Tree, IsUnder
<1>5. ASSUME m \in Threading!Tree(r) PROVE Shown(m) /\ RootOf(m) = r
  <2>1. PICK c \in Threading!Made : IsUnder(parent, r, c) /\ m = holder[c] /\ m # Threading!NoMail
    BY <1>4, <1>5
  <2>2. Threading!Named(m) = c /\ m \in linked
    BY <1>1, <1>2, <2>1 DEF HoldersHeld, ThreadShape
  <2>3. r \in RootsOf(parent, c)
    BY <1>3, <2>1 DEF RootsOf
  <2>4. QED
    BY <2>1, <2>2, <2>3, RootIs DEF Shown
<1>6. ASSUME Shown(m), RootOf(m) = r PROVE m \in Threading!Tree(r)
  <2>1. m \in linked /\ holder[Threading!Named(m)] = m
    BY <1>6 DEF Shown
  <2>2. Threading!Named(m) \in Threading!Made
    BY <2>1 DEF Threading!Made
  <2>3. r \in RootsOf(parent, Threading!Named(m))
    BY <1>6, <2>1, RootIs
  <2>4. m # Threading!NoMail
    BY <1>1, <2>1, NamesDiffer DEF ThreadShape, Known
  <2>5. QED
    BY <1>4, <2>1, <2>2, <2>3, <2>4 DEF RootsOf
<1>7. QED
  BY <1>5, <1>6

\* Roots of one subject, which is one, are one thread.
Same(subject, r, q) == q = r \/ (subject[q] = subject[r] /\ subject[r] # None)
ThreadOf(subject, r) == UNION {Threading!Tree(q) : q \in {x \in Threading!Roots : Same(subject, r, x)}}
LEMMA GroupedIs ==
  ASSUME ThreadInv, NEW subject
  PROVE  /\ \A t \in Threading!Grouped(subject) : \E r \in Threading!Roots : t = ThreadOf(subject, r)
         /\ \A r \in Threading!Roots : ThreadOf(subject, r) # {} => ThreadOf(subject, r) \in Threading!Grouped(subject)
         /\ \A r \in Threading!Roots : \A m :
              m \in ThreadOf(subject, r) <=> Shown(m) /\ Same(subject, r, RootOf(m))
         /\ \A r, q \in Threading!Roots : Same(subject, r, q) => ThreadOf(subject, r) = ThreadOf(subject, q)
<1>1. Threading!Grouped(subject) = {ThreadOf(subject, r) : r \in Threading!Roots} \ {{}}
  BY DEF Threading!Grouped, ThreadOf, Same
<1>2. ASSUME NEW r \in Threading!Roots, NEW m
      PROVE  m \in ThreadOf(subject, r) <=> Shown(m) /\ Same(subject, r, RootOf(m))
  <2>1. m \in ThreadOf(subject, r) <=> \E q \in Threading!Roots : Same(subject, r, q) /\ m \in Threading!Tree(q)
    BY DEF ThreadOf
  <2>2. \A q \in Threading!Roots : m \in Threading!Tree(q) <=> Shown(m) /\ RootOf(m) = q
    BY TreeIs
  <2>3. Shown(m) => RootOf(m) \in Threading!Roots
    BY RootIs DEF Shown
  <2>4. QED
    BY <2>1, <2>2, <2>3
<1>3. ASSUME NEW r \in Threading!Roots, NEW q \in Threading!Roots, Same(subject, r, q)
      PROVE  ThreadOf(subject, r) = ThreadOf(subject, q)
  <2>1. \A x : Same(subject, r, x) <=> Same(subject, q, x)
    BY <1>3 DEF Same
  <2>2. \A m : m \in ThreadOf(subject, r) <=> m \in ThreadOf(subject, q)
    BY <1>2, <2>1
  <2>3. QED
    BY <2>2 DEF ThreadOf
<1>4. QED
  BY <1>1, <1>2, <1>3

\* What a message stands for when its Message-ID is taken: the one that took it is shown.
LEMMA OneIsShown ==
  ASSUME ThreadInv, NEW m \in linked
  PROVE  \/ Shown(m)
         \/ \E n \in linked \ {m} : header[n].id = header[m].id /\ header[n].id # None /\ Shown(n)
<1>1. ThreadShape /\ HoldersHeld /\ m \in Known
  BY DEF ThreadInv, ThreadShape
<1>2. PICK n : n = holder[Threading!Named(m)]
  OBVIOUS
<1>3. Threading!Named(m) \in Nodes /\ n # Threading!NoMail
  BY <1>1, <1>2, PathIs DEF HoldersHeld
<1>4. n \in linked /\ Threading!Named(n) = Threading!Named(m)
  BY <1>1, <1>2, <1>3 DEF HoldersHeld, ThreadShape
<1>5. Shown(n)
  BY <1>2, <1>4 DEF Shown
<1>6. CASE n = m
  BY <1>5, <1>6
<1>7. CASE n # m
  <2>1. /\ n \in Threading!Mail /\ m \in Threading!Mail
        /\ header[n].id \in MessageIds \cup {None} /\ header[m].id \in MessageIds \cup {None}
    BY <1>1, <1>4, HeaderIs DEF ThreadShape, Known
  <2>2. header[m].id # None
    <3>1. header[m].id = None => Threading!Named(m) = m
      BY DEF Threading!Named
    <3>2. Threading!Named(n) = n \/ Threading!Named(n) \in MessageIds
      BY <2>1 DEF Threading!Named
    <3>3. QED
      BY <1>4, <1>7, <2>1, <3>1, <3>2, NamesDiffer
  <2>3. header[n].id # None
    <3>1. header[n].id = None => Threading!Named(n) = n
      BY DEF Threading!Named
    <3>2. Threading!Named(m) \in MessageIds
      BY <2>1, <2>2 DEF Threading!Named
    <3>3. QED
      BY <1>4, <2>1, <3>1, <3>2, NamesDiffer
  <2>4. header[n].id = header[m].id
    BY <1>4, <2>2, <2>3 DEF Threading!Named
  <2>5. QED
    BY <1>4, <1>5, <1>7, <2>3, <2>4
<1>8. QED
  BY <1>6, <1>7

\* A message that is shown is in one thread.
LEMMA ShownIsOnce ==
  ASSUME ThreadInv, NEW subject, NEW m, Shown(m)
  PROVE  Threading!Cardinality({t \in Threading!Grouped(subject) : m \in t}) = 1
<1>1. RootOf(m) \in Threading!Roots
  BY RootIs DEF Shown
<1>2. PICK mine : mine = ThreadOf(subject, RootOf(m))
  OBVIOUS
<1>3. m \in mine
  BY <1>1, <1>2, GroupedIs DEF Same
<1>4. mine \in Threading!Grouped(subject)
  BY <1>1, <1>2, <1>3, GroupedIs
<1>5. ASSUME NEW t \in Threading!Grouped(subject), m \in t PROVE t = mine
  <2>1. PICK r \in Threading!Roots : t = ThreadOf(subject, r)
    BY GroupedIs
  <2>2. Same(subject, r, RootOf(m))
    BY <1>5, <2>1, GroupedIs
  <2>3. QED
    BY <1>1, <1>2, <2>1, <2>2, GroupedIs
<1>6. {t \in Threading!Grouped(subject) : m \in t} = {mine}
  BY <1>3, <1>4, <1>5
<1>7. Cardinality({mine}) = 1
  BY FS_Singleton
<1>8. QED
  BY <1>6, <1>7, CountsAgree

\* Where the headers tell the truth, the path of a message lies in one tree.
LEMMA PathStays ==
  ASSUME ThreadInv, Threading!Truthful, NEW m \in linked, NEW i \in 1 .. Len(Path(m))
  PROVE  RootsOf(parent, Path(m)[i]) = {RootOf(m)}
<1>1. ThreadShape /\ Loopless(parent) /\ parent \in Links /\ m \in Known /\ linked \subseteq Known
  BY DEF ThreadInv, LinksHeld, ThreadShape
<1>2. PICK path : path = Path(m)
  OBVIOUS
<1>3. path \in Seq(Nodes) /\ path # <<>> /\ path[Len(path)] = Threading!Named(m)
  BY <1>1, <1>2, PathIs
<1>4. Len(path) \in Nat /\ Len(path) >= 1 /\ \A j \in 1 .. Len(path) : path[j] \in Nodes
  BY <1>3, EmptySeq, LenProperties, ElementOfSeq
<1>5. ASSUME NEW j \in 1 .. Len(path) - 1
      PROVE  RootsOf(parent, path[j]) = RootsOf(parent, path[j + 1])
  <2>1. PICK e : e = <<path[j], path[j + 1]>>
    OBVIOUS
  <2>2. e \in Threading!Told
    <3>1. e \in Asked(path)
      BY <2>1 DEF Asked
    <3>2. QED
      BY <1>1, <1>2, <3>1, ToldIs
  <2>3. parent[e[2]] = e[1]
    BY <1>1, <2>2, ToldIs DEF ThreadInv, LinksHeld
  <2>4. parent[path[j + 1]] = path[j] /\ path[j] \in Nodes /\ path[j + 1] \in Nodes
    BY <1>4, <2>1, <2>3
  <2>5. QED
    BY <1>1, <2>4, SameRoots
<1> DEFINE S == {k \in Nat : k < Len(path) => RootsOf(parent, path[Len(path) - k]) = {RootOf(m)}}
<1>6. 0 \in S
  <2>1. Len(path) - 0 = Len(path)
    BY <1>4
  <2>2. RootsOf(parent, path[Len(path)]) = {RootOf(m)}
    BY <1>3, RootIs
  <2>3. QED
    BY <2>1, <2>2
<1>7. ASSUME NEW k \in Nat, k \in S PROVE k + 1 \in S
  <2> SUFFICES ASSUME k + 1 < Len(path) PROVE RootsOf(parent, path[Len(path) - (k + 1)]) = {RootOf(m)}
    OBVIOUS
  <2>1. PICK j : j = Len(path) - (k + 1)
    OBVIOUS
  <2>2. j \in 1 .. Len(path) - 1
    BY <1>4, <2>1
  <2>3. j + 1 = Len(path) - k /\ k < Len(path)
    BY <1>4, <2>1
  <2>4. RootsOf(parent, path[j + 1]) = {RootOf(m)}
    BY <1>7, <2>3
  <2>5. QED
    BY <1>5, <2>1, <2>2, <2>4
<1> HIDE DEF S
<1>8. Nat \subseteq S
  BY <1>6, <1>7, FromNull
<1>9. Len(path) - i \in Nat /\ Len(path) - i < Len(path) /\ Len(path) - (Len(path) - i) = i
  BY <1>2, <1>4
<1>10. RootsOf(parent, path[i]) = {RootOf(m)}
  BY <1>8, <1>9 DEF S
<1>11. QED
  BY <1>2, <1>10

\* A message and one it refers to are shown under one root.
LEMMA RepliesMeet ==
  ASSUME ThreadInv, Threading!Truthful, NEW m \in linked, NEW n \in linked,
         header[n].id \in Threading!Range(Threading!Chain(header[m]))
  PROVE  RootOf(n) = RootOf(m)
<1>1. ThreadShape /\ m \in Known /\ n \in Known
  BY DEF ThreadInv, ThreadShape
<1>2. PICK chain : chain = Threading!Chain(header[m])
  OBVIOUS
<1>3. chain \in Seq(MessageIds)
  BY <1>1, <1>2, HeaderIs DEF Known
<1>4. PICK i \in DOMAIN chain : header[n].id = chain[i]
  BY <1>2 DEF Threading!Range
<1>5. i \in 1 .. Len(chain) /\ chain[i] \in MessageIds /\ Len(chain) \in Nat
  BY <1>3, <1>4, LenProperties
<1>6. Threading!Named(n) = chain[i]
  BY <1>4, <1>5, NamesDiffer DEF Threading!Named
<1>7. i \in 1 .. Len(Path(m)) /\ Path(m)[i] = chain[i]
  BY <1>1, <1>2, <1>5, PathIs
<1>8. RootsOf(parent, chain[i]) = {RootOf(m)}
  BY <1>7, PathStays
<1>9. RootsOf(parent, Threading!Named(n)) = {RootOf(n)}
  BY RootIs
<1>10. QED
  BY <1>6, <1>8, <1>9

\* The answer shows every message once, and replies with what they answer.
LEMMA GroupingHolds ==
  ASSUME ThreadInv, Threading!Answer
  PROVE  ThreadInv'
<1>1. /\ header' = header /\ mailbox' = mailbox /\ kept' = kept /\ space' = space /\ page' = page /\ todo' = todo
      /\ linked' = linked /\ holder' = holder /\ parent' = parent /\ arrived' = arrived /\ listings' = listings
      /\ cacheFaults' = cacheFaults /\ phase' = "answer"
  BY DEF Threading!Answer
<1>2. PICK subject : threads' = Threading!Grouped(subject)
  BY DEF Threading!Answer
<1>3. Known' = Known /\ ThreadShape /\ \A m : Threading!Named(m)' = Threading!Named(m)
  BY <1>1 DEF Known, ThreadInv, Threading!Named
<1>4. ASSUME NEW t \in threads'
      PROVE  /\ \A m \in t : Shown(m)
             /\ \A m \in t : \A n : Shown(n) /\ RootOf(n) = RootOf(m) => n \in t
  <2>1. PICK r \in Threading!Roots : t = ThreadOf(subject, r)
    BY <1>2, <1>4, GroupedIs
  <2>2. QED
    BY <2>1, GroupedIs
<1>5. ThreadShape'
  <2>1. threads' \subseteq SUBSET linked'
    BY <1>1, <1>4 DEF Shown
  <2>2. QED
    BY <1>1, <1>3, <2>1 DEF ThreadShape
<1>6. HoldersHeld' /\ LinksHeld'
  <2>1. Threading!Told' = Threading!Told
    BY <1>1 DEF Threading!Told, Threading!Named
  <2>2. LinksHeld'
    BY <1>1, <2>1 DEF LinksHeld, ThreadInv
  <2>3. HoldersHeld'
    BY <1>1, <1>3 DEF HoldersHeld, ThreadInv, Threading!Named
  <2>4. QED
    BY <2>2, <2>3
<1>7. Threading!ShownOnce'
  <2>1. \A m : Shown(m) => Threading!Cardinality({t \in threads' : m \in t}) = 1
    BY <1>2, ShownIsOnce
  <2>2. \A m \in linked :
          \/ Threading!Cardinality({t \in threads' : m \in t}) = 1
          \/ \E n \in linked \ {m} : /\ header[n].id = header[m].id /\ header[n].id # None
                                     /\ Threading!Cardinality({t \in threads' : n \in t}) = 1
    BY <2>1, OneIsShown
  <2>3. QED
    BY <1>1, <2>2 DEF Threading!ShownOnce
<1>8. Threading!RepliesTogether'
  <2>1. Threading!Truthful' <=> Threading!Truthful
    BY <1>1 DEF Threading!Truthful, Threading!Told, Threading!Named
  <2>2. ASSUME Threading!Truthful, NEW t \in threads', NEW m \in t, NEW n \in linked,
               header[n].id \in Threading!Range(Threading!Chain(header[m])), n \in UNION threads'
        PROVE  n \in t
    <3>1. Shown(m) /\ Shown(n)
      BY <1>4, <2>2
    <3>2. RootOf(n) = RootOf(m)
      BY <2>2, <3>1, RepliesMeet DEF Shown
    <3>3. QED
      BY <1>4, <3>1, <3>2
  <2>3. QED
    BY <1>1, <2>1, <2>2 DEF Threading!RepliesTogether
<1>9. QED
  BY <1>5, <1>6, <1>7, <1>8 DEF ThreadInv

\* No step of a listing breaks the invariant.
LEMMA ThreadStep ==
  ASSUME ThreadInv, Threading!Next
  PROVE  ThreadInv'
BY MailHolds, AskHolds, CacheHolds, LinkHolds, GroupingHolds DEF Threading!Next, Threading!Listing

\* The invariant says what the threads promise, and that the variables keep to their values.
LEMMA ThreadsAreSafe ==
  ASSUME ThreadInv
  PROVE  Threading!ThreadsAreSound /\ Threading!TypeOK
<1>1. parent \in Links /\ Loopless(parent)
  BY DEF ThreadInv, ThreadShape, LinksHeld
<1>2. Threading!Acyclic
  <2>1. \A c \in Nodes : parent[c] # Top => c \notin Threading!Above(parent, c)
    BY <1>1, LooplessIs
  <2>2. QED
    BY <2>1 DEF Threading!Acyclic, Nodes, Top
<1>3. Known \subseteq {m \in Threading!Mail : header[m] # Threading!NoHeader}
  BY HeaderIs DEF Known
<1>4. Threading!TypeOK
  <2>1. holder \in [Nodes -> Threading!Mail \cup {Threading!NoMail}]
    BY DEF ThreadInv, ThreadShape, Known
  <2>2. \A s \in Threading!Spaces, u \in Uids : kept[s][u] \in Threading!Mail \cup {Threading!NoMail}
    BY DEF ThreadInv, ThreadShape, Known
  <2>3. mailbox \cup page \cup todo \cup linked \subseteq {m \in Threading!Mail : header[m] # Threading!NoHeader}
    BY <1>3 DEF ThreadInv, ThreadShape
  <2>4. QED
    BY <2>1, <2>2, <2>3 DEF ThreadInv, ThreadShape, Threading!TypeOK, Nodes, Links, Ends, Top
<1>5. QED
  BY <1>2, <1>4 DEF ThreadInv, Threading!ThreadsAreSound

\* Nothing of a listing changes where none is at work.
LEMMA ThreadsRest ==
  ASSUME ThreadInv, UNCHANGED threadVars
  PROVE  ThreadInv'
<1>1. /\ header' = header /\ mailbox' = mailbox /\ kept' = kept /\ phase' = phase /\ space' = space /\ page' = page
      /\ todo' = todo /\ linked' = linked /\ holder' = holder /\ parent' = parent /\ threads' = threads
      /\ arrived' = arrived /\ listings' = listings /\ cacheFaults' = cacheFaults
  BY DEF threadVars
<1>2. Threading!Told' = Threading!Told
  BY <1>1 DEF Threading!Told, Threading!Named
<1>3. ThreadShape'
  BY <1>1 DEF ThreadShape, ThreadInv, Known
<1>4. HoldersHeld'
  BY <1>1 DEF HoldersHeld, ThreadInv, Threading!Named
<1>5. LinksHeld'
  BY <1>1, <1>2 DEF LinksHeld, ThreadInv
<1>6. Threading!ShownOnce'
  BY <1>1 DEF Threading!ShownOnce, ThreadInv
<1>7. Threading!RepliesTogether'
  <2>1. Threading!Truthful' <=> Threading!Truthful
    BY <1>1, <1>2 DEF Threading!Truthful
  <2>2. QED
    BY <1>1, <2>1 DEF Threading!RepliesTogether, ThreadInv
<1>8. QED
  BY <1>3, <1>4, <1>5, <1>6, <1>7 DEF ThreadInv
=============================================================================
