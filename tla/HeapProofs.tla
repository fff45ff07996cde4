----------------------------- MODULE HeapProofs -----------------------------
(* The heap for any size, header, least block and number of callers, and for  *)
(* any sizes asked for, whether threads are deleted outside of the heap only  *)
(* or anywhere.  The list of blocks is a matter of a single operation: what   *)
(* split and plug_holes do to it is proved once, for any list.  The operations *)
(* of several callers meet in what each of them owns: a call that was made    *)
(* before others changed the list still finds its block where it was.         *)
EXTENDS Heap, WellFoundedInduction, TLAPS

Block == [used : BOOLEAN, next : Nat, prev : Nat]

\* the blocks of m are one list that tiles the heap
Linked(m) ==
    /\ DOMAIN m \subseteq 0 .. End /\ 0 \in DOMAIN m /\ End \in DOMAIN m
    /\ m \in [DOMAIN m -> Block]
    /\ m[0].prev = 0 /\ m[End].used
    /\ \A a \in DOMAIN m \ {End} :
          /\ m[a].next \in DOMAIN m /\ a + Header < m[a].next
          /\ \A b \in DOMAIN m : b <= a \/ b >= m[a].next
          /\ m[a].next # End => m[m[a].next].prev = a
          /\ a # 0 => m[a].prev \in DOMAIN m \ {End} /\ m[m[a].prev].next = a

\* two free blocks are neighbours only where one of them is in A
Joined(m, A) ==
    \A a \in DOMAIN m \ {End} :
        ~m[a].used /\ ~m[m[a].next].used => a \in A \/ m[a].next \in A

LowestFree(m, low) ==
    /\ low \in DOMAIN m /\ (low = End \/ ~m[low].used)
    /\ \A a \in DOMAIN m \ {End} : ~m[a].used => low <= a

Sound == Linked(mem) /\ Joined(mem, {}) /\ LowestFree(mem, lfree)

Piece == [block : Nat, need : Nat]

\* what is owned is in use, large enough, and has one owner
Owned ==
    /\ owned \in [Caller -> SUBSET Piece]
    /\ \A t \in Caller : \A x \in owned[t] :
          x.block \in DOMAIN mem \ {End} /\ mem[x.block].used /\ x.need <= Room(mem, x.block)
    /\ \A t, u \in Caller : \A x \in owned[t] : \A y \in owned[u] :
          x.block = y.block => t = u /\ x = y

Call == [op : {"none", "dead", "malloc", "free", "realloc"}, size : Nat, block : Nat, old : SUBSET Nat]

\* the block of a call that is under way is still owned by its caller
Called ==
    /\ call \in [Caller -> Call]
    /\ \A t \in Caller :
          /\ call[t].op \in {"malloc", "realloc"} => call[t].size \in 1 .. Size
          /\ call[t].op \in {"free", "realloc"} => \E x \in owned[t] : x.block = call[t].block
          /\ call[t].op = "malloc" => \A b \in call[t].old : \E x \in owned[t] : x.block = b

Inv == Sound /\ Owned /\ Called

-----------------------------------------------------------------------------
(* Numbers *)

LEMMA Sizes == Header \in Nat /\ Header >= 1 /\ MinSize \in Nat /\ MinSize >= 1 /\ MinSize <= Size
               /\ Size \in Nat /\ Size >= 1 /\ End \in Nat /\ End = Size + Header
BY SizeAssumption DEF End

\* the least number of a set
LEMMA Least ==
    ASSUME NEW S \in SUBSET Nat, S # {}
    PROVE  Min(S) \in S /\ \A x \in S : Min(S) <= x
<1> DEFINE R == {ss \in Nat \X Nat : ss[1] < ss[2]}
<1>1. IsWellFoundedOn(R, Nat)
  BY NatLessThanWellFounded DEF OpToRel
<1> HIDE DEF R
<1>2. \E x \in S : \A y \in S : <<y, x>> \notin R
  BY <1>1, WFMin
<1>3. PICK x \in S : \A y \in S : <<y, x>> \notin R
  BY <1>2
<1>4. \A y \in S : x <= y
  <2> TAKE y \in S
  <2>1. ~(y < x)
    BY <1>3 DEF R
  <2> QED
    BY <2>1
<1> QED
  BY <1>4 DEF Min

-----------------------------------------------------------------------------
(* Lists of blocks *)

\* r is m without the block at a, with p before and n behind it
Bypassed(m, a, p, n, r) ==
    /\ p \in DOMAIN m \ {a, End} /\ n \in DOMAIN m \ {a} /\ p < a /\ a < n
    /\ DOMAIN r = DOMAIN m \ {a} /\ r \in [DOMAIN r -> Block]
    /\ r[p].used = m[p].used /\ r[p].next = n /\ r[p].prev = m[p].prev
    /\ r[n].used = m[n].used /\ r[n].next = m[n].next /\ r[n].prev = p
    /\ \A c \in DOMAIN r \ {p, n} : r[c] = m[c]

\* the block at a becomes part of the one before it
LEMMA BypassFacts ==
    ASSUME NEW m, Linked(m), NEW a \in DOMAIN m \ {0, End}
    PROVE  Bypassed(m, a, m[a].prev, m[a].next, Bypass(m, a))
<1> DEFINE p == m[a].prev
           n == m[a].next
           r == Bypass(m, a)
<1> DEFINE w == Without(m, a)
<1>1. /\ p \in DOMAIN m \ {a, End} /\ n \in DOMAIN m \ {a} /\ p < a /\ a < n
      /\ p \in Nat /\ n \in Nat /\ a \in Nat /\ DOMAIN m \subseteq Nat
  <2>1. p \in DOMAIN m \ {End} /\ m[p].next = a /\ p + Header < a
    BY DEF Linked
  <2>2. n \in DOMAIN m /\ a + Header < n
    BY DEF Linked
  <2>3. DOMAIN m \subseteq Nat
    BY Sizes DEF Linked
  <2> QED
    BY <2>1, <2>2, <2>3, Sizes
<1>2. m \in [DOMAIN m -> Block]
  BY DEF Linked
<1>3. w \in [DOMAIN m \ {a} -> Block] /\ DOMAIN w = DOMAIN m \ {a} /\ \A c \in DOMAIN w : w[c] = m[c]
  BY <1>2 DEF Without
<1>4. r = [w EXCEPT ![p].next = n, ![n].prev = p]
  BY DEF Bypass
<1> HIDE DEF p, n, w, r
<1>5. p # n /\ p \in DOMAIN w /\ n \in DOMAIN w
  BY <1>1, <1>3
<1>6. DOMAIN r = DOMAIN w /\ r \in [DOMAIN r -> Block]
  BY <1>1, <1>3, <1>4, <1>5 DEF Block
<1>7. r[p] = [w[p] EXCEPT !.next = n] /\ r[n] = [w[n] EXCEPT !.prev = p]
  BY <1>3, <1>4, <1>5
<1>8. w[p] \in Block /\ w[n] \in Block
  BY <1>3, <1>5
<1>9. /\ r[p].used = w[p].used /\ r[p].next = n /\ r[p].prev = w[p].prev
      /\ r[n].used = w[n].used /\ r[n].next = w[n].next /\ r[n].prev = p
  BY <1>7, <1>8 DEF Block
<1>10. \A c \in DOMAIN r \ {p, n} : r[c] = w[c]
  BY <1>4, <1>6
<1> QED
  BY <1>1, <1>3, <1>5, <1>6, <1>9, <1>10 DEF Bypassed, p, n, r

LEMMA BypassLinked ==
    ASSUME NEW m, Linked(m), NEW a \in DOMAIN m \ {0, End}
    PROVE  Linked(Bypass(m, a))
<1>p. PICK p, n, r : p = m[a].prev /\ n = m[a].next /\ r = Bypass(m, a)
  OBVIOUS
<1>1. /\ p \in DOMAIN m \ {a, End} /\ n \in DOMAIN m \ {a} /\ p < a /\ a < n
      /\ DOMAIN r = DOMAIN m \ {a} /\ r \in [DOMAIN r -> Block]
      /\ r[p].used = m[p].used /\ r[p].next = n /\ r[p].prev = m[p].prev
      /\ r[n].used = m[n].used /\ r[n].next = m[n].next /\ r[n].prev = p
      /\ \A c \in DOMAIN r \ {p, n} : r[c] = m[c]
  <2>1. Bypassed(m, a, p, n, r)
    BY <1>p, BypassFacts
  <2> QED
    BY <2>1 DEF Bypassed
<1>2. /\ DOMAIN m \subseteq 0 .. End /\ 0 \in DOMAIN m /\ End \in DOMAIN m
      /\ m[0].prev = 0 /\ m[End].used
  BY DEF Linked
<1>3. \A c \in DOMAIN m \ {End} :
          /\ m[c].next \in DOMAIN m /\ c + Header < m[c].next
          /\ \A b \in DOMAIN m : b <= c \/ b >= m[c].next
          /\ m[c].next # End => m[m[c].next].prev = c
          /\ c # 0 => m[c].prev \in DOMAIN m \ {End} /\ m[m[c].prev].next = c
  BY DEF Linked
<1>4. m[p].next = a /\ n = m[a].next /\ p = m[a].prev
  BY <1>3, <1>p
<1>5. DOMAIN m \subseteq Nat
  BY <1>2, Sizes
<1>6. r[0].prev = 0 /\ r[End].used /\ 0 \in DOMAIN r /\ End \in DOMAIN r
  <2>1. n # 0
    BY <1>1, <1>5
  <2> QED
    BY <1>1, <1>2, <2>1
<1>7. ASSUME NEW c \in DOMAIN r \ {End}
      PROVE  /\ r[c].next \in DOMAIN r /\ c + Header < r[c].next
             /\ \A b \in DOMAIN r : b <= c \/ b >= r[c].next
             /\ r[c].next # End => r[r[c].next].prev = c
             /\ c # 0 => r[c].prev \in DOMAIN r \ {End} /\ r[r[c].prev].next = c
  <2>c. c \in DOMAIN m \ {End} /\ c # a /\ c \in Nat
    BY <1>1, <1>5
  <2>m. /\ m[c].next \in DOMAIN m /\ c + Header < m[c].next
        /\ \A b \in DOMAIN m : b <= c \/ b >= m[c].next
        /\ m[c].next # End => m[m[c].next].prev = c
        /\ c # 0 => m[c].prev \in DOMAIN m \ {End} /\ m[m[c].prev].next = c
    BY <1>3, <2>c
  <2>q. c # 0 => m[c].prev \in Nat /\ m[c].prev < c
    <3> SUFFICES ASSUME c # 0 PROVE m[c].prev \in Nat /\ m[c].prev < c
      OBVIOUS
    <3> DEFINE q == m[c].prev
    <3>1. q \in DOMAIN m \ {End} /\ m[q].next = c
      BY <2>m
    <3>2. q + Header < c /\ q \in Nat
      BY <1>3, <1>5, <3>1
    <3> QED
      BY <2>c, <3>2, Sizes
  <2>1. CASE c = p
    <3>1. r[c].next = n /\ r[c].prev = m[c].prev
      BY <1>1, <2>1
    <3>2. \A b \in DOMAIN r : b <= c \/ b >= n
      <4> TAKE b \in DOMAIN r
      <4>1. b \in DOMAIN m /\ b # a /\ b \in Nat /\ a \in Nat /\ n \in Nat
        BY <1>1, <1>5
      <4>2. (b <= a \/ b >= n) /\ (b <= p \/ b >= a)
        BY <1>1, <1>3, <1>4, <4>1
      <4> QED
        BY <2>1, <2>c, <4>1, <4>2
    <3>3. c + Header < n
      BY <1>1, <1>3, <1>4, <1>5, <2>1, <2>c, Sizes
    <3>4. c # 0 => m[c].prev \in DOMAIN r \ {End} /\ r[m[c].prev].next = c
      <4> SUFFICES ASSUME c # 0 PROVE m[c].prev \in DOMAIN r \ {End} /\ r[m[c].prev].next = c
        OBVIOUS
      <4>1. m[c].prev \in DOMAIN r \ {p, n, End}
        BY <1>1, <1>5, <2>1, <2>c, <2>m, <2>q
      <4> QED
        BY <1>1, <2>m, <4>1
    <3> QED
      BY <1>1, <2>1, <3>1, <3>2, <3>3, <3>4
  <2>2. CASE c = n
    <3>1. r[c].next = m[c].next /\ r[c].prev = p
      BY <1>1, <2>2
    <3>2. m[c].next \in DOMAIN r \ {p, n}
      BY <1>1, <1>5, <2>2, <2>c, <2>m, Sizes
    <3>3. m[c].next # End => r[m[c].next].prev = c
      BY <1>1, <2>m, <3>2
    <3>4. \A b \in DOMAIN r : b <= c \/ b >= m[c].next
      BY <1>1, <2>m
    <3>5. p \in DOMAIN r \ {End} /\ r[p].next = c
      BY <1>1, <2>2
    <3> QED
      BY <2>m, <3>1, <3>2, <3>3, <3>4, <3>5
  <2>3. CASE c \notin {p, n}
    <3>1. r[c] = m[c]
      BY <1>1, <2>3
    <3>2. m[c].next # a
      BY <1>4, <2>3, <2>m
    <3>3. m[c].next # End => m[c].next # n
      BY <1>3, <1>4, <2>c, <2>m
    <3>4. m[c].next # End => r[m[c].next].prev = c
      BY <1>1, <2>m, <3>2, <3>3
    <3>5. \A b \in DOMAIN r : b <= c \/ b >= m[c].next
      BY <1>1, <2>m
    <3>6. c # 0 => m[c].prev \in DOMAIN r \ {p, End}
      BY <1>1, <1>4, <2>3, <2>m
    <3>7. c # 0 => r[m[c].prev].next = c
      BY <1>1, <2>m, <3>6
    <3> QED
      BY <1>1, <2>m, <3>1, <3>2, <3>4, <3>5, <3>6, <3>7
  <2> QED
    BY <2>1, <2>2, <2>3
<1>8. DOMAIN r \subseteq 0 .. End
  BY <1>1, <1>2
<1> QED
  BY <1>1, <1>6, <1>7, <1>8, <1>p DEF Linked

\* blocks in use stay what and where they are, and the others stay free
Kept(m, r) ==
    /\ \A c \in DOMAIN m : m[c].used => c \in DOMAIN r /\ r[c].used /\ r[c].next = m[c].next
    /\ \A c \in DOMAIN r : c \in DOMAIN m /\ (r[c].used <=> m[c].used)

\* the free block at a is joined with the free block before it
LEMMA JoinFacts ==
    ASSUME NEW m, Linked(m), NEW a \in DOMAIN m \ {0, End}, ~m[a].used, ~m[m[a].prev].used,
           NEW low, LowestFree(m, low)
    PROVE  LowestFree(Bypass(m, a), low) /\ low # a /\ Kept(m, Bypass(m, a))
<1>p. PICK p, n, r : p = m[a].prev /\ n = m[a].next /\ r = Bypass(m, a)
  OBVIOUS
<1>1. /\ p \in DOMAIN m \ {a, End} /\ n \in DOMAIN m \ {a} /\ p < a /\ a < n
      /\ DOMAIN r = DOMAIN m \ {a} /\ r \in [DOMAIN r -> Block]
      /\ r[p].used = m[p].used /\ r[p].next = n /\ r[p].prev = m[p].prev
      /\ r[n].used = m[n].used /\ r[n].next = m[n].next /\ r[n].prev = p
      /\ \A c \in DOMAIN r \ {p, n} : r[c] = m[c]
  <2>1. Bypassed(m, a, p, n, r)
    BY <1>p, BypassFacts
  <2> QED
    BY <2>1 DEF Bypassed
<1>2. DOMAIN m \subseteq Nat
  BY Sizes DEF Linked
<1>3. /\ low \in DOMAIN m /\ (low = End \/ ~m[low].used)
      /\ \A c \in DOMAIN m \ {End} : ~m[c].used => low <= c
  BY DEF LowestFree
<1>4. \A c \in DOMAIN r : c \in DOMAIN m /\ r[c].used = m[c].used
  BY <1>1
<1>5. low # a
  <2>1. low <= p
    BY <1>1, <1>3, <1>p
  <2> QED
    BY <1>1, <1>2, <2>1
<1>6. LowestFree(r, low)
  BY <1>1, <1>3, <1>4, <1>5 DEF LowestFree
<1>7. Kept(m, r)
  <2>1. \A c \in DOMAIN m : m[c].used => c \in DOMAIN r /\ c # p
    BY <1>1, <1>p
  <2>2. \A c \in DOMAIN r : c # p => r[c].next = m[c].next
    BY <1>1
  <2> QED
    BY <1>4, <2>1, <2>2 DEF Kept
<1> QED
  BY <1>5, <1>6, <1>7, <1>p

LEMMA KeptTwice ==
    ASSUME NEW m, NEW r, NEW s, Kept(m, r), Kept(r, s)
    PROVE  Kept(m, s)
BY DEF Kept

\* the first half of plug_holes: behind a there is no free block any more
LEMMA PluggedForward ==
    ASSUME NEW m, Linked(m), NEW a \in DOMAIN m \ {End}, ~m[a].used, Joined(m, {a}),
           NEW low, LowestFree(m, low)
    PROVE  LET joins == ~m[m[a].next].used
               f == IF joins THEN Bypass(m, m[a].next) ELSE m
           IN  /\ Linked(f) /\ LowestFree(f, low) /\ Kept(m, f) /\ a \in DOMAIN f \ {End}
               /\ \A c \in DOMAIN f \ {End} : ~f[c].used /\ ~f[f[c].next].used => f[c].next = a
               /\ ~(joins /\ low = m[a].next)
<1> DEFINE n == m[a].next
<1>0. DOMAIN m \subseteq Nat
  BY Sizes DEF Linked
<1>1. n \in DOMAIN m /\ a < n /\ n # 0
  BY <1>0, Sizes DEF Linked
<1>2. CASE m[n].used
  <2>1. \A c \in DOMAIN m \ {End} : ~m[c].used /\ ~m[m[c].next].used => m[c].next = a
    BY <1>2 DEF Joined
  <2>2. Kept(m, m)
    BY DEF Kept
  <2> QED
    BY <1>2, <2>1, <2>2
<1>3. CASE ~m[n].used
  <2>1. n \in DOMAIN m \ {0, End} /\ m[n].prev = a /\ m[End].used
    BY <1>1, <1>3 DEF Linked
  <2>p. PICK nn, r : nn = m[n].next /\ r = Bypass(m, n)
    OBVIOUS
  <2>2. Linked(r) /\ LowestFree(r, low) /\ low # n /\ Kept(m, r)
    BY <1>3, <2>1, <2>p, BypassLinked, JoinFacts
  <2>3. Bypassed(m, n, a, nn, r)
    BY <2>1, <2>p, BypassFacts
  <2> HIDE DEF n
  <2>4. /\ a \in DOMAIN m \ {n, End} /\ nn \in DOMAIN m \ {n} /\ n < nn
        /\ DOMAIN r = DOMAIN m \ {n} /\ r[a].used = m[a].used /\ r[a].next = nn
        /\ r[nn].used = m[nn].used /\ r[nn].next = m[nn].next
        /\ \A c \in DOMAIN r \ {a, nn} : r[c] = m[c]
    BY <2>3 DEF Bypassed
  <2>5. \A c \in DOMAIN r : r[c].used = m[c].used /\ (c # a => r[c].next = m[c].next)
    BY <2>4
  <2>6. m[nn].used
    <3>1. nn # a /\ n # a
      BY <1>0, <1>1, <2>4
    <3>2. n \in DOMAIN m \ {End} /\ m[n].next = nn
      BY <2>1, <2>p
    <3> QED
      BY <1>3, <3>1, <3>2 DEF Joined
  <2>7. ASSUME NEW c \in DOMAIN r \ {End}, ~r[c].used, ~r[r[c].next].used
        PROVE  r[c].next = a
    <3>1. r[c].next \in DOMAIN r
      BY <2>2 DEF Linked
    <3>2. c # a
      BY <2>4, <2>5, <2>6, <2>7
    <3>3. r[c].next = m[c].next /\ ~m[c].used /\ ~m[m[c].next].used /\ c \in DOMAIN m \ {End}
      BY <2>4, <2>5, <2>7, <3>1, <3>2
    <3> QED
      BY <3>2, <3>3 DEF Joined
  <2> QED
    BY <1>3, <2>2, <2>4, <2>7, <2>p DEF n
<1> QED
  BY <1>2, <1>3

LEMMA PluggedBackward ==
    ASSUME NEW m, Linked(m), NEW a \in DOMAIN m \ {0, End}, ~m[a].used, ~m[m[a].prev].used,
           \A c \in DOMAIN m \ {End} : ~m[c].used /\ ~m[m[c].next].used => m[c].next = a
    PROVE  Joined(Bypass(m, a), {})
<1>p. PICK p, n, r : p = m[a].prev /\ n = m[a].next /\ r = Bypass(m, a)
  OBVIOUS
<1>1. Bypassed(m, a, p, n, r)
  BY <1>p, BypassFacts
<1>2. /\ n \in DOMAIN m \ {a} /\ DOMAIN r = DOMAIN m \ {a}
      /\ r[p].used = m[p].used /\ r[p].next = n
      /\ r[n].used = m[n].used /\ r[n].next = m[n].next
      /\ \A c \in DOMAIN r \ {p, n} : r[c] = m[c]
  BY <1>1 DEF Bypassed
<1>3. \A c \in DOMAIN r : r[c].used = m[c].used /\ (c # p => r[c].next = m[c].next)
  BY <1>2
<1>4. m[n].used
  BY <1>2, <1>p
<1>5. Linked(r)
  BY <1>p, BypassLinked
<1>6. ASSUME NEW c \in DOMAIN r \ {End}, ~r[c].used, ~r[r[c].next].used
      PROVE  FALSE
  <2>1. r[c].next \in DOMAIN r
    BY <1>5 DEF Linked
  <2>2. c # p
    BY <1>2, <1>3, <1>4, <1>6
  <2>3. r[c].next = m[c].next /\ ~m[c].used /\ ~m[m[c].next].used /\ c \in DOMAIN m \ {End}
    BY <1>2, <1>3, <1>6, <2>1, <2>2
  <2>4. m[c].next = a
    BY <2>3
  <2>5. m[a].prev = c
    BY <2>3, <2>4 DEF Linked
  <2> QED
    BY <1>p, <2>2, <2>5
<1> QED
  BY <1>6, <1>p DEF Joined

\* plug_holes leaves a list without free neighbours, and the blocks in use as they were
LEMMA Plugged ==
    ASSUME NEW m, Linked(m), NEW a \in DOMAIN m \ {End}, ~m[a].used, Joined(m, {a}),
           NEW low, LowestFree(m, low)
    PROVE  LET r == PlugHoles(m, low, a)
           IN  Linked(r.mem) /\ Joined(r.mem, {}) /\ LowestFree(r.mem, r.lfree) /\ Kept(m, r.mem)
<1> DEFINE n == m[a].next
           joins == ~m[n].used
           f == IF joins THEN Bypass(m, n) ELSE m
           p == f[a].prev
           back == p # a /\ ~f[p].used
<1>1. /\ Linked(f) /\ LowestFree(f, low) /\ Kept(m, f) /\ a \in DOMAIN f \ {End}
      /\ \A c \in DOMAIN f \ {End} : ~f[c].used /\ ~f[f[c].next].used => f[c].next = a
      /\ ~(joins /\ low = n)
  BY PluggedForward
<1>2. /\ PlugHoles(m, low, a).mem = IF back THEN Bypass(f, a) ELSE f
      /\ PlugHoles(m, low, a).lfree = IF back THEN (IF low = a THEN p ELSE low) ELSE low
  BY <1>1 DEF PlugHoles
<1> HIDE DEF f
<1>3. ~f[a].used
  BY <1>1 DEF Kept
<1>4. a # 0 => p # a /\ f[p].next = a /\ p \in DOMAIN f \ {End}
  BY <1>1, Sizes DEF Linked
<1>5. a = 0 => p = a
  BY <1>1 DEF Linked
<1>6. CASE back
  <2>1. a \in DOMAIN f \ {0, End}
    BY <1>1, <1>5, <1>6
  <2>2. Linked(Bypass(f, a)) /\ LowestFree(Bypass(f, a), low) /\ low # a /\ Kept(f, Bypass(f, a))
    BY <1>1, <1>3, <1>6, <2>1, BypassLinked, JoinFacts
  <2>3. Joined(Bypass(f, a), {})
    BY <1>1, <1>3, <1>6, <2>1, PluggedBackward
  <2>4. Kept(m, Bypass(f, a))
    BY <1>1, <2>2, KeptTwice
  <2> QED
    BY <1>2, <1>6, <2>2, <2>3, <2>4
<1>7. CASE ~back
  <2>1. Joined(f, {})
    <3> SUFFICES ASSUME NEW c \in DOMAIN f \ {End}, ~f[c].used, ~f[f[c].next].used PROVE FALSE
      BY DEF Joined
    <3>1. f[c].next = a
      BY <1>1
    <3>2. f[a].prev = c /\ a # 0
      BY <1>1, <3>1, Sizes DEF Linked
    <3> QED
      BY <1>4, <1>7, <3>2
  <2> QED
    BY <1>1, <1>2, <1>7, <2>1
<1> QED
  BY <1>6, <1>7

\* r is m with the mark of a changed
Marks(m, a, r) ==
    /\ Linked(r) /\ DOMAIN r = DOMAIN m
    /\ \A c \in DOMAIN m : r[c].next = m[c].next /\ r[c].prev = m[c].prev
    /\ \A c \in DOMAIN m \ {a} : r[c].used = m[c].used

\* a block is taken or given back
LEMMA Marked ==
    ASSUME NEW m, Linked(m), NEW a \in DOMAIN m \ {End}, NEW u \in BOOLEAN
    PROVE  Marks(m, a, [m EXCEPT ![a].used = u]) /\ [m EXCEPT ![a].used = u][a].used = u
<1> DEFINE r == [m EXCEPT ![a].used = u]
<1>1. m \in [DOMAIN m -> Block]
  BY DEF Linked
<1>2. DOMAIN r = DOMAIN m /\ r[a] = [m[a] EXCEPT !.used = u] /\ \A c \in DOMAIN m \ {a} : r[c] = m[c]
  BY <1>1
<1>3. m[a] \in Block
  BY <1>1
<1>4. r[a].used = u /\ r[a].next = m[a].next /\ r[a].prev = m[a].prev /\ r[a] \in Block
  BY <1>2, <1>3 DEF Block
<1> HIDE DEF r
<1>5. /\ \A c \in DOMAIN m : r[c].next = m[c].next /\ r[c].prev = m[c].prev
      /\ \A c \in DOMAIN m \ {a} : r[c].used = m[c].used
  BY <1>2, <1>4
<1>6. r \in [DOMAIN r -> Block]
  <2>1. \A c \in DOMAIN r : r[c] \in Block
    BY <1>1, <1>2, <1>4
  <2>2. r = [c \in DOMAIN r |-> r[c]]
    BY <1>1 DEF r
  <2> QED
    BY <2>1, <2>2
<1>7. Linked(r)
  <2>1. r[End].used /\ r[0].prev = 0 /\ DOMAIN r \subseteq 0 .. End /\ 0 \in DOMAIN r /\ End \in DOMAIN r
    BY <1>2, <1>5 DEF Linked
  <2>2. ASSUME NEW c \in DOMAIN r \ {End}
        PROVE  /\ r[c].next \in DOMAIN r /\ c + Header < r[c].next
               /\ \A b \in DOMAIN r : b <= c \/ b >= r[c].next
               /\ r[c].next # End => r[r[c].next].prev = c
               /\ c # 0 => r[c].prev \in DOMAIN r \ {End} /\ r[r[c].prev].next = c
    BY <1>2, <1>5 DEF Linked
  <2> QED
    BY <1>6, <2>1, <2>2 DEF Linked
<1> QED
  BY <1>2, <1>4, <1>5, <1>7 DEF Marks, r

\* the block at a keeps n units
LEMMA SplitFacts ==
    ASSUME NEW m, Linked(m), NEW a \in DOMAIN m \ {End}, NEW n \in Nat \ {0},
           NEW b, b = a + Header + n, b + Header < m[a].next
    PROVE  LET r == Split(m, a, n)
           IN  /\ Linked(r) /\ DOMAIN r = DOMAIN m \cup {b} /\ b \notin DOMAIN m /\ a < b
               /\ r[a].next = b /\ r[b].next = m[a].next /\ ~r[b].used
               /\ \A c \in DOMAIN m : r[c].used = m[c].used /\ (c # a => r[c].next = m[c].next)
<1>p. PICK e, r : e = m[a].next /\ r = Split(m, a, n)
  OBVIOUS
<1>0. DOMAIN m \subseteq Nat /\ b \in Nat
  <2>1. DOMAIN m \subseteq Nat
    BY Sizes DEF Linked
  <2> QED
    BY <2>1, Sizes
<1>1. /\ e \in DOMAIN m /\ a < b /\ b + Header < e /\ b < e /\ a < e
      /\ \A c \in DOMAIN m : c <= a \/ c >= e
      /\ e # End => m[e].prev = a
  BY <1>0, <1>p, Sizes DEF Linked
<1>2. b \notin DOMAIN m /\ b # End /\ b \in 0 .. End
  BY <1>0, <1>1, Sizes DEF Linked
<1>3. m \in [DOMAIN m -> Block]
  BY DEF Linked
<1>4. /\ DOMAIN r = DOMAIN m \cup {b}
      /\ r[b] = [used |-> FALSE, next |-> e, prev |-> a]
      /\ r[a] = [m[a] EXCEPT !.next = b]
      /\ r[e] = IF e = End THEN m[e] ELSE [m[e] EXCEPT !.prev = b]
      /\ \A c \in DOMAIN m \ {a, e} : r[c] = m[c]
      /\ r = [c \in DOMAIN r |-> r[c]]
  BY <1>0, <1>1, <1>2, <1>p DEF Split
<1>5. m[a] \in Block /\ m[e] \in Block
  BY <1>1, <1>3
<1>6. /\ r[b].next = e /\ r[b].prev = a /\ ~r[b].used
      /\ r[a].next = b /\ r[a].prev = m[a].prev /\ r[a].used = m[a].used
      /\ r[e].next = m[e].next /\ r[e].used = m[e].used /\ (e # End => r[e].prev = b)
  BY <1>4, <1>5 DEF Block
<1>7. r \in [DOMAIN r -> Block]
  <2>1. r[b] \in Block /\ r[a] \in Block /\ r[e] \in Block
    BY <1>0, <1>1, <1>4, <1>5 DEF Block
  <2>2. \A c \in DOMAIN r : r[c] \in Block
    BY <1>3, <1>4, <2>1
  <2> QED
    BY <1>4, <2>2
<1>8. \A c \in DOMAIN m : r[c].used = m[c].used /\ (c # a => r[c].next = m[c].next)
  BY <1>4, <1>6
<1>9. r[End].used /\ r[0].prev = 0 /\ DOMAIN r \subseteq 0 .. End /\ 0 \in DOMAIN r /\ End \in DOMAIN r
  <2>1. m[End].used /\ m[0].prev = 0 /\ DOMAIN m \subseteq 0 .. End /\ 0 \in DOMAIN m /\ End \in DOMAIN m
    BY DEF Linked
  <2>2. 0 # e
    BY <1>0, <1>1
  <2>3. r[0].prev = 0
    BY <1>4, <1>6, <2>1, <2>2
  <2> QED
    BY <1>2, <1>4, <1>8, <2>1, <2>3
<1>10. ASSUME NEW c \in DOMAIN r \ {End}
       PROVE  /\ r[c].next \in DOMAIN r /\ c + Header < r[c].next
              /\ \A d \in DOMAIN r : d <= c \/ d >= r[c].next
              /\ r[c].next # End => r[r[c].next].prev = c
              /\ c # 0 => r[c].prev \in DOMAIN r \ {End} /\ r[r[c].prev].next = c
  <2>m. ASSUME c \in DOMAIN m
        PROVE  /\ m[c].next \in DOMAIN m /\ c + Header < m[c].next
               /\ \A d \in DOMAIN m : d <= c \/ d >= m[c].next
               /\ m[c].next # End => m[m[c].next].prev = c
               /\ c # 0 => m[c].prev \in DOMAIN m \ {End} /\ m[m[c].prev].next = c
    BY <2>m DEF Linked
  <2>n. a \in Nat /\ e \in Nat /\ n >= 1
    BY <1>0, <1>1
  <2>1. CASE c = b
    <3>1. \A d \in DOMAIN r : d <= c \/ d >= e
      <4> TAKE d \in DOMAIN r
      <4>1. CASE d = b
        BY <1>0, <2>1, <4>1
      <4>2. CASE d \in DOMAIN m
        BY <1>0, <1>1, <2>1, <2>n, <4>2
      <4> QED
        BY <1>4, <4>1, <4>2
    <3> QED
      BY <1>1, <1>4, <1>6, <2>1, <3>1
  <2>2. CASE c = a
    <3>1. \A d \in DOMAIN r : d <= c \/ d >= b
      <4> TAKE d \in DOMAIN r
      <4>1. CASE d = b
        BY <1>0, <4>1
      <4>2. CASE d \in DOMAIN m
        BY <1>0, <1>1, <2>2, <2>n, <4>2
      <4> QED
        BY <1>4, <4>1, <4>2
    <3>2. c + Header < b
      BY <2>2, <2>n, Sizes
    <3>3. c # 0 => m[c].prev \in DOMAIN r \ {End} /\ r[m[c].prev].next = c
      <4> SUFFICES ASSUME c # 0 PROVE m[c].prev \in DOMAIN r \ {End} /\ r[m[c].prev].next = c
        OBVIOUS
      <4>1. m[c].prev \in DOMAIN m \ {End} /\ m[m[c].prev].next = c
        BY <2>2, <2>m
      <4>2. m[c].prev # a
        <5>1. m[c].prev + Header < c
          BY <4>1 DEF Linked
        <5> QED
          BY <1>0, <2>2, <2>n, <5>1, Sizes
      <4> QED
        BY <1>4, <1>8, <4>1, <4>2
    <3> QED
      BY <1>4, <1>6, <2>2, <3>1, <3>2, <3>3
  <2>3. CASE c \in DOMAIN m \ {a}
    <3>1. r[c].next = m[c].next
      BY <1>8, <2>3
    <3>2. m[c].next # e \/ e = End
      BY <1>1, <2>3, <2>m
    <3>3. m[c].next # End => r[m[c].next].prev = c
      <4> SUFFICES ASSUME m[c].next # End PROVE r[m[c].next].prev = c
        OBVIOUS
      <4>1. m[c].next \in DOMAIN m /\ m[c].next # e
        BY <2>3, <2>m, <3>2
      <4>2. r[m[c].next].prev = m[m[c].next].prev
        BY <1>4, <1>6, <4>1
      <4> QED
        BY <2>3, <2>m, <4>2
    <3>4. \A d \in DOMAIN r : d <= c \/ d >= m[c].next
      <4> TAKE d \in DOMAIN r
      <4>1. CASE d \in DOMAIN m
        BY <2>3, <2>m, <4>1
      <4>2. CASE d = b
        <5>1. c \in Nat /\ m[c].next \in Nat /\ (a <= c \/ a >= m[c].next) /\ (c <= a \/ c >= e)
          BY <1>0, <1>1, <2>3, <2>m
        <5> QED
          BY <1>0, <1>1, <2>3, <2>n, <4>2, <5>1
      <4> QED
        BY <1>4, <4>1, <4>2
    <3>5. c # 0 => r[c].prev \in DOMAIN r \ {End} /\ r[r[c].prev].next = c
      <4> SUFFICES ASSUME c # 0 PROVE r[c].prev \in DOMAIN r \ {End} /\ r[r[c].prev].next = c
        OBVIOUS
      <4>1. CASE c = e
        BY <1>2, <1>4, <1>6, <4>1
      <4>2. CASE c # e
        <5>1. r[c].prev = m[c].prev
          BY <1>4, <2>3, <4>2
        <5>2. m[c].prev \in DOMAIN m \ {End} /\ m[m[c].prev].next = c
          BY <2>3, <2>m
        <5>3. m[c].prev # a
          BY <1>p, <4>2, <5>2
        <5> QED
          BY <1>4, <1>8, <5>1, <5>2, <5>3
      <4> QED
        BY <4>1, <4>2
    <3> QED
      BY <1>4, <2>3, <2>m, <3>1, <3>3, <3>4, <3>5
  <2> QED
    BY <1>4, <2>1, <2>2, <2>3
<1>11. Linked(r)
  BY <1>7, <1>9, <1>10 DEF Linked
<1> QED
  BY <1>1, <1>2, <1>4, <1>6, <1>8, <1>11, <1>p

-----------------------------------------------------------------------------
(* What the operations do to the list *)

LEMMA LowestOf ==
    ASSUME NEW m, Linked(m), NEW low \in DOMAIN m,
           \A c \in DOMAIN m \ {End} : ~m[c].used => low <= c
    PROVE  LowestFree(m, LowestFrom(m, low))
<1> DEFINE S == {b \in DOMAIN m : b >= low /\ (~m[b].used \/ b = End)}
<1>0. DOMAIN m \subseteq Nat /\ End \in DOMAIN m /\ \A c \in DOMAIN m : c <= End
  BY Sizes DEF Linked
<1>1. S \in SUBSET Nat /\ End \in S
  BY <1>0
<1>2. Min(S) \in S /\ \A x \in S : Min(S) <= x
  BY <1>1, Least
<1>3. LowestFrom(m, low) = Min(S)
  BY DEF LowestFrom
<1>4. \A c \in DOMAIN m \ {End} : ~m[c].used => c \in S
  BY <1>0
<1> QED
  BY <1>2, <1>3, <1>4 DEF LowestFree

\* the loop of rt_malloc has found the block at a
LEMMA TakenFacts ==
    ASSUME Sound, NEW n \in Nat, n >= MinSize, NEW a \in Fitting(n), NEW m,
           m = [(IF Splits(a, n) THEN Split(mem, a, n) ELSE mem) EXCEPT ![a].used = TRUE]
    PROVE  /\ Linked(m) /\ Joined(m, {})
           /\ LowestFree(m, IF a = lfree THEN LowestFrom(m, lfree) ELSE lfree)
           /\ \A c \in DOMAIN mem : mem[c].used => c \in DOMAIN m /\ m[c].used /\ m[c].next = mem[c].next
           /\ a \in DOMAIN mem \ {End} /\ ~mem[a].used
           /\ a \in DOMAIN m \ {End} /\ m[a].used /\ n <= Room(m, a)
<1> DEFINE b == a + Header + n
<1>0. Linked(mem) /\ Joined(mem, {}) /\ LowestFree(mem, lfree) /\ DOMAIN mem \subseteq Nat
  BY Sizes DEF Sound, Linked
<1>1. a \in DOMAIN mem /\ a >= lfree /\ a < Size - n /\ ~mem[a].used /\ Room(mem, a) >= n /\ a # End
  BY <1>0, Sizes DEF Fitting
<1>2. /\ mem[a].next \in DOMAIN mem /\ a + Header < mem[a].next
      /\ \A c \in DOMAIN mem : c <= a \/ c >= mem[a].next
  BY <1>0, <1>1 DEF Linked
<1>3. lfree \in DOMAIN mem /\ \A c \in DOMAIN mem \ {End} : ~mem[c].used => lfree <= c
  BY <1>0 DEF LowestFree
<1>4. mem[mem[a].next].used
  BY <1>0, <1>1 DEF Joined
<1>5. CASE Splits(a, n)
  <2>p. PICK s : s = Split(mem, a, n)
    OBVIOUS
  <2>1. b + Header < mem[a].next
    BY <1>0, <1>1, <1>2, <1>5, Sizes DEF Splits, Room
  <2>2. n \in Nat \ {0} /\ b \in Nat
    BY <1>0, <1>1, Sizes
  <2> HIDE DEF b
  <2>3. /\ Linked(s) /\ DOMAIN s = DOMAIN mem \cup {b} /\ b \notin DOMAIN mem /\ a < b
        /\ s[a].next = b /\ s[b].next = mem[a].next /\ ~s[b].used
        /\ \A c \in DOMAIN mem : s[c].used = mem[c].used /\ (c # a => s[c].next = mem[c].next)
    BY <1>0, <1>1, <2>1, <2>2, <2>p, SplitFacts DEF b
  <2>4. /\ Linked(m) /\ DOMAIN m = DOMAIN s /\ m[a].used
        /\ \A c \in DOMAIN s : m[c].next = s[c].next
        /\ \A c \in DOMAIN s \ {a} : m[c].used = s[c].used
    <3>1. m = [s EXCEPT ![a].used = TRUE]
      BY <1>5, <2>p
    <3>2. a \in DOMAIN s \ {End}
      BY <1>1, <2>3
    <3>3. Marks(s, a, [s EXCEPT ![a].used = TRUE])
      BY <2>3, <3>2, Marked
    <3>4. m[a].used
      BY <2>3, <3>1, <3>2 DEF Linked, Block
    <3> QED
      BY <3>1, <3>3, <3>4 DEF Marks
  <2>5. Joined(m, {})
    <3> SUFFICES ASSUME NEW c \in DOMAIN m \ {End}, ~m[c].used, ~m[m[c].next].used PROVE FALSE
      BY DEF Joined
    <3>1. m[c].next \in DOMAIN m /\ c # a
      BY <2>4 DEF Linked
    <3>2. CASE c = b
      <4>1. m[c].next = mem[a].next /\ mem[a].next # a
        BY <1>0, <1>1, <1>2, <2>3, <2>4, <3>2, Sizes
      <4> QED
        BY <1>2, <1>4, <2>3, <2>4, <4>1
    <3>3. CASE c \in DOMAIN mem
      <4>1. m[c].next = mem[c].next /\ ~mem[c].used
        BY <2>3, <2>4, <3>1, <3>3
      <4>2. mem[c].next \in DOMAIN mem /\ mem[c].next # a
        BY <1>0, <2>4, <3>3, <4>1 DEF Linked
      <4>3. ~mem[mem[c].next].used
        BY <2>3, <2>4, <4>1, <4>2
      <4> QED
        BY <1>0, <3>3, <4>1, <4>3 DEF Joined
    <3> QED
      BY <2>3, <2>4, <3>2, <3>3
  <2>6. lfree \in DOMAIN m /\ \A c \in DOMAIN m \ {End} : ~m[c].used => lfree <= c
    <3>1. lfree <= b
      BY <1>0, <1>1, <1>3, <2>2, <2>3
    <3> QED
      BY <1>3, <2>3, <2>4, <3>1
  <2>7. LowestFree(m, IF a = lfree THEN LowestFrom(m, lfree) ELSE lfree)
    <3>1. CASE a = lfree
      BY <2>4, <2>6, <3>1, LowestOf
    <3>2. CASE a # lfree
      <4>1. lfree = End \/ ~m[lfree].used
        BY <1>0, <1>3, <2>3, <2>4, <3>2 DEF LowestFree
      <4> QED
        BY <2>6, <3>2, <4>1 DEF LowestFree
    <3> QED
      BY <3>1, <3>2
  <2>8. Room(m, a) = n
    <3>1. m[a].next = a + Header + n
      BY <1>1, <2>3, <2>4 DEF b
    <3> QED
      BY <1>0, <1>1, <3>1, Sizes DEF Room
  <2>9. \A c \in DOMAIN mem : mem[c].used => c \in DOMAIN m /\ m[c].used /\ m[c].next = mem[c].next
    BY <1>1, <2>3, <2>4
  <2> QED
    BY <1>1, <2>3, <2>4, <2>5, <2>7, <2>8, <2>9
<1>6. CASE ~Splits(a, n)
  <2>4. /\ Linked(m) /\ DOMAIN m = DOMAIN mem /\ m[a].used
        /\ \A c \in DOMAIN mem : m[c].next = mem[c].next
        /\ \A c \in DOMAIN mem \ {a} : m[c].used = mem[c].used
    <3>1. m = [mem EXCEPT ![a].used = TRUE]
      BY <1>6
    <3>2. a \in DOMAIN mem \ {End}
      BY <1>1
    <3>3. Marks(mem, a, [mem EXCEPT ![a].used = TRUE])
      BY <1>0, <3>2, Marked
    <3>4. m[a].used
      BY <1>0, <3>1, <3>2 DEF Linked, Block
    <3> QED
      BY <3>1, <3>3, <3>4 DEF Marks
  <2>5. Joined(m, {})
    <3> SUFFICES ASSUME NEW c \in DOMAIN m \ {End}, ~m[c].used, ~m[m[c].next].used PROVE FALSE
      BY DEF Joined
    <3>1. m[c].next \in DOMAIN m /\ c # a
      BY <2>4 DEF Linked
    <3>2. m[c].next = mem[c].next /\ ~mem[c].used /\ ~mem[mem[c].next].used
      BY <2>4, <3>1
    <3> QED
      BY <1>0, <2>4, <3>2 DEF Joined
  <2>6. lfree \in DOMAIN m /\ \A c \in DOMAIN m \ {End} : ~m[c].used => lfree <= c
    BY <1>3, <2>4
  <2>7. LowestFree(m, IF a = lfree THEN LowestFrom(m, lfree) ELSE lfree)
    <3>1. CASE a = lfree
      BY <2>4, <2>6, <3>1, LowestOf
    <3>2. CASE a # lfree
      <4>1. lfree = End \/ ~m[lfree].used
        BY <1>0, <1>3, <2>4, <3>2 DEF LowestFree
      <4> QED
        BY <2>6, <3>2, <4>1 DEF LowestFree
    <3> QED
      BY <3>1, <3>2
  <2>8. Room(m, a) = Room(mem, a)
    BY <1>1, <2>4 DEF Room
  <2> QED
    BY <1>0, <1>1, <1>2, <2>4, <2>5, <2>7, <2>8, Sizes DEF Room
<1> QED
  BY <1>5, <1>6

\* m is sound, and the blocks in use are where they were, except for the one at a
Given(a, m, low) ==
    /\ Linked(m) /\ Joined(m, {}) /\ LowestFree(m, low)
    /\ \A c \in DOMAIN mem \ {a} :
          mem[c].used => c \in DOMAIN m /\ m[c].used /\ m[c].next = mem[c].next

\* rt_free
LEMMA GivenFacts ==
    ASSUME Sound, NEW a \in DOMAIN mem \ {End}, mem[a].used
    PROVE  LET r == PlugHoles([mem EXCEPT ![a].used = FALSE], Lowest(a), a)
           IN  Given(a, r.mem, r.lfree)
<1>p. PICK m, r : m = [mem EXCEPT ![a].used = FALSE] /\ r = PlugHoles(m, Lowest(a), a)
  OBVIOUS
<1>0. Linked(mem) /\ Joined(mem, {}) /\ LowestFree(mem, lfree) /\ DOMAIN mem \subseteq Nat
  BY Sizes DEF Sound, Linked
<1>1. /\ Linked(m) /\ DOMAIN m = DOMAIN mem /\ ~m[a].used
      /\ \A c \in DOMAIN mem : m[c].next = mem[c].next
      /\ \A c \in DOMAIN mem \ {a} : m[c].used = mem[c].used
  <2>1. Marks(mem, a, m) /\ m[a].used = FALSE
    BY <1>0, <1>p, Marked
  <2> QED
    BY <2>1 DEF Marks
<1>2. Joined(m, {a})
  <2> SUFFICES ASSUME NEW c \in DOMAIN m \ {End}, ~m[c].used, ~m[m[c].next].used, c # a, m[c].next # a
               PROVE  FALSE
    BY DEF Joined
  <2>1. m[c].next \in DOMAIN m
    BY <1>1 DEF Linked
  <2>2. m[c].next = mem[c].next /\ ~mem[c].used /\ ~mem[mem[c].next].used
    BY <1>1, <2>1
  <2> QED
    BY <1>0, <1>1, <2>2 DEF Joined
<1>3. LowestFree(m, Lowest(a))
  BY <1>0, <1>1 DEF LowestFree, Lowest
<1>4. Linked(r.mem) /\ Joined(r.mem, {}) /\ LowestFree(r.mem, r.lfree) /\ Kept(m, r.mem)
  BY <1>1, <1>2, <1>3, <1>p, Plugged
<1> QED
  BY <1>1, <1>4, <1>p DEF Kept, Given

\* rt_realloc gives back the end of a block
LEMMA ResizedFacts ==
    ASSUME Sound, NEW a \in DOMAIN mem \ {End}, mem[a].used, NEW n \in Nat \ {0},
           n + Header + MinSize < Room(mem, a), NEW b, b = a + Header + n, NEW r,
           r = PlugHoles(Split(mem, a, n), Lowest(b), b)
    PROVE  /\ Linked(r.mem) /\ Joined(r.mem, {}) /\ LowestFree(r.mem, r.lfree)
           /\ \A c \in DOMAIN mem \ {a} :
                 mem[c].used => c \in DOMAIN r.mem /\ r.mem[c].used /\ r.mem[c].next = mem[c].next
           /\ a \in DOMAIN r.mem /\ r.mem[a].used /\ r.mem[a].next = b /\ Room(r.mem, a) = n
           /\ b < mem[a].next
<1>p. PICK m : m = Split(mem, a, n)
  OBVIOUS
<1>0. Linked(mem) /\ Joined(mem, {}) /\ LowestFree(mem, lfree) /\ DOMAIN mem \subseteq Nat
  BY Sizes DEF Sound, Linked
<1>1. mem[a].next \in DOMAIN mem /\ a + Header < mem[a].next
  BY <1>0 DEF Linked
<1>2. b + Header < mem[a].next /\ b \in Nat /\ b < mem[a].next
  BY <1>0, <1>1, Sizes DEF Room
<1>3. /\ Linked(m) /\ DOMAIN m = DOMAIN mem \cup {b} /\ b \notin DOMAIN mem /\ a < b
      /\ m[a].next = b /\ m[b].next = mem[a].next /\ ~m[b].used
      /\ \A c \in DOMAIN mem : m[c].used = mem[c].used /\ (c # a => m[c].next = mem[c].next)
  <2>1. Linked(mem) /\ a \in DOMAIN mem \ {End} /\ n \in Nat \ {0} /\ b = a + Header + n
    BY <1>0
  <2> QED
    BY <1>2, <1>p, <2>1, SplitFacts
<1>4. b \in DOMAIN m \ {End}
  BY <1>0, <1>3 DEF Linked
<1>5. Joined(m, {b})
  <2> SUFFICES ASSUME NEW c \in DOMAIN m \ {End}, ~m[c].used, ~m[m[c].next].used, c # b, m[c].next # b
               PROVE  FALSE
    BY DEF Joined
  <2>1. m[c].next \in DOMAIN m
    BY <1>3 DEF Linked
  <2>2. c \in DOMAIN mem /\ c # a /\ m[c].next \in DOMAIN mem
    BY <1>3, <2>1
  <2>3. m[c].next = mem[c].next /\ ~mem[c].used /\ ~mem[mem[c].next].used
    BY <1>3, <2>2
  <2> QED
    BY <1>0, <2>2, <2>3 DEF Joined
<1>6. LowestFree(m, Lowest(b))
  <2>1. /\ lfree \in DOMAIN mem /\ (lfree = End \/ ~mem[lfree].used)
        /\ \A c \in DOMAIN mem \ {End} : ~mem[c].used => lfree <= c
    BY <1>0 DEF LowestFree
  <2>2. Lowest(b) \in DOMAIN m /\ (Lowest(b) = End \/ ~m[Lowest(b)].used)
    BY <1>3, <2>1 DEF Lowest
  <2>3. Lowest(b) <= b /\ Lowest(b) <= lfree
    BY <1>0, <1>2, <2>1 DEF Lowest
  <2>4. ASSUME NEW c \in DOMAIN m \ {End}, ~m[c].used PROVE Lowest(b) <= c
    <3>1. CASE c = b
      BY <2>3, <3>1
    <3>2. CASE c \in DOMAIN mem
      <4>1. lfree <= c
        BY <1>3, <2>1, <2>4, <3>2
      <4>2. c \in Nat /\ lfree \in Nat /\ Lowest(b) \in Nat
        BY <1>0, <1>2, <2>1, <3>2 DEF Lowest
      <4> QED
        BY <2>3, <4>1, <4>2
    <3> QED
      BY <1>3, <3>1, <3>2
  <2> QED
    BY <2>2, <2>4 DEF LowestFree
<1>7. Linked(r.mem) /\ Joined(r.mem, {}) /\ LowestFree(r.mem, r.lfree) /\ Kept(m, r.mem)
  BY <1>3, <1>4, <1>5, <1>6, <1>p, Plugged
<1>8. /\ \A c \in DOMAIN mem \ {a} :
             mem[c].used => c \in DOMAIN r.mem /\ r.mem[c].used /\ r.mem[c].next = mem[c].next
      /\ a \in DOMAIN r.mem /\ r.mem[a].used /\ r.mem[a].next = b
  BY <1>3, <1>7 DEF Kept
<1>9. Room(r.mem, a) = n
  BY <1>0, <1>8, Sizes DEF Room
<1> QED
  BY <1>2, <1>7, <1>8, <1>9

-----------------------------------------------------------------------------
(* The callers *)

\* what t owns has changed at the block a, if at all; the other blocks in use are where they were
LEMMA StillOwned ==
    ASSUME Owned, NEW t \in Caller, NEW a, NEW own \in SUBSET Piece, NEW new \in SUBSET Piece,
           owned' = [owned EXCEPT ![t] = own \cup new],
           own \subseteq owned[t], \A u \in Caller : \A x \in owned[u] : x.block = a => u = t /\ x \notin own,
           \A c \in DOMAIN mem \ {a, End} :
              mem[c].used => c \in DOMAIN mem' /\ mem'[c].used /\ mem'[c].next = mem[c].next,
           \A x \in new : /\ x.block = a /\ a \in DOMAIN mem' \ {End} /\ mem'[a].used
                          /\ x.need <= Room(mem', a),
           \A x, y \in new : x = y
    PROVE  Owned'
<1>1. /\ owned \in [Caller -> SUBSET Piece]
      /\ \A u \in Caller : \A x \in owned[u] :
            x.block \in DOMAIN mem \ {End} /\ mem[x.block].used /\ x.need <= Room(mem, x.block)
      /\ \A u, v \in Caller : \A x \in owned[u] : \A y \in owned[v] :
            x.block = y.block => u = v /\ x = y
  BY DEF Owned
<1>2. owned' \in [Caller -> SUBSET Piece]
  BY <1>1
<1>3. \A u \in Caller : \A x \in owned'[u] :
         \/ x \in owned[u] /\ x.block # a
         \/ x \in new /\ u = t /\ x.block = a
  BY <1>1
<1>4. \A u \in Caller : \A x \in owned'[u] :
         x.block \in DOMAIN mem' \ {End} /\ mem'[x.block].used /\ x.need <= Room(mem', x.block)
  <2> TAKE u \in Caller
  <2> TAKE x \in owned'[u]
  <2>1. CASE x \in owned[u] /\ x.block # a
    <3>1. /\ x.block \in DOMAIN mem \ {a, End} /\ mem[x.block].used /\ x.need <= Room(mem, x.block)
      BY <1>1, <2>1
    <3>2. x.block \in DOMAIN mem' /\ mem'[x.block].used /\ mem'[x.block].next = mem[x.block].next
      BY <3>1
    <3>3. Room(mem', x.block) = Room(mem, x.block)
      BY <3>2 DEF Room
    <3> QED
      BY <3>1, <3>2, <3>3
  <2>2. CASE x \in new /\ x.block = a
    BY <2>2
  <2> QED
    BY <1>3, <2>1, <2>2
<1>5. \A u, v \in Caller : \A x \in owned'[u] : \A y \in owned'[v] :
         x.block = y.block => u = v /\ x = y
  BY <1>1, <1>3
<1> QED
  BY <1>2, <1>4, <1>5 DEF Owned

\* t makes the call c, or its call returns
LEMMA Calling ==
    ASSUME Called, NEW t \in Caller, NEW c \in Call, call' = [call EXCEPT ![t] = c],
           c.op \in {"malloc", "realloc"} => c.size \in 1 .. Size,
           c.op \in {"free", "realloc"} => \E x \in owned'[t] : x.block = c.block,
           c.op = "malloc" => \A b \in c.old : \E x \in owned'[t] : x.block = b,
           \A u \in Caller \ {t} : owned'[u] = owned[u]
    PROVE  Called'
<1>1. call' \in [Caller -> Call] /\ call'[t] = c /\ \A u \in Caller \ {t} : call'[u] = call[u]
  BY DEF Called
<1>2. ASSUME NEW u \in Caller
      PROVE  /\ call'[u].op \in {"malloc", "realloc"} => call'[u].size \in 1 .. Size
             /\ call'[u].op \in {"free", "realloc"} => \E x \in owned'[u] : x.block = call'[u].block
             /\ call'[u].op = "malloc" => \A b \in call'[u].old : \E x \in owned'[u] : x.block = b
  <2>1. CASE u = t
    BY <1>1, <2>1
  <2>2. CASE u # t
    BY <1>1, <2>2 DEF Called
  <2> QED
    BY <2>1, <2>2
<1> QED
  BY <1>1, <1>2 DEF Called

LEMMA Idle ==
    /\ NoCall \in Call /\ Dead \in Call
    /\ NoCall.op \notin {"malloc", "free", "realloc"} /\ Dead.op \notin {"malloc", "free", "realloc"}
BY DEF NoCall, Dead, Call

LEMMA SameList ==
    ASSUME Sound, Owned, UNCHANGED <<mem, lfree, owned>>
    PROVE  Sound' /\ Owned'
<1>1. Sound'
  BY DEF Sound
<1>2. \A a : Room(mem', a) = Room(mem, a)
  BY DEF Room
<1> QED
  BY <1>1, <1>2 DEF Owned

LEMMA InvStart == Init => Inv
<1> SUFFICES ASSUME Init PROVE Inv
  OBVIOUS
<1>1. /\ mem = [a \in {0, End} |-> [used |-> a = End, next |-> End, prev |-> a]] /\ lfree = 0
      /\ call = [t \in Caller |-> NoCall] /\ owned = [t \in Caller |-> {}]
  BY DEF Init
<1>2. 0 # End /\ 0 \in Nat /\ End \in Nat /\ Header < End /\ 0 \in 0 .. End /\ End \in 0 .. End
  BY Sizes
<1>3. /\ DOMAIN mem = {0, End}
      /\ mem[0] = [used |-> FALSE, next |-> End, prev |-> 0]
      /\ mem[End] = [used |-> TRUE, next |-> End, prev |-> End]
  BY <1>1, <1>2
<1>4. mem \in [DOMAIN mem -> Block]
  <2>1. mem[0] \in Block /\ mem[End] \in Block
    BY <1>2, <1>3 DEF Block
  <2>2. mem = [a \in DOMAIN mem |-> mem[a]]
    BY <1>1
  <2> QED
    BY <1>3, <2>1, <2>2
<1>5. Linked(mem)
  BY <1>2, <1>3, <1>4, Sizes DEF Linked
<1>6. Joined(mem, {}) /\ LowestFree(mem, lfree)
  BY <1>1, <1>2, <1>3 DEF Joined, LowestFree
<1>7. Owned
  BY <1>1 DEF Owned
<1>8. Called
  BY <1>1, Idle DEF Called
<1> QED
  BY <1>5, <1>6, <1>7, <1>8 DEF Inv, Sound

LEMMA FoundStep ==
    ASSUME Inv, NEW t \in Caller, Found(t)
    PROVE  Inv' /\ \E x \in Piece : /\ owned' = [owned EXCEPT ![t] = @ \cup {x}]
                                    /\ x.block \in DOMAIN mem \ {End} /\ ~mem[x.block].used
                                    /\ \A c \in DOMAIN mem : mem[c].used => mem'[c].next = mem[c].next
<1>n. PICK n : n = Aligned(call[t].size)
  OBVIOUS
<1>a. PICK a : a = Min(Fitting(n))
  OBVIOUS
<1>x. PICK x : x = [block |-> a, need |-> call[t].size]
  OBVIOUS
<1>0. Sound /\ Owned /\ Called /\ call[t].op = "malloc" /\ DOMAIN mem \subseteq Nat
  <2>1. Sound /\ Owned /\ Called /\ call[t].op = "malloc"
    BY DEF Inv, Found, Works
  <2>2. DOMAIN mem \subseteq Nat
    BY <2>1, Sizes DEF Sound, Linked
  <2> QED
    BY <2>1, <2>2
<1>1. call[t] \in Call /\ call[t].size \in 1 .. Size
  BY <1>0 DEF Called
<1>2. n \in Nat /\ n >= MinSize /\ n >= call[t].size /\ call[t].size \in Nat
  BY <1>1, <1>n, Sizes DEF Aligned
<1>3. Fitting(n) # {} /\ owned' = [owned EXCEPT ![t] = @ \cup {x}]
      /\ mem' = [(IF Splits(a, n) THEN Split(mem, a, n) ELSE mem) EXCEPT ![a].used = TRUE]
      /\ lfree' = IF a = lfree THEN LowestFrom(mem', lfree) ELSE lfree
  BY <1>n, <1>a, <1>x DEF Found
<1>4. a \in Fitting(n)
  <2>1. Fitting(n) \in SUBSET Nat
    BY <1>0 DEF Fitting
  <2> QED
    BY <1>3, <1>a, <2>1, Least
<1>5. /\ Linked(mem') /\ Joined(mem', {}) /\ LowestFree(mem', lfree')
      /\ \A c \in DOMAIN mem : mem[c].used => c \in DOMAIN mem' /\ mem'[c].used /\ mem'[c].next = mem[c].next
      /\ a \in DOMAIN mem \ {End} /\ ~mem[a].used
      /\ a \in DOMAIN mem' \ {End} /\ mem'[a].used /\ n <= Room(mem', a)
  BY <1>0, <1>2, <1>3, <1>4, TakenFacts
<1>6. Sound'
  BY <1>5 DEF Sound
<1>7. x \in Piece /\ x.block = a /\ x.need = call[t].size
  BY <1>0, <1>1, <1>2, <1>5, <1>x DEF Piece
<1>8. Owned'
  <2>1. owned[t] \in SUBSET Piece
    BY <1>0 DEF Owned
  <2>2. \A u \in Caller : \A y \in owned[u] : y.block # a
    BY <1>0, <1>5 DEF Owned
  <2>3. x.need <= Room(mem', a)
    <3>1. Room(mem', a) \in Int
      BY <1>0, <1>5, Sizes DEF Room, Linked, Block
    <3> QED
      BY <1>2, <1>5, <1>7, <3>1
  <2>4. {x} \in SUBSET Piece
    BY <1>7
  <2>p. PICK own, new : own = owned[t] /\ new = {x}
    OBVIOUS
  <2>5. owned' = [owned EXCEPT ![t] = own \cup new] /\ own \subseteq owned[t]
    BY <1>3, <2>p
  <2>6. \A u \in Caller : \A y \in owned[u] : y.block = a => u = t /\ y \notin own
    BY <2>2, <2>p
  <2>7. /\ \A y \in new : /\ y.block = a /\ a \in DOMAIN mem' \ {End} /\ mem'[a].used
                          /\ y.need <= Room(mem', a)
        /\ \A y, z \in new : y = z
    BY <1>5, <1>7, <2>3, <2>p
  <2>8. \A c \in DOMAIN mem \ {a, End} :
           mem[c].used => c \in DOMAIN mem' /\ mem'[c].used /\ mem'[c].next = mem[c].next
    BY <1>5
  <2>9. own \in SUBSET Piece /\ new \in SUBSET Piece
    BY <2>1, <2>4, <2>p
  <2> QED
    BY <1>0, <2>5, <2>6, <2>7, <2>8, <2>9, StillOwned
<1>9. Called'
  <2>1. owned'[t] = owned[t] \cup {x} /\ \A u \in Caller \ {t} : owned'[u] = owned[u]
    BY <1>0, <1>3 DEF Owned
  <2>2. CASE call[t].old = {}
    <3>1. call' = [call EXCEPT ![t] = NoCall]
      BY <2>2 DEF Found, Returns
    <3> QED
      BY <1>0, <2>1, <3>1, Idle, Calling
  <2>3. CASE call[t].old # {}
    <3>1. PICK old \in call[t].old : call' = [call EXCEPT ![t] = [NoCall EXCEPT !.op = "free", !.block = old]]
      BY <2>3 DEF Found, GoesOn
    <3>2. PICK c : c = [NoCall EXCEPT !.op = "free", !.block = old]
      OBVIOUS
    <3>3. c \in Call /\ c.op = "free" /\ c.block = old
      BY <1>1, <3>2 DEF NoCall, Call
    <3>4. \E y \in owned'[t] : y.block = old
      BY <1>0, <2>1 DEF Called
    <3> QED
      BY <1>0, <2>1, <3>1, <3>2, <3>3, <3>4, Calling
  <2> QED
    BY <2>2, <2>3
<1> QED
  BY <1>3, <1>5, <1>6, <1>7, <1>8, <1>9 DEF Inv

LEMMA FreedStep ==
    ASSUME Inv, NEW t \in Caller, Freed(t)
    PROVE  Inv' /\ \E x \in owned[t] : /\ owned' = [owned EXCEPT ![t] = @ \ {x}]
                                       /\ \A c \in DOMAIN mem \ {x.block} : mem[c].used => mem'[c].next = mem[c].next
<1>a. PICK a, m, r : a = call[t].block /\ m = [mem EXCEPT ![a].used = FALSE] /\ r = PlugHoles(m, Lowest(a), a)
  OBVIOUS
<1>0. Sound /\ Owned /\ Called /\ call[t].op = "free"
  BY DEF Inv, Freed, Works
<1>1. PICK x \in owned[t] : x.block = a
  BY <1>0, <1>a DEF Called
<1>2. /\ mem' = r.mem /\ lfree' = r.lfree /\ call' = [call EXCEPT ![t] = NoCall]
      /\ owned' = [owned EXCEPT ![t] = {y \in @ : y.block # a}]
  BY <1>a DEF Freed, Returns
<1>3. a \in DOMAIN mem \ {End} /\ mem[a].used
  BY <1>0, <1>1 DEF Owned
<1>4. /\ Linked(mem') /\ Joined(mem', {}) /\ LowestFree(mem', lfree')
      /\ \A c \in DOMAIN mem \ {a} :
            mem[c].used => c \in DOMAIN mem' /\ mem'[c].used /\ mem'[c].next = mem[c].next
  <2>1. /\ Linked(r.mem) /\ Joined(r.mem, {}) /\ LowestFree(r.mem, r.lfree)
        /\ \A c \in DOMAIN mem \ {a} :
              mem[c].used => c \in DOMAIN r.mem /\ r.mem[c].used /\ r.mem[c].next = mem[c].next
    <3>1. Given(a, r.mem, r.lfree)
      BY <1>0, <1>3, <1>a, GivenFacts
    <3> QED
      BY <3>1 DEF Given
  <2> QED
    BY <1>2, <2>1
<1>5. Sound'
  BY <1>4 DEF Sound
<1>p. PICK own, new : own = {y \in owned[t] : y.block # a} /\ new = {}
  OBVIOUS
<1>6. owned' = [owned EXCEPT ![t] = own]
  BY <1>2, <1>p
<1>7. owned[t] \in SUBSET Piece /\ \A u \in Caller : \A y \in owned[u] : y.block = a => u = t /\ y = x
  BY <1>0, <1>1 DEF Owned
<1>8. Owned'
  <2>1. owned' = [owned EXCEPT ![t] = own \cup new] /\ own \subseteq owned[t]
    BY <1>6, <1>p
  <2>2. own \in SUBSET Piece /\ new \in SUBSET Piece
    BY <1>7, <1>p
  <2>3. \A u \in Caller : \A y \in owned[u] : y.block = a => u = t /\ y \notin own
    BY <1>7, <1>p
  <2>4. /\ \A y \in new : /\ y.block = a /\ a \in DOMAIN mem' \ {End} /\ mem'[a].used
                          /\ y.need <= Room(mem', a)
        /\ \A y, z \in new : y = z
    BY <1>p
  <2>5. \A c \in DOMAIN mem \ {a, End} :
           mem[c].used => c \in DOMAIN mem' /\ mem'[c].used /\ mem'[c].next = mem[c].next
    BY <1>4
  <2> QED
    BY <1>0, <2>1, <2>2, <2>3, <2>4, <2>5, StillOwned
<1>9. Called'
  <2>1. \A u \in Caller \ {t} : owned'[u] = owned[u]
    BY <1>0, <1>2 DEF Owned
  <2> QED
    BY <1>0, <1>2, <2>1, Idle, Calling
<1>10. own = owned[t] \ {x}
  BY <1>1, <1>7, <1>p
<1> QED
  BY <1>1, <1>4, <1>5, <1>6, <1>8, <1>9, <1>10 DEF Inv

LEMMA ResizedStep ==
    ASSUME Inv, NEW t \in Caller, Resized(t)
    PROVE  /\ Inv'
           /\ \/ UNCHANGED <<mem, owned>>
              \/ \E x \in owned[t] : \E y \in Piece :
                    /\ owned' = [owned EXCEPT ![t] = (@ \ {x}) \cup {y}] /\ y.block = x.block
                    /\ mem'[x.block].next <= mem[x.block].next
                    /\ \A c \in DOMAIN mem \ {x.block} : mem[c].used => mem'[c].next = mem[c].next
<1>a. PICK a, n, b, r : /\ a = call[t].block /\ n = call[t].size /\ b = a + Header + n
                        /\ r = PlugHoles(Split(mem, a, n), Lowest(b), b)
  OBVIOUS
<1>0. Sound /\ Owned /\ Called /\ call[t].op = "realloc"
  BY DEF Inv, Resized, Works
<1>1. PICK x \in owned[t] : x.block = a
  BY <1>0, <1>a DEF Called
<1>2. a \in DOMAIN mem \ {End} /\ mem[a].used /\ a \in Nat /\ mem[a].next \in Nat
  <2>1. a \in DOMAIN mem \ {End} /\ mem[a].used
    BY <1>0, <1>1 DEF Owned
  <2> QED
    BY <1>0, <2>1, Sizes DEF Sound, Linked, Block
<1>3. call[t] \in Call /\ n \in 1 .. Size /\ n \in Nat \ {0}
  BY <1>0, <1>a, Sizes DEF Called
<1>4. owned[t] \in SUBSET Piece /\ \A u \in Caller : \A y \in owned[u] : y.block = a => u = t /\ y = x
  BY <1>0, <1>1 DEF Owned
<1>5. \/ /\ Room(mem, a) = n
         /\ owned' = [owned EXCEPT ![t] = {y \in @ : y.block # a} \cup {[block |-> a, need |-> n]}]
         /\ call' = [call EXCEPT ![t] = NoCall] /\ UNCHANGED <<mem, lfree>>
      \/ /\ n + Header + MinSize < Room(mem, a)
         /\ mem' = r.mem /\ lfree' = r.lfree /\ call' = [call EXCEPT ![t] = NoCall]
         /\ owned' = [owned EXCEPT ![t] = {y \in @ : y.block # a} \cup {[block |-> a, need |-> n]}]
      \/ /\ call' = [call EXCEPT ![t] = [NoCall EXCEPT !.op = "malloc", !.size = n, !.old = {a}]]
         /\ UNCHANGED <<mem, lfree, owned>>
  BY <1>a DEF Resized, Returns, GoesOn
<1>p. PICK y, own, new : y = [block |-> a, need |-> n] /\ own = {z \in owned[t] : z.block # a} /\ new = {y}
  OBVIOUS
<1>y. y \in Piece /\ y.block = a /\ y.need = n /\ own = owned[t] \ {x}
  BY <1>1, <1>2, <1>3, <1>4, <1>p DEF Piece
\* the block keeps n units
<1>6. ASSUME Linked(mem'), Joined(mem', {}), LowestFree(mem', lfree'),
             owned' = [owned EXCEPT ![t] = {z \in @ : z.block # a} \cup {[block |-> a, need |-> n]}],
             call' = [call EXCEPT ![t] = NoCall],
             a \in DOMAIN mem' \ {End}, mem'[a].used, n <= Room(mem', a), mem'[a].next <= mem[a].next,
             \A c \in DOMAIN mem \ {a} :
                mem[c].used => c \in DOMAIN mem' /\ mem'[c].used /\ mem'[c].next = mem[c].next
      PROVE  /\ Inv'
             /\ \E z \in owned[t] : \E w \in Piece :
                    /\ owned' = [owned EXCEPT ![t] = (@ \ {z}) \cup {w}] /\ w.block = z.block
                    /\ mem'[z.block].next <= mem[z.block].next
                    /\ \A c \in DOMAIN mem \ {z.block} : mem[c].used => mem'[c].next = mem[c].next
  <2>1. owned' = [owned EXCEPT ![t] = own \cup new] /\ own \subseteq owned[t]
    BY <1>6, <1>p
  <2>2. own \in SUBSET Piece /\ new \in SUBSET Piece
    BY <1>4, <1>p, <1>y
  <2>3. \A u \in Caller : \A z \in owned[u] : z.block = a => u = t /\ z \notin own
    BY <1>4, <1>p
  <2>4. /\ \A z \in new : /\ z.block = a /\ a \in DOMAIN mem' \ {End} /\ mem'[a].used
                          /\ z.need <= Room(mem', a)
        /\ \A z, w \in new : z = w
    BY <1>6, <1>p, <1>y
  <2>5. \A c \in DOMAIN mem \ {a, End} :
           mem[c].used => c \in DOMAIN mem' /\ mem'[c].used /\ mem'[c].next = mem[c].next
    BY <1>6
  <2>6. Owned'
    BY <1>0, <2>1, <2>2, <2>3, <2>4, <2>5, StillOwned
  <2>7. Sound'
    BY <1>6 DEF Sound
  <2>8. Called'
    <3>1. \A u \in Caller \ {t} : owned'[u] = owned[u]
      BY <1>0, <1>6 DEF Owned
    <3> QED
      BY <1>0, <1>6, <3>1, Idle, Calling
  <2>9. owned' = [owned EXCEPT ![t] = (@ \ {x}) \cup {y}]
    BY <1>p, <1>y, <2>1
  <2> QED
    BY <1>1, <1>6, <1>y, <2>6, <2>7, <2>8, <2>9 DEF Inv
<1>7. CASE /\ Room(mem, a) = n
           /\ owned' = [owned EXCEPT ![t] = {z \in @ : z.block # a} \cup {[block |-> a, need |-> n]}]
           /\ call' = [call EXCEPT ![t] = NoCall] /\ UNCHANGED <<mem, lfree>>
  <2>1. Linked(mem') /\ Joined(mem', {}) /\ LowestFree(mem', lfree')
    BY <1>0, <1>7 DEF Sound
  <2>2. n <= Room(mem', a) /\ mem'[a].next <= mem[a].next
    BY <1>2, <1>3, <1>7
  <2> QED
    BY <1>2, <1>6, <1>7, <2>1, <2>2
<1>8. CASE /\ n + Header + MinSize < Room(mem, a)
           /\ mem' = r.mem /\ lfree' = r.lfree /\ call' = [call EXCEPT ![t] = NoCall]
           /\ owned' = [owned EXCEPT ![t] = {z \in @ : z.block # a} \cup {[block |-> a, need |-> n]}]
  <2>1. /\ Linked(r.mem) /\ Joined(r.mem, {}) /\ LowestFree(r.mem, r.lfree)
        /\ \A c \in DOMAIN mem \ {a} :
              mem[c].used => c \in DOMAIN r.mem /\ r.mem[c].used /\ r.mem[c].next = mem[c].next
        /\ a \in DOMAIN r.mem /\ r.mem[a].used /\ r.mem[a].next = b /\ Room(r.mem, a) = n
        /\ b < mem[a].next
    BY <1>0, <1>2, <1>3, <1>8, <1>a, ResizedFacts
  <2>2. n <= Room(mem', a) /\ mem'[a].next <= mem[a].next
    <3>1. b \in Nat
      BY <1>2, <1>3, <1>a, Sizes
    <3>2. mem'[a].next = b
      BY <1>8, <2>1
    <3>3. Room(mem', a) = n
      BY <1>2, <1>3, <1>a, <3>2, Sizes DEF Room
    <3> QED
      BY <1>2, <1>3, <2>1, <3>1, <3>2, <3>3
  <2> QED
    BY <1>2, <1>6, <1>8, <2>1, <2>2
<1>9. CASE /\ call' = [call EXCEPT ![t] = [NoCall EXCEPT !.op = "malloc", !.size = n, !.old = {a}]]
           /\ UNCHANGED <<mem, lfree, owned>>
  <2>1. PICK c : c = [NoCall EXCEPT !.op = "malloc", !.size = n, !.old = {a}]
    OBVIOUS
  <2>2. c \in Call /\ c.op = "malloc" /\ c.size = n /\ c.old = {a}
    BY <1>2, <1>3, <2>1 DEF NoCall, Call
  <2>3. \A d \in c.old : \E z \in owned'[t] : z.block = d
    BY <1>1, <1>9, <2>2
  <2>4. Called'
    BY <1>0, <1>3, <1>9, <2>1, <2>2, <2>3, Calling
  <2>5. Sound' /\ Owned'
    BY <1>0, <1>9, SameList
  <2> QED
    BY <1>9, <2>4, <2>5 DEF Inv
<1> QED
  BY <1>5, <1>7, <1>8, <1>9

\* the other steps leave the list and what is owned alone
LEMMA OtherStep ==
    ASSUME Inv, NEW t \in Caller,
           \/ \E n \in Asked : Malloc(t, n) \/ Realloc(t, n)
           \/ Free(t) \/ AsksAgain(t) \/ NotFound(t) \/ Deleted(t)
    PROVE  Inv' /\ UNCHANGED <<mem, lfree, owned>>
<1>0. Sound /\ Owned /\ Called
  BY DEF Inv
<1>1. UNCHANGED <<mem, lfree, owned>>
  BY DEF Malloc, Realloc, Free, Asks, AsksAgain, NotFound, Deleted
<1>2. Sound' /\ Owned'
  BY <1>0, <1>1, SameList
<1>n. \A n \in Asked : n \in Nat /\ n >= 1
  BY SizeAssumption
<1>3. ASSUME NEW n \in Asked, Malloc(t, n) PROVE Called'
  <2>1. PICK c : c = [NoCall EXCEPT !.op = "malloc", !.size = n]
    OBVIOUS
  <2>2. c \in Call /\ c.op = "malloc" /\ c.size = n /\ c.old = {}
    BY <1>n, <2>1 DEF NoCall, Call
  <2>3. call' = [call EXCEPT ![t] = c] /\ n <= Size
    BY <1>3, <2>1 DEF Malloc, Asks
  <2>4. n \in 1 .. Size
    BY <1>n, <2>3, Sizes
  <2> QED
    BY <1>0, <1>1, <2>2, <2>3, <2>4, Calling
<1>4. ASSUME NEW n \in Asked, Realloc(t, n) PROVE Called'
  <2>0. PICK x \in owned[t] : call' = [call EXCEPT ![t] = [NoCall EXCEPT !.op = "realloc", !.size = n, !.block = x.block]]
    BY <1>4 DEF Realloc, Asks
  <2>1. PICK c : c = [NoCall EXCEPT !.op = "realloc", !.size = n, !.block = x.block]
    OBVIOUS
  <2>2. x.block \in Nat
    BY <1>0 DEF Owned, Piece
  <2>3. c \in Call /\ c.op = "realloc" /\ c.size = n /\ c.block = x.block
    BY <1>n, <2>1, <2>2 DEF NoCall, Call
  <2>4. n \in 1 .. Size
    <3>1. n <= Size
      BY <1>4 DEF Realloc
    <3> QED
      BY <1>n, <3>1, Sizes
  <2> QED
    BY <1>0, <1>1, <2>0, <2>1, <2>3, <2>4, Calling
<1>5. ASSUME Free(t) PROVE Called'
  <2>0. PICK x \in owned[t] : call' = [call EXCEPT ![t] = [NoCall EXCEPT !.op = "free", !.block = x.block]]
    BY <1>5 DEF Free, Asks
  <2>1. PICK c : c = [NoCall EXCEPT !.op = "free", !.block = x.block]
    OBVIOUS
  <2>2. x.block \in Nat
    BY <1>0 DEF Owned, Piece
  <2>3. c \in Call /\ c.op = "free" /\ c.block = x.block
    BY <2>1, <2>2 DEF NoCall, Call
  <2> QED
    BY <1>0, <1>1, <2>0, <2>1, <2>3, Calling
<1>6. ASSUME AsksAgain(t) PROVE Called'
  BY <1>0, <1>1, <1>6 DEF AsksAgain, Called
<1>7. ASSUME NotFound(t) PROVE Called'
  <2>1. call' = [call EXCEPT ![t] = NoCall]
    BY <1>7 DEF NotFound, GivesUp, Returns
  <2> QED
    BY <1>0, <1>1, <2>1, Idle, Calling
<1>8. ASSUME Deleted(t) PROVE Called'
  <2>1. call' = [call EXCEPT ![t] = Dead]
    BY <1>8 DEF Deleted
  <2> QED
    BY <1>0, <1>1, <2>1, Idle, Calling
<1>9. Called'
  BY <1>3, <1>4, <1>5, <1>6, <1>7, <1>8
<1> QED
  BY <1>1, <1>2, <1>9 DEF Inv

LEMMA InvStep == Inv /\ [Next]_vars => Inv'
<1> SUFFICES ASSUME Inv, [Next]_vars PROVE Inv'
  OBVIOUS
<1>1. ASSUME NEW t \in Caller, Found(t) PROVE Inv'
  BY <1>1, FoundStep
<1>2. ASSUME NEW t \in Caller, Freed(t) PROVE Inv'
  BY <1>2, FreedStep
<1>3. ASSUME NEW t \in Caller, Resized(t) PROVE Inv'
  BY <1>3, ResizedStep
<1>4. ASSUME NEW t \in Caller,
             \/ \E n \in Asked : Malloc(t, n) \/ Realloc(t, n)
             \/ Free(t) \/ AsksAgain(t) \/ NotFound(t) \/ Deleted(t)
      PROVE  Inv'
  BY <1>4, OtherStep
<1>5. CASE UNCHANGED vars
  <2>1. UNCHANGED <<mem, lfree, owned, call>>
    BY <1>5 DEF vars
  <2>2. Sound' /\ Owned'
    BY <2>1, SameList DEF Inv
  <2>3. Called'
    BY <2>1 DEF Inv, Called
  <2> QED
    BY <2>2, <2>3 DEF Inv
<1> QED
  BY <1>1, <1>2, <1>3, <1>4, <1>5 DEF Next, Work

-----------------------------------------------------------------------------
(* Theorems *)

LEMMA SoundIsHeapSound == Sound => HeapSound
<1> SUFFICES ASSUME Sound PROVE HeapSound
  OBVIOUS
<1>0. Linked(mem) /\ Joined(mem, {}) /\ LowestFree(mem, lfree) /\ DOMAIN mem \subseteq Nat
  BY Sizes DEF Sound, Linked
<1>1. 0 \in Inner /\ mem[0].prev = 0 /\ End \in DOMAIN mem /\ mem[End].used
  BY <1>0, Sizes DEF Linked, Inner
<1>2. \A a \in Inner :
        LET n == mem[a].next
        IN  /\ n \in DOMAIN mem /\ a + Header < n
            /\ \A b \in DOMAIN mem : b <= a \/ b >= n
            /\ n # End => mem[n].prev = a
            /\ ~mem[a].used /\ n # End => mem[n].used
  BY <1>0 DEF Linked, Joined, Inner
<1>3. lfree = Min({a \in Inner : ~mem[a].used} \cup {End})
  <2> DEFINE S == {a \in Inner : ~mem[a].used} \cup {End}
  <2>1. S \in SUBSET Nat /\ S # {}
    BY <1>0, Sizes DEF Inner
  <2>2. Min(S) \in S /\ \A x \in S : Min(S) <= x
    BY <2>1, Least
  <2>3. lfree \in S /\ lfree \in Nat
    BY <1>0 DEF LowestFree, Inner
  <2>4. \A x \in S : lfree <= x
    BY <1>0, Sizes DEF LowestFree, Linked, Inner
  <2>5. Min(S) \in Nat
    BY <2>1, <2>2
  <2> HIDE DEF S
  <2>6. lfree = Min(S)
    BY <2>2, <2>3, <2>4, <2>5
  <2> QED
    BY <2>6 DEF S
<1> QED
  BY <1>1, <1>2, <1>3 DEF HeapSound

\* After any history of splits and joins the headers tile the heap, no two free blocks are
\* neighbours and lfree is the lowest of them (mem.c:156).
THEOREM HeapKept == Spec => []HeapSound
<1>1. Init => Inv
  BY InvStart
<1>2. Inv /\ [Next]_vars => Inv'
  BY InvStep
<1>3. Inv => HeapSound
  BY SoundIsHeapSound DEF Inv
<1> QED
  BY <1>1, <1>2, <1>3, PTL DEF Spec

LEMMA NullStep ==
    ASSUME Inv, NEW t \in Caller, NotFound(t)
    PROVE  LET n == Aligned(call[t].size)
           IN  \A a \in Inner : mem[a].used \/ Room(mem, a) < n \/ (mem[a].next = End /\ Room(mem, a) = n)
<1>n. PICK n : n = Aligned(call[t].size)
  OBVIOUS
<1>0. Sound /\ Linked(mem) /\ LowestFree(mem, lfree) /\ DOMAIN mem \subseteq Nat
  BY Sizes DEF Inv, Sound, Linked
<1>1. call[t].size \in 1 .. Size
  BY DEF Inv, Called, NotFound, Works
<1>2. n \in Nat /\ n <= Size /\ Fitting(n) = {}
  BY <1>1, <1>n, Sizes DEF Aligned, NotFound
<1>3. ASSUME NEW a \in Inner, ~mem[a].used, ~(Room(mem, a) < n)
      PROVE  mem[a].next = End /\ Room(mem, a) = n
  <2>1. /\ a \in DOMAIN mem \ {End} /\ a \in Nat
        /\ mem[a].next \in Nat /\ a + Header < mem[a].next /\ mem[a].next <= End
    BY <1>0, Sizes DEF Inner, Linked
  <2>2. lfree \in Nat /\ a >= lfree
    BY <1>0, <1>3, <2>1 DEF LowestFree
  <2>3. Room(mem, a) >= n /\ Room(mem, a) = mem[a].next - (a + Header)
    BY <1>2, <1>3, <2>1, Sizes DEF Room
  <2>4. ~(a < Size - n)
    BY <1>2, <1>3, <2>1, <2>2, <2>3 DEF Fitting
  <2> QED
    BY <1>2, <2>1, <2>3, <2>4, Sizes
<1> QED
  BY <1>3, <1>n

\* rt_malloc returns RT_NULL only if no free block is large enough, except for a block at the
\* end of the heap that fits exactly (mem.c:306).
THEOREM NoNullBefore == Spec => NullOnlyIfFull
<1> DEFINE A == \A t \in Caller : NotFound(t) =>
                   LET n == Aligned(call[t].size)
                   IN  \A a \in Inner : mem[a].used \/ Room(mem, a) < n \/ (mem[a].next = End /\ Room(mem, a) = n)
<1>1. Init => Inv
  BY InvStart
<1>2. Inv /\ [Next]_vars => Inv'
  BY InvStep
<1>3. Inv => A
  BY NullStep
<1>4. Inv /\ [Next]_vars => [A]_vars
  BY <1>3
<1> QED
  BY <1>1, <1>2, <1>4, PTL DEF Spec, NullOnlyIfFull

-----------------------------------------------------------------------------
(* The heap is an allocator *)

\* the memory of the piece x
Place(m, x) == [at |-> x.block + Header, to |-> m[x.block].next - 1, need |-> x.need]

LEMMA PiecesAre == \A q : q \in Pieces <=> \E t \in Caller : \E x \in owned[t] : q = Place(mem, x)
BY DEF Pieces, Place

LEMMA PiecesWillBe == \A q : q \in Pieces' <=> \E t \in Caller : \E x \in owned'[t] : q = Place(mem', x)
BY DEF Pieces, Place

\* what is owned lies inside the heap, is large enough, and is nobody else's
LEMMA Places ==
    ASSUME NEW m, Linked(m), NEW x \in Piece, x.block \in DOMAIN m \ {End}, x.need <= Room(m, x.block)
    PROVE  /\ Memory!Proper(Place(m, x))
           /\ \A y \in Piece : y.block \in DOMAIN m \ {End} /\ y.block # x.block =>
                 Memory!Apart(Place(m, x), Place(m, y)) /\ Place(m, x) # Place(m, y)
<1>0. DOMAIN m \subseteq Nat /\ \A c \in DOMAIN m : c <= End
  BY Sizes DEF Linked
<1>1. \A c \in DOMAIN m \ {End} : /\ m[c].next \in DOMAIN m /\ c + Header < m[c].next
                                  /\ \A b \in DOMAIN m : b <= c \/ b >= m[c].next
  BY DEF Linked
<1>p. PICK a, n : a = x.block /\ n = m[x.block].next
  OBVIOUS
<1>2. a \in Nat /\ n \in Nat /\ a + Header < n /\ n <= End /\ x.need \in Nat /\ x.need <= n - (a + Header)
  BY <1>0, <1>1, <1>p DEF Piece, Room
<1>3. Place(m, x).at = a + Header /\ Place(m, x).to = n - 1 /\ Place(m, x).need = x.need
  BY <1>p DEF Place
<1>4. Memory!Proper(Place(m, x))
  BY <1>2, <1>3, Sizes DEF Memory!Proper
<1>5. ASSUME NEW y \in Piece, y.block \in DOMAIN m \ {End}, y.block # x.block
      PROVE  Memory!Apart(Place(m, x), Place(m, y)) /\ Place(m, x) # Place(m, y)
  <2>p. PICK b, k : b = y.block /\ k = m[y.block].next
    OBVIOUS
  <2>1. b \in Nat /\ k \in Nat /\ b + Header < k /\ b # a /\ (b <= a \/ b >= n) /\ (a <= b \/ a >= k)
    BY <1>0, <1>1, <1>5, <1>p, <2>p
  <2>2. Place(m, y).at = b + Header /\ Place(m, y).to = k - 1
    BY <2>p DEF Place
  <2>3. n - 1 < b + Header \/ k - 1 < a + Header
    BY <1>2, <2>1, Sizes
  <2>4. b + Header # a + Header
    BY <1>2, <2>1, Sizes
  <2> QED
    BY <1>3, <2>2, <2>3, <2>4 DEF Memory!Apart
<1> QED
  BY <1>4, <1>5

\* a found block is a piece of memory that was nobody's
LEMMA GiveStep ==
    ASSUME Inv, NEW t \in Caller, Found(t)
    PROVE  Memory!Give
<1>0. Sound /\ Owned /\ Inv' /\ Linked(mem') /\ Owned'
  BY FoundStep DEF Inv, Sound
<1>1. PICK x \in Piece : /\ owned' = [owned EXCEPT ![t] = @ \cup {x}]
                         /\ x.block \in DOMAIN mem \ {End} /\ ~mem[x.block].used
                         /\ \A c \in DOMAIN mem : mem[c].used => mem'[c].next = mem[c].next
  BY FoundStep
<1>2. \A u \in Caller : \A y \in owned[u] :
         y \in Piece /\ y.block \in DOMAIN mem \ {End} /\ mem[y.block].used /\ y.block # x.block
  BY <1>0, <1>1 DEF Owned
<1>3. \A u \in Caller : \A y \in owned[u] : Place(mem', y) = Place(mem, y) /\ y \in owned'[u]
  BY <1>0, <1>1, <1>2 DEF Place, Owned
<1>4. x \in owned'[t] /\ \A u \in Caller : \A y \in owned'[u] : y \in owned[u] \/ y = x
  BY <1>0, <1>1 DEF Owned
<1>5. x.block \in DOMAIN mem' \ {End} /\ x.need <= Room(mem', x.block)
  BY <1>0, <1>4 DEF Owned
<1>6. \A u \in Caller : \A y \in owned[u] : y.block \in DOMAIN mem' \ {End}
  BY <1>0, <1>3 DEF Owned
<1>q. PICK q : q = Place(mem', x)
  OBVIOUS
<1>7. Pieces' = Pieces \cup {q}
  <2>1. ASSUME NEW z \in Pieces' PROVE z \in Pieces \cup {q}
    BY <1>3, <1>4, <1>q, PiecesAre, PiecesWillBe
  <2>2. ASSUME NEW z \in Pieces PROVE z \in Pieces'
    BY <1>3, PiecesAre, PiecesWillBe
  <2>3. q \in Pieces'
    BY <1>4, <1>q, PiecesWillBe
  <2> QED
    BY <2>1, <2>2, <2>3
<1>8. Memory!Proper(q)
  BY <1>0, <1>5, <1>q, Places
<1>9. ASSUME NEW z \in Pieces PROVE Memory!Apart(q, z)
  <2>1. PICK u \in Caller : \E y \in owned[u] : z = Place(mem, y)
    BY <1>9, PiecesAre
  <2>2. PICK y \in owned[u] : z = Place(mem, y)
    BY <2>1
  <2>3. z = Place(mem', y) /\ y \in Piece /\ y.block \in DOMAIN mem' \ {End} /\ y.block # x.block
    BY <1>2, <1>3, <1>6, <2>2
  <2> QED
    BY <1>0, <1>5, <1>q, <2>3, Places
<1> QED
  BY <1>7, <1>8, <1>9 DEF Memory!Give

\* rt_free gives back one piece
LEMMA TakeStep ==
    ASSUME Inv, NEW t \in Caller, Freed(t)
    PROVE  Memory!Take
<1>0. Sound /\ Owned /\ Linked(mem)
  BY DEF Inv, Sound
<1>1. PICK x \in owned[t] : /\ owned' = [owned EXCEPT ![t] = @ \ {x}]
                            /\ \A c \in DOMAIN mem \ {x.block} : mem[c].used => mem'[c].next = mem[c].next
  BY FreedStep
<1>2. \A u \in Caller : \A y \in owned[u] : /\ y \in Piece /\ y.block \in DOMAIN mem \ {End} /\ mem[y.block].used
                                            /\ y.need <= Room(mem, y.block)
                                            /\ (y.block = x.block => u = t /\ y = x)
  BY <1>0, <1>1 DEF Owned
<1>3. \A u \in Caller : \A y \in owned[u] : y # x \/ u # t => y \in owned'[u]
  BY <1>0, <1>1 DEF Owned
<1>4. \A u \in Caller : \A y \in owned'[u] : y \in owned[u] /\ y.block # x.block
  BY <1>0, <1>1, <1>2 DEF Owned
<1>5. \A u \in Caller : \A y \in owned[u] : y.block # x.block => Place(mem', y) = Place(mem, y)
  BY <1>1, <1>2 DEF Place
<1>6. \A u \in Caller : \A y \in owned[u] : y.block # x.block => Place(mem, x) # Place(mem, y)
  BY <1>0, <1>1, <1>2, Places
<1>q. PICK q : q = Place(mem, x)
  OBVIOUS
<1>7. q \in Pieces
  BY <1>1, <1>q, PiecesAre
<1>8. Pieces' = Pieces \ {q}
  <2>1. ASSUME NEW z \in Pieces' PROVE z \in Pieces /\ z # q
    <3>1. PICK u \in Caller : \E y \in owned'[u] : z = Place(mem', y)
      BY <2>1, PiecesWillBe
    <3>2. PICK y \in owned'[u] : z = Place(mem', y)
      BY <3>1
    <3>3. y \in owned[u] /\ y.block # x.block
      BY <1>4, <3>2
    <3>4. z = Place(mem, y) /\ z # q
      BY <1>5, <1>6, <1>q, <3>2, <3>3
    <3> QED
      BY <3>3, <3>4, PiecesAre
  <2>2. ASSUME NEW z \in Pieces, z # q PROVE z \in Pieces'
    <3>1. PICK u \in Caller : \E y \in owned[u] : z = Place(mem, y)
      BY <2>2, PiecesAre
    <3>2. PICK y \in owned[u] : z = Place(mem, y)
      BY <3>1
    <3>3. y # x /\ y.block # x.block
      BY <1>2, <1>q, <2>2, <3>2
    <3>4. y \in owned'[u] /\ z = Place(mem', y)
      BY <1>3, <1>5, <3>2, <3>3
    <3> QED
      BY <3>4, PiecesWillBe
  <2> QED
    BY <2>1, <2>2
<1> QED
  BY <1>7, <1>8 DEF Memory!Take

\* the first part of rt_realloc leaves the piece as it is, or gives back its end
LEMMA ShrinkStep ==
    ASSUME Inv, NEW t \in Caller, Resized(t)
    PROVE  [Memory!Next]_Pieces
<1>0. Sound /\ Owned /\ Linked(mem) /\ Linked(mem') /\ Owned'
  BY ResizedStep DEF Inv, Sound
<1>1. CASE UNCHANGED <<mem, owned>>
  BY <1>1 DEF Pieces
<1>2. CASE ~UNCHANGED <<mem, owned>>
  <2>1. PICK x \in owned[t] : \E y \in Piece :
            /\ owned' = [owned EXCEPT ![t] = (@ \ {x}) \cup {y}] /\ y.block = x.block
            /\ mem'[x.block].next <= mem[x.block].next
            /\ \A c \in DOMAIN mem \ {x.block} : mem[c].used => mem'[c].next = mem[c].next
    BY <1>2, ResizedStep
  <2>2. PICK y \in Piece :
            /\ owned' = [owned EXCEPT ![t] = (@ \ {x}) \cup {y}] /\ y.block = x.block
            /\ mem'[x.block].next <= mem[x.block].next
            /\ \A c \in DOMAIN mem \ {x.block} : mem[c].used => mem'[c].next = mem[c].next
    BY <2>1
  <2>3. \A u \in Caller : \A z \in owned[u] : /\ z \in Piece /\ z.block \in DOMAIN mem \ {End} /\ mem[z.block].used
                                              /\ z.need <= Room(mem, z.block)
                                              /\ (z.block = x.block => u = t /\ z = x)
    BY <1>0, <2>1 DEF Owned
  <2>4. \A u \in Caller : \A z \in owned[u] : z # x \/ u # t => z \in owned'[u]
    BY <1>0, <2>2 DEF Owned
  <2>5. y \in owned'[t] /\ \A u \in Caller : \A z \in owned'[u] : (u = t /\ z = y) \/ (z \in owned[u] /\ z.block # x.block)
    <3>1. /\ owned'[t] = (owned[t] \ {x}) \cup {y}
          /\ \A u \in Caller \ {t} : owned'[u] = owned[u]
      BY <1>0, <2>2 DEF Owned
    <3> QED
      BY <2>3, <3>1
  <2>6. \A u \in Caller : \A z \in owned[u] : z.block # x.block => Place(mem', z) = Place(mem, z)
    BY <2>2, <2>3 DEF Place
  <2>7. \A u \in Caller : \A z \in owned[u] : z.block # x.block => Place(mem, x) # Place(mem, z)
    BY <1>0, <2>1, <2>3, Places
  <2>q. PICK q, r : q = Place(mem, x) /\ r = Place(mem', y)
    OBVIOUS
  <2>8. q \in Pieces /\ r \in Pieces'
    BY <2>1, <2>5, <2>q, PiecesAre, PiecesWillBe
  <2>9. Pieces' = (Pieces \ {q}) \cup {r}
    <3>1. ASSUME NEW z \in Pieces' PROVE z \in (Pieces \ {q}) \cup {r}
      <4>1. PICK u \in Caller : \E w \in owned'[u] : z = Place(mem', w)
        BY <3>1, PiecesWillBe
      <4>2. PICK w \in owned'[u] : z = Place(mem', w)
        BY <4>1
      <4>3. CASE w = y
        BY <2>q, <4>2, <4>3
      <4>4. CASE w \in owned[u] /\ w.block # x.block
        <5>1. z = Place(mem, w) /\ z # q
          BY <2>6, <2>7, <2>q, <4>2, <4>4
        <5> QED
          BY <4>4, <5>1, PiecesAre
      <4> QED
        BY <2>5, <4>2, <4>3, <4>4
    <3>2. ASSUME NEW z \in Pieces, z # q PROVE z \in Pieces'
      <4>1. PICK u \in Caller : \E w \in owned[u] : z = Place(mem, w)
        BY <3>2, PiecesAre
      <4>2. PICK w \in owned[u] : z = Place(mem, w)
        BY <4>1
      <4>3. w # x /\ w.block # x.block
        BY <2>3, <2>q, <3>2, <4>2
      <4>4. w \in owned'[u] /\ z = Place(mem', w)
        BY <2>4, <2>6, <4>2, <4>3
      <4> QED
        BY <4>4, PiecesWillBe
    <3> QED
      BY <2>8, <3>1, <3>2
  <2>10. Memory!Proper(r)
    <3>1. y.block \in DOMAIN mem' \ {End} /\ y.need <= Room(mem', y.block)
      BY <1>0, <2>5 DEF Owned
    <3> QED
      BY <1>0, <2>2, <2>q, <3>1, Places
  <2>11. r.at = q.at /\ r.to <= q.to
    <3>1. mem[x.block].next \in Nat /\ mem'[x.block].next \in Nat
      <4>1. x.block \in DOMAIN mem /\ x.block \in DOMAIN mem'
        BY <1>0, <2>1, <2>2, <2>5 DEF Owned
      <4> QED
        BY <1>0, <4>1 DEF Linked, Block
    <3> QED
      BY <2>2, <2>q, <3>1 DEF Place
  <2>12. Memory!Shrink
    BY <2>8, <2>9, <2>10, <2>11 DEF Memory!Shrink
  <2> QED
    BY <2>12 DEF Memory!Next
<1> QED
  BY <1>1, <1>2

\* Every piece of memory that callers have lies inside the heap, is large enough and is theirs
\* alone until they free it, through all splits, joins and moves, and whichever threads are
\* deleted (mem.c:272, mem.c:420).
THEOREM Implements == Spec => Allocates
<1>1. Init => Inv /\ Memory!Init
  <2>1. Init => Inv
    BY InvStart
  <2>2. Init => Memory!Init
    BY DEF Init, Memory!Init, Pieces
  <2> QED
    BY <2>1, <2>2
<1>2. Inv /\ [Next]_vars => Inv'
  BY InvStep
<1>3. Inv /\ [Next]_vars => [Memory!Next]_Pieces
  <2> SUFFICES ASSUME Inv, [Next]_vars PROVE [Memory!Next]_Pieces
    OBVIOUS
  <2>1. ASSUME NEW t \in Caller, Found(t) PROVE [Memory!Next]_Pieces
    BY <2>1, GiveStep DEF Memory!Next
  <2>2. ASSUME NEW t \in Caller, Freed(t) PROVE [Memory!Next]_Pieces
    BY <2>2, TakeStep DEF Memory!Next
  <2>3. ASSUME NEW t \in Caller, Resized(t) PROVE [Memory!Next]_Pieces
    BY <2>3, ShrinkStep
  <2>4. ASSUME NEW t \in Caller,
               \/ \E n \in Asked : Malloc(t, n) \/ Realloc(t, n)
               \/ Free(t) \/ AsksAgain(t) \/ NotFound(t) \/ Deleted(t)
        PROVE  [Memory!Next]_Pieces
    <3>1. UNCHANGED <<mem, owned>>
      BY <2>4, OtherStep
    <3> QED
      BY <3>1 DEF Pieces
  <2>5. CASE UNCHANGED vars
    BY <2>5 DEF vars, Pieces
  <2> QED
    BY <2>1, <2>2, <2>3, <2>4, <2>5 DEF Next, Work
<1> QED
  BY <1>1, <1>2, <1>3, PTL DEF Spec, Allocates, Memory!Spec
=============================================================================
