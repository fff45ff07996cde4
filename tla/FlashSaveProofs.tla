-------------------------- MODULE FlashSaveProofs --------------------------
(***************************************************************************)
(* Proofs about FlashSave, for the whole page or any part of it, any       *)
(* number of stages, any of the threads and any number of changes: the     *)
(* lock of the HAL is given back, a setting is loaded with the value that  *)
(* was saved, and never with that of another setting.                      *)
(*                                                                         *)
(* First the layout of the page and the order of the calls of save(), both *)
(* facts about constants; then the inductive invariant FlashInv: while     *)
(* saves do not overlap, what the one that is under way has programmed is  *)
(* in the page and the rest is erased or as good.                          *)
(***************************************************************************)
EXTENDS FlashSave, TLAPS

-----------------------------------------------------------------------------
(* The layout of the page *)

\* A setting that is no array lies outside of the arrays, and is loaded from where it is
\* saved.
LEMMA Scalars ==
    ASSUME NEW n \in DOMAIN LoadAt \ Arrays
    PROVE  /\ SaveAt[n] \in 0 .. 136
           /\ SaveAt[n] \notin 54 .. 133
           /\ n # "control" => SaveAt[n] # 0
           /\ LoadAt[n] = SaveAt[n]
  BY DEF SaveAt, LoadAt, Arrays

\* The arrays follow each other at a distance of ten half-words.
LEMMA ArrayPlaces ==
    ASSUME NEW n \in Arrays
    PROVE  /\ SaveAt[n] \in {54, 74, 94, 114}
           /\ LoadAt[n] = SaveAt[n]
           /\ \A m \in Arrays : n # m => SaveAt[n] # SaveAt[m]
  BY DEF SaveAt, LoadAt, Arrays

\* No two settings that are no arrays share a place.
LEMMA ScalarPlaces ==
    ASSUME NEW n \in DOMAIN LoadAt \ Arrays, NEW m \in DOMAIN LoadAt \ Arrays, n # m
    PROVE  SaveAt[n] # SaveAt[m]
  BY DEF SaveAt, LoadAt, Arrays

\* Every setting has a half-word of its own, in which it is both saved and loaded.
LEMMA Layout ==
    ASSUME NEW f \in Settings
    PROVE  /\ f = <<f[1], f[2]>> /\ f[1] \in Names
           /\ Place(SaveAt, f) \in Cells /\ Place(SaveAt, f) \in 0 .. 136
           /\ Place(LoadAt, f) = Place(SaveAt, f)
           /\ f # <<"control", 0>> => Place(SaveAt, f) # 0
           /\ \A g \in Settings : f # g => Place(SaveAt, f) # Place(SaveAt, g)
<1> USE SizesAssumption
<1>1. DOMAIN SaveAt = DOMAIN LoadAt \cup {"one"} /\ Arrays \subseteq DOMAIN LoadAt
  BY DEF SaveAt, LoadAt, Arrays
<1>2. ASSUME NEW g \in Settings
      PROVE  /\ g = <<g[1], g[2]>> /\ g[1] \in Names /\ g[1] \in DOMAIN LoadAt
             /\ g[2] \in 0 .. 9 /\ (g[1] \notin Arrays => g[2] = 0)
  BY <1>1, NamesAssumption DEF Settings, Elements
<1>3. ASSUME NEW g \in Settings
      PROVE  /\ Place(SaveAt, g) \in 0 .. 136
             /\ Place(LoadAt, g) = Place(SaveAt, g)
             /\ g # <<"control", 0>> => Place(SaveAt, g) # 0
  <2>1. CASE g[1] \in Arrays
    BY <2>1, <1>2, ArrayPlaces DEF Place
  <2>2. CASE g[1] \notin Arrays
    BY <2>2, <1>2, Scalars DEF Place
  <2>3. QED
    BY <2>1, <2>2
<1>4. ASSUME NEW g \in Settings, f # g
      PROVE  Place(SaveAt, f) # Place(SaveAt, g)
  <2>1. CASE f[1] \in Arrays /\ g[1] \in Arrays
    <3>1. f[1] = g[1] => f[2] # g[2]
      BY <1>2, <1>4
    <3>2. QED
      BY <2>1, <3>1, <1>2, ArrayPlaces DEF Place
  <2>2. CASE f[1] \notin Arrays /\ g[1] \notin Arrays
    <3>1. f[1] # g[1] /\ f[2] = 0 /\ g[2] = 0
      BY <2>2, <1>2, <1>4
    <3>2. QED
      BY <2>2, <3>1, <1>2, ScalarPlaces, Scalars DEF Place
  <2>3. CASE f[1] \in Arrays /\ g[1] \notin Arrays
    BY <2>3, <1>2, ArrayPlaces, Scalars DEF Place
  <2>4. CASE f[1] \notin Arrays /\ g[1] \in Arrays
    BY <2>4, <1>2, ArrayPlaces, Scalars DEF Place
  <2>5. QED
    BY <2>1, <2>2, <2>3, <2>4
<1>5. Place(SaveAt, f) \in Cells
  BY DEF Cells
<1>6. QED
  BY <1>2, <1>3, <1>4, <1>5

-----------------------------------------------------------------------------
(* The calls of save() *)

Body == Settings \cup {<<name, 0>> : name \in Names \cap {"one"}}

\* s programs all elements of the settings ns
Covers(s, ns) ==
    \A f \in Settings : f[1] \in ns => \E k \in 2 .. Len(s) : s[k] = f

\* s programs control_mode before the constant that is programmed to the same place
ControlFirst(s) ==
    \A k \in 1 .. Len(s), f \in Settings :
        s[k] = <<"one", 0>> /\ f[1] = "control" => \E j \in 2 .. k - 1 : s[j] = f

Saves(s, ns) ==
    /\ s \in Seq({<<"erase", 0>>} \cup Body) /\ Len(s) > 0
    /\ s[1] = <<"erase", 0>>
    /\ \A k \in 2 .. Len(s) : s[k] \in Body
    /\ Covers(s, ns)
    /\ ControlFirst(s)

\* Calls that save the settings ns, followed by the calls for n, save n too.
LEMMA Extend ==
    ASSUME NEW s, NEW ns, NEW n \in DOMAIN SaveAt, n = "one" => "control" \in ns,
           Saves(s, ns)
    PROVE  Saves(s \o CallsOf(n), ns \cup {n})
<1> DEFINE t == CallsOf(n)
           T == {<<"erase", 0>>} \cup Body
           r == s \o t
<1> USE SizesAssumption
<1>1. n = "one" \/ \A i \in 1 .. Elements(n) : n \in Names => <<n, i - 1>> \in Settings
  BY DEF Settings, Elements, Arrays
<1>2. n = "one" => Elements(n) = 1
  BY DEF Elements, Arrays
<1>3. Elements(n) \in Nat
  BY DEF Elements
<1>4. t \in Seq(Body)
  BY <1>1, <1>2, <1>3 DEF CallsOf, Body
<1>5. t \in Seq(T) /\ s \in Seq(T)
  BY <1>4 DEF Saves
<1>6. /\ r \in Seq(T) /\ Len(r) = Len(s) + Len(t)
      /\ \A k \in 1 .. Len(s) : r[k] = s[k]
      /\ \A k \in 1 .. Len(t) : r[Len(s) + k] = t[k]
  BY <1>5
<1>7. \A f \in Settings : f[1] = n => \E k \in 1 .. Len(t) : t[k] = f
  <2> SUFFICES ASSUME NEW f \in Settings, f[1] = n PROVE \E k \in 1 .. Len(t) : t[k] = f
    OBVIOUS
  <2>1. n \in Names /\ f = <<n, f[2]>> /\ f[2] + 1 \in 1 .. Elements(n) /\ f[2] \in Nat
    <3>1. f[2] \in 0 .. Stages - 1 /\ f[2] < Elements(f[1])
      BY DEF Settings
    <3>2. QED
      BY <3>1, <1>3, Layout
  <2>2. t = [i \in 1 .. Elements(n) |-> <<n, i - 1>>]
    BY <2>1 DEF CallsOf
  <2>3. Len(t) = Elements(n) /\ t[f[2] + 1] = f
    BY <2>1, <2>2, <1>3
  <2>4. QED
    BY <2>1, <2>3
<1>8. \A k \in 1 .. Len(t) : t[k] \in Body /\ (t[k] = <<"one", 0>> => n = "one")
  <2> SUFFICES ASSUME NEW k \in 1 .. Len(t)
               PROVE  t[k] \in Body /\ (t[k] = <<"one", 0>> => n = "one")
    OBVIOUS
  <2>1. t[k] \in Body
    BY <1>4
  <2>2. t # << >>
    BY <1>4
  <2>3. t = [i \in 1 .. Elements(n) |-> <<n, i - 1>>]
    BY <2>2 DEF CallsOf
  <2>4. t[k] = <<n, k - 1>>
    BY <2>3, <1>3
  <2>5. QED
    BY <2>1, <2>4
<1> HIDE DEF r, t
<1>9. Len(s) \in Nat /\ Len(t) \in Nat
  BY <1>5
<1>10. ASSUME NEW k \in 1 .. Len(r), k \notin 1 .. Len(s)
       PROVE  k - Len(s) \in 1 .. Len(t) /\ r[k] = t[k - Len(s)]
  <2>1. k - Len(s) \in 1 .. Len(t) /\ k = Len(s) + (k - Len(s))
    BY <1>10, <1>6, <1>9
  <2>2. QED
    BY <2>1, <1>6
<1>11. \A k \in 2 .. Len(r) : r[k] \in Body
  <2> SUFFICES ASSUME NEW k \in 2 .. Len(r) PROVE r[k] \in Body
    OBVIOUS
  <2>1. CASE k \in 1 .. Len(s)
    BY <2>1, <1>6, <1>9 DEF Saves
  <2>2. CASE k \notin 1 .. Len(s)
    BY <2>2, <1>8, <1>10, <1>9
  <2>3. QED
    BY <2>1, <2>2
<1>12. Covers(r, ns \cup {n})
  <2> SUFFICES ASSUME NEW f \in Settings, f[1] \in ns \cup {n}
               PROVE  \E k \in 2 .. Len(r) : r[k] = f
    BY DEF Covers
  <2>1. CASE f[1] \in ns
    <3>1. PICK k \in 2 .. Len(s) : s[k] = f
      BY <2>1 DEF Saves, Covers
    <3>2. k \in 2 .. Len(r) /\ r[k] = f
      BY <3>1, <1>6, <1>9
    <3>3. QED
      BY <3>2
  <2>2. CASE f[1] = n
    <3>1. PICK k \in 1 .. Len(t) : t[k] = f
      BY <2>2, <1>7
    <3>2. Len(s) + k \in 2 .. Len(r) /\ r[Len(s) + k] = f
      BY <3>1, <1>6, <1>9 DEF Saves
    <3>3. QED
      BY <3>2
  <2>3. QED
    BY <2>1, <2>2
<1>13. ControlFirst(r)
  <2> SUFFICES ASSUME NEW k \in 1 .. Len(r), NEW f \in Settings,
                      r[k] = <<"one", 0>>, f[1] = "control"
               PROVE  \E j \in 2 .. k - 1 : r[j] = f
    BY DEF ControlFirst
  <2>1. CASE k \in 1 .. Len(s)
    <3>1. PICK j \in 2 .. k - 1 : s[j] = f
      BY <2>1, <1>6 DEF Saves, ControlFirst
    <3>2. r[j] = f
      BY <2>1, <3>1, <1>6, <1>9
    <3>3. QED
      BY <3>2
  <2>2. CASE k \notin 1 .. Len(s)
    <3>1. n = "one"
      BY <2>2, <1>8, <1>10
    <3>2. PICK j \in 2 .. Len(s) : s[j] = f
      BY <3>1 DEF Saves, Covers
    <3>3. r[j] = f /\ j \in 2 .. k - 1
      BY <2>2, <3>2, <1>6, <1>9
    <3>4. QED
      BY <3>3
  <2>3. QED
    BY <2>1, <2>2
<1>14. Len(r) > 0 /\ r[1] = <<"erase", 0>>
  BY <1>6, <1>9 DEF Saves
<1>15. QED
  BY <1>6, <1>11, <1>12, <1>13, <1>14 DEF Saves, r, t

\* the same for four names
LEMMA ExtendFour ==
    ASSUME NEW s, NEW ns, NEW a \in DOMAIN SaveAt, NEW b \in DOMAIN SaveAt,
           NEW c \in DOMAIN SaveAt, NEW d \in DOMAIN SaveAt, "control" \in ns, Saves(s, ns)
    PROVE  Saves(s \o CallsOf(a) \o CallsOf(b) \o CallsOf(c) \o CallsOf(d), ns \cup {a, b, c, d})
<1> DEFINE n1 == ns \cup {a}
           n2 == n1 \cup {b}
           n3 == n2 \cup {c}
<1>1. "control" \in n1 /\ "control" \in n2 /\ "control" \in n3
  OBVIOUS
<1>2. n3 \cup {d} = ns \cup {a, b, c, d}
  OBVIOUS
<1> HIDE DEF n1, n2, n3
<1>3. Saves(s \o CallsOf(a), n1)
  BY Extend DEF n1
<1>4. Saves(s \o CallsOf(a) \o CallsOf(b), n2)
  BY <1>1, <1>3, Extend DEF n2
<1>5. Saves(s \o CallsOf(a) \o CallsOf(b) \o CallsOf(c), n3)
  BY <1>1, <1>4, Extend DEF n3
<1>6. Saves(s \o CallsOf(a) \o CallsOf(b) \o CallsOf(c) \o CallsOf(d), n3 \cup {d})
  BY <1>1, <1>5, Extend
<1>7. QED
  BY <1>2, <1>6

\* save() erases the page and then programs every setting, control_mode before the constant.
LEMMA CallsSave == Saves(Calls, DOMAIN SaveAt)
<1> DEFINE s0 == <<<<"erase", 0>>>> \o CallsOf("control") \o CallsOf("one")
           s1 == s0 \o CallsOf("power1") \o CallsOf("power2")
                     \o CallsOf("time1") \o CallsOf("time2")
           s2 == s1 \o CallsOf("delay1") \o CallsOf("delay2")
                     \o CallsOf("alarm1") \o CallsOf("alarm2")
           s3 == s2 \o CallsOf("hour1") \o CallsOf("hour2")
                     \o CallsOf("minutes1") \o CallsOf("minutes2")
           s4 == s3 \o CallsOf("light") \o CallsOf("cycle")
                     \o CallsOf("seconds1") \o CallsOf("seconds2")
           s5 == s4 \o CallsOf("mtime1") \o CallsOf("mtime2")
                     \o CallsOf("mpower1") \o CallsOf("mpower2")
           n0 == {"control", "one"}
           n1 == n0 \cup {"power1", "power2", "time1", "time2"}
           n2 == n1 \cup {"delay1", "delay2", "alarm1", "alarm2"}
           n3 == n2 \cup {"hour1", "hour2", "minutes1", "minutes2"}
           n4 == n3 \cup {"light", "cycle", "seconds1", "seconds2"}
           n5 == n4 \cup {"mtime1", "mtime2", "mpower1", "mpower2"}
<1>1. DOMAIN SaveAt = n5
  BY DEF SaveAt
<1>2. s5 = Calls
  BY DEF Calls
<1>3. "control" \in n0 /\ "control" \in n1 /\ "control" \in n2 /\ "control" \in n3 /\ "control" \in n4
  OBVIOUS
<1>4. n0 = {} \cup {"control"} \cup {"one"}
  OBVIOUS
<1>5. "control" \in n5 /\ "one" \in n5
  OBVIOUS
<1>6. "power1" \in n5 /\ "power2" \in n5 /\ "time1" \in n5 /\ "time2" \in n5
  OBVIOUS
<1>7. "delay1" \in n5 /\ "delay2" \in n5 /\ "alarm1" \in n5 /\ "alarm2" \in n5
  OBVIOUS
<1>8. "hour1" \in n5 /\ "hour2" \in n5 /\ "minutes1" \in n5 /\ "minutes2" \in n5
  OBVIOUS
<1>9. "light" \in n5 /\ "cycle" \in n5 /\ "seconds1" \in n5 /\ "seconds2" \in n5
  OBVIOUS
<1>10. "mtime1" \in n5 /\ "mtime2" \in n5 /\ "mpower1" \in n5 /\ "mpower2" \in n5
  OBVIOUS
<1> HIDE DEF s0, s1, s2, s3, s4, s5, n0, n1, n2, n3, n4, n5
<1>20. Saves(<<<<"erase", 0>>>>, {})
  BY DEF Saves, Covers, ControlFirst
<1>21. Saves(<<<<"erase", 0>>>> \o CallsOf("control"), {} \cup {"control"})
  BY <1>1, <1>5, <1>20, Extend
<1>22. Saves(s0, n0)
  BY <1>1, <1>4, <1>5, <1>21, Extend DEF s0
<1>23. Saves(s1, n1)
  BY <1>1, <1>3, <1>6, <1>22, ExtendFour DEF s1, n1
<1>24. Saves(s2, n2)
  BY <1>1, <1>3, <1>7, <1>23, ExtendFour DEF s2, n2
<1>25. Saves(s3, n3)
  BY <1>1, <1>3, <1>8, <1>24, ExtendFour DEF s3, n3
<1>26. Saves(s4, n4)
  BY <1>1, <1>3, <1>9, <1>25, ExtendFour DEF s4, n4
<1>27. Saves(s5, n5)
  BY <1>1, <1>3, <1>10, <1>26, ExtendFour DEF s5, n5
<1>28. QED
  BY <1>1, <1>2, <1>27

-----------------------------------------------------------------------------
(* The inductive invariant *)

\* a value the setting can have
Fits(f, v) == v \in Value /\ (f[1] \notin Wide => v \in 0 .. Ones)

Word(f) == flash[Place(SaveAt, f)]

TypeInv ==
    /\ TypeOK
    /\ \A f \in Settings :
          /\ ram[f] \in ever[f] /\ stored[f] \subseteq ever[f]
          /\ \A v \in ever[f] : Fits(f, v)
    /\ \A t \in Savers : step[t] \in {"idle", "unlock", "lock"} => call[t] = 1

\* t has the flash for its own, and what it has called so far was done
Working(t) == step[t] \in {"take", "operate"} \/ (step[t] = "test" /\ ~busy)

\* While saves do not overlap: one thread saves, with the flash unlocked and the lock of
\* the HAL taken when it is about to operate, with a value of the setting it programs.
AloneInv ==
    /\ \A t, u \in Saving : t = u
    /\ \A t \in Savers :
          /\ step[t] \in {"test", "take", "operate", "lock"} => ~locked
          /\ step[t] = "take" => ~busy
          /\ step[t] \in {"take", "operate"} => 
                /\ Calls[call[t]] = <<"one", 0>> => arg[t] = 1
                /\ \A f \in Settings : Calls[call[t]] = f => arg[t] \in stored[f]
    /\ Saving # {} => \A f \in Settings : ram[f] \in stored[f]

\* The page of a thread that saves: what it has programmed is there, the rest is erased or
\* is as good.
PageInv ==
    \A f \in Settings :
        /\ Word(f) \in ever[f] \cup {Erased}
        /\ \A t \in Savers :
              /\ Working(t) /\ call[t] > 1 => Word(f) \in stored[f] \cup {Erased}
              /\ Working(t) => \A k \in 2 .. call[t] - 1 : Calls[k] = f => Word(f) \in stored[f]
              /\ step[t] = "lock" /\ ~busy => Word(f) \in stored[f]
        /\ Saving = {} /\ ~killed => Loaded(f) \in stored[f]

FlashInv == TypeInv /\ LockHeld /\ (~mixed => AloneInv /\ PageInv)

-----------------------------------------------------------------------------
(* Lemmas about the calls and the values *)

\* What the other proofs use of the calls of save().
LEMMA CallsFacts ==
    /\ Len(Calls) \in Nat \ {0} /\ Calls[1] = <<"erase", 0>>
    /\ \A k \in 2 .. Len(Calls) :
          /\ Calls[k] \in Settings \/ Calls[k] = <<"one", 0>>
          /\ Calls[k][1] # "erase"
    /\ \A f \in Settings : \E k \in 2 .. Len(Calls) : Calls[k] = f
    /\ \A k \in 2 .. Len(Calls), f \in Settings :
          Calls[k] = <<"one", 0>> /\ f = <<"control", 0>> => \E j \in 2 .. k - 1 : Calls[j] = f
    /\ <<"one", 0>> \notin Settings
<1>1. "erase" \notin DOMAIN SaveAt
  BY DEF SaveAt
<1>2. \A f \in Settings : f[1] \in DOMAIN SaveAt /\ f[1] # "one"
  BY NamesAssumption DEF Settings
<1>3. Len(Calls) \in Nat \ {0} /\ Calls[1] = <<"erase", 0>>
  BY CallsSave DEF Saves
<1>4. ASSUME NEW k \in 2 .. Len(Calls)
      PROVE  (Calls[k] \in Settings \/ Calls[k] = <<"one", 0>>) /\ Calls[k][1] # "erase"
  BY <1>1, <1>2, CallsSave DEF Saves, Body
<1>5. \A f \in Settings : \E k \in 2 .. Len(Calls) : Calls[k] = f
  BY <1>2, CallsSave DEF Saves, Covers
<1>6. \A k \in 2 .. Len(Calls), f \in Settings :
          Calls[k] = <<"one", 0>> /\ f = <<"control", 0>> => \E j \in 2 .. k - 1 : Calls[j] = f
  <2>1. \A k \in 2 .. Len(Calls) : k \in 1 .. Len(Calls)
    BY <1>3
  <2>2. \A f : f = <<"control", 0>> => f[1] = "control"
    OBVIOUS
  <2>3. QED
    BY <2>1, <2>2, CallsSave DEF Saves, ControlFirst
<1>7. <<"one", 0>> \notin Settings
  BY <1>2
<1>8. QED
  BY <1>3, <1>4, <1>5, <1>6, <1>7

\* A word that a setting can have is loaded as it is; an erased word is loaded with all bits set.
LEMMA LoadedWord ==
    ASSUME NEW f \in Settings, Word(f) \in Value
    PROVE  /\ Fits(f, Loaded(f))
           /\ Fits(f, Word(f)) => Loaded(f) = Word(f)
           /\ Word(f) = Erased => Loaded(f) \in {Ones, Erased}
           /\ Word(f) # Erased => Fits(f, Word(f))
<1>1. Place(LoadAt, f) = Place(SaveAt, f)
  BY Layout
<1>2. \A v \in Value : v % 256 = IF v = 65535 THEN 255 ELSE v
  BY DEF Value, Ones, Erased
<1>3. QED
  BY <1>1, <1>2 DEF Loaded, Word, Fits, Value, Ones, Erased

-----------------------------------------------------------------------------
(* Types *)

\* The first state has its types.
LEMMA TypeInit == Init => TypeInv
<1> SUFFICES ASSUME Init PROVE TypeInv
  OBVIOUS
<1>1. \A f \in Settings : Place(SaveAt, f) \in Cells
  BY Layout
<1>2. \A c \in Cells : c \in 0 .. 136
  BY Layout DEF Cells
<1>3. flash \in [Cells -> Value]
  BY <1>2 DEF Init, Value, Ones, Erased
<1>4. \A f \in Settings : Fits(f, Loaded(f))
  BY <1>1, <1>3, LoadedWord DEF Word
<1>5. TypeOK
  <2>1. 1 \in 1 .. Len(Calls) /\ 0 \in Value /\ 0 \in 0 .. MaxChange
    BY CallsFacts, BoundsAssumption DEF Value, Ones
  <2>2. ram \in [Settings -> Value]
    BY <1>4 DEF Init, Fits
  <2>3. ever \in [Settings -> SUBSET Value] /\ stored \in [Settings -> SUBSET Value]
    BY <2>2 DEF Init
  <2>4. QED
    BY <1>3, <2>1, <2>2, <2>3 DEF Init, TypeOK, Steps
<1>6. QED
  BY <1>4, <1>5 DEF TypeInv, Init

\* The thread and its call stay within their types when a call of the HAL returns.
LEMMA ProceedType ==
    ASSUME TypeInv, NEW t \in Savers, Proceed(t), step[t] \notin {"idle", "unlock", "lock"}
    PROVE  /\ step' \in [Savers -> Steps] /\ call' \in [Savers -> 1 .. Len(Calls)]
           /\ \A u \in Savers : step'[u] \in {"idle", "unlock", "lock"} => call'[u] = 1
<1>1. Len(Calls) \in Nat \ {0} /\ call[t] \in 1 .. Len(Calls)
  BY CallsFacts DEF TypeInv, TypeOK
<1>2. call[t] < Len(Calls) => call[t] + 1 \in 1 .. Len(Calls)
  BY <1>1
<1>3. 1 \in 1 .. Len(Calls)
  BY <1>1
<1>4. step \in [Savers -> Steps] /\ call \in [Savers -> 1 .. Len(Calls)]
  BY DEF TypeInv, TypeOK
<1>5. \A u \in Savers : step[u] \in {"idle", "unlock", "lock"} => call[u] = 1
  BY DEF TypeInv
<1> HIDE DEF TypeInv
<1>6. CASE call[t] < Len(Calls)
  BY <1>2, <1>4, <1>5, <1>6 DEF Proceed, Steps
<1>7. CASE ~(call[t] < Len(Calls))
  BY <1>3, <1>4, <1>5, <1>7 DEF Proceed, Steps
<1>8. QED
  BY <1>6, <1>7

\* What is programmed is a half-word.
LEMMA ArgumentType == ASSUME TypeInv, NEW t \in Savers PROVE Argument(t) \in Value
<1>1. call[t] = 1 \/ call[t] \in 2 .. Len(Calls)
  BY CallsFacts DEF TypeInv, TypeOK
<1>2. \A f \in Settings : ram[f] \in Value
  BY DEF TypeInv, TypeOK
<1>3. CASE call[t] = 1
  BY <1>3, CallsFacts DEF Argument, Erases, Value, Ones
<1>4. CASE call[t] \in 2 .. Len(Calls)
  <2>1. Calls[call[t]] \in Settings \/ Calls[call[t]] = <<"one", 0>>
    BY <1>4, CallsFacts
  <2>2. QED
    BY <1>2, <2>1 DEF Argument, Value, Ones
<1>5. QED
  BY <1>1, <1>3, <1>4

\* Every step keeps the types, and every value a setting has had fits it.
LEMMA TypeStep == TypeInv /\ [Next]_vars => TypeInv'
<1> SUFFICES ASSUME TypeInv, [Next]_vars PROVE TypeInv'
  OBVIOUS
<1> USE DEF hal, callers, history
<1>1. \A f \in Settings : Word(f) \in Value /\ Fits(f, Loaded(f)) /\ Fits(f, ram[f])
  BY Layout, LoadedWord DEF TypeInv, TypeOK, Word
<1>2. ASSUME NEW t \in Savers, CallSave(t) PROVE TypeInv'
  BY <1>1, <1>2 DEF CallSave, TypeInv, TypeOK, Steps, Fits, Saving
<1>3. ASSUME NEW t \in Savers, Unlock(t) PROVE TypeInv'
  BY <1>3 DEF Unlock, TypeInv, TypeOK, Steps
<1>4. ASSUME NEW t \in Savers, TestLock(t) PROVE TypeInv'
  <2>1. CASE busy
    BY <2>1, <1>4, ProceedType DEF TestLock, TypeInv, TypeOK
  <2>2. CASE ~busy
    BY <2>2, <1>4, ArgumentType DEF TestLock, TypeInv, TypeOK, Steps
  <2>3. QED
    BY <2>1, <2>2
<1>5. ASSUME NEW t \in Savers, TakeLock(t) PROVE TypeInv'
  BY <1>5 DEF TakeLock, TypeInv, TypeOK, Steps
<1>6. ASSUME NEW t \in Savers, Operate(t) PROVE TypeInv'
  <2>1. flash' \in [Cells -> Value]
    BY <1>6 DEF Operate, TypeInv, TypeOK, ErasedPage, Programmed, Value
  <2>2. QED
    <3>1. step[t] \notin {"idle", "unlock", "lock"} /\ Proceed(t) /\ 0 \in Value
      BY <1>6 DEF Operate, Value, Ones
    <3>2. step' \in [Savers -> Steps] /\ call' \in [Savers -> 1 .. Len(Calls)]
          /\ \A u \in Savers : step'[u] \in {"idle", "unlock", "lock"} => call'[u] = 1
      BY <3>1, ProceedType
    <3>3. QED
      BY <2>1, <3>1, <3>2, <1>6 DEF Operate, Free, TypeInv, TypeOK
<1>7. ASSUME NEW t \in Savers, Lock(t) PROVE TypeInv'
  BY <1>7 DEF Lock, TypeInv, TypeOK, Steps
<1>8. ASSUME NEW f \in Settings, NEW v \in 0 .. MaxValue, Change(f, v) PROVE TypeInv'
  <2>1. Fits(f, v) /\ v \in Value
    BY SizesAssumption DEF Fits, Value, Ones
  <2>2. TypeOK'
    BY <2>1, <1>8, BoundsAssumption DEF Change, TypeInv, TypeOK
  <2>3. \A g \in Settings : /\ ram'[g] \in ever'[g] /\ stored'[g] \subseteq ever'[g]
                           /\ \A w \in ever'[g] : Fits(g, w)
    BY <2>1, <1>8 DEF Change, TypeInv, TypeOK
  <2>4. QED
    BY <2>2, <2>3, <1>8 DEF Change, TypeInv
<1>9. CASE Kill
  <2>1. 1 \in 1 .. Len(Calls) /\ 0 \in Value
    BY CallsFacts DEF Value, Ones
  <2>2. QED
    BY <2>1, <1>9 DEF Kill, TypeInv, TypeOK, Steps, Saving
<1>10. CASE PowerLoss
  <2>1. 1 \in 1 .. Len(Calls) /\ 0 \in Value
    BY CallsFacts DEF Value, Ones
  <2>2. \A f \in Settings : Loaded(f) \in Value
    BY <1>1 DEF Fits
  <2>3. TypeOK'
    BY <2>1, <2>2, <1>10 DEF PowerLoss, TypeInv, TypeOK, Steps
  <2>4. \A f \in Settings : /\ ram'[f] \in ever'[f] /\ stored'[f] \subseteq ever'[f]
                           /\ \A w \in ever'[f] : Fits(f, w)
    BY <1>1, <1>10 DEF PowerLoss, TypeInv, TypeOK
  <2>5. QED
    BY <2>3, <2>4, <1>10 DEF PowerLoss, TypeInv
<1>11. CASE UNCHANGED vars
  BY <1>11 DEF vars, TypeInv, TypeOK
<1>12. QED
  BY <1>2, <1>3, <1>4, <1>5, <1>6, <1>7, <1>8, <1>9, <1>10, <1>11 DEF Next, Save

-----------------------------------------------------------------------------
(* The lock of the HAL *)

\* Whoever has taken the lock of the HAL gives it back, unless it is killed.
LEMMA LockStep == TypeOK /\ LockHeld /\ [Next]_vars => LockHeld'
<1> SUFFICES ASSUME TypeOK, LockHeld, [Next]_vars PROVE LockHeld'
  OBVIOUS
<1> USE DEF hal, callers, history, LockHeld, TypeOK
<1>1. ASSUME NEW t \in Savers, CallSave(t) PROVE LockHeld'
  BY <1>1 DEF CallSave
<1>2. ASSUME NEW t \in Savers, Unlock(t) PROVE LockHeld'
  BY <1>2 DEF Unlock
<1>3. ASSUME NEW t \in Savers, TestLock(t) PROVE LockHeld'
  BY <1>3 DEF TestLock, Proceed
<1>4. ASSUME NEW t \in Savers, TakeLock(t) PROVE LockHeld'
  BY <1>4 DEF TakeLock
<1>5. ASSUME NEW t \in Savers, Operate(t) PROVE LockHeld'
  BY <1>5 DEF Operate, Free
<1>6. ASSUME NEW t \in Savers, Lock(t) PROVE LockHeld'
  BY <1>6 DEF Lock
<1>7. ASSUME NEW f \in Settings, NEW v \in 0 .. MaxValue, Change(f, v) PROVE LockHeld'
  BY <1>7 DEF Change
<1>8. CASE Kill
  BY <1>8 DEF Kill
<1>9. CASE PowerLoss
  BY <1>9 DEF PowerLoss
<1>10. CASE UNCHANGED vars
  BY <1>10 DEF vars
<1>11. QED
  BY <1>1, <1>2, <1>3, <1>4, <1>5, <1>6, <1>7, <1>8, <1>9, <1>10 DEF Next, Save

-----------------------------------------------------------------------------
(* One save at a time *)

\* That two saves have overlapped is never forgotten.
LEMMA MixedStays == [Next]_vars /\ ~mixed' => ~mixed
<1> SUFFICES ASSUME [Next]_vars PROVE mixed => mixed'
  OBVIOUS
<1> USE DEF hal, callers, history
<1>1. ASSUME NEW t \in Savers, CallSave(t) PROVE mixed => mixed'
  BY <1>1 DEF CallSave
<1>2. ASSUME NEW t \in Savers, Save(t) PROVE mixed' = mixed
  BY <1>2 DEF Save, Unlock, TestLock, TakeLock, Operate, Lock
<1>3. ASSUME NEW f \in Settings, NEW v \in 0 .. MaxValue, Change(f, v) PROVE mixed' = mixed
  BY <1>3 DEF Change
<1>4. CASE Kill
  BY <1>4 DEF Kill
<1>5. CASE PowerLoss
  BY <1>5 DEF PowerLoss
<1>6. CASE UNCHANGED vars
  BY <1>6 DEF vars
<1>7. QED
  BY <1>1, <1>2, <1>3, <1>4, <1>5, <1>6 DEF Next

\* As long as saves do not overlap the thread that saves has the flash for its own.
LEMMA AloneStep ==
    TypeInv /\ (~mixed => AloneInv) /\ [Next]_vars => (~mixed => AloneInv)'
<1> SUFFICES ASSUME TypeInv, ~mixed => AloneInv, [Next]_vars, ~mixed' PROVE AloneInv'
  OBVIOUS
<1> USE DEF hal, callers, history
<1>1. ~mixed /\ AloneInv
  BY MixedStays
<1>2. TypeOK /\ \A f \in Settings : stored[f] \subseteq Value
  BY DEF TypeInv, TypeOK
<1>3. ASSUME NEW t \in Savers, CallSave(t) PROVE AloneInv'
  <2>1. Saving = {}
    BY <1>3 DEF CallSave
  <2>2. \A u \in Savers : step'[u] = IF u = t THEN "unlock" ELSE "idle"
    BY <2>1, <1>2, <1>3 DEF CallSave, TypeOK, Saving
  <2>3. \A f \in Settings : ram'[f] \in stored'[f]
    BY <1>3 DEF CallSave
  <2>4. QED
    BY <2>2, <2>3 DEF AloneInv, Saving
<1>4. ASSUME NEW t \in Savers, Unlock(t) PROVE AloneInv'
  BY <1>1, <1>2, <1>4 DEF Unlock, AloneInv, TypeOK, Saving
<1>5. ASSUME NEW t \in Savers, TestLock(t) PROVE AloneInv'
  <2>1. CASE busy
    BY <2>1, <1>1, <1>2, <1>5 DEF TestLock, Proceed, AloneInv, TypeOK, Saving
  <2>2. CASE ~busy
    <3>1. arg'[t] = Argument(t) /\ step'[t] = "take" /\ UNCHANGED <<call, stored, ram, locked, busy>>
          /\ \A u \in Savers : u # t => arg'[u] = arg[u] /\ step'[u] = step[u]
      BY <2>2, <1>2, <1>5 DEF TestLock, TypeOK
    <3>2. Calls[call[t]] = <<"one", 0>> => Argument(t) = 1
      BY DEF Argument, Erases
    <3>3. \A f \in Settings : Calls[call[t]] = f => Argument(t) = ram[f]
      <4>1. call[t] = 1 \/ call[t] \in 2 .. Len(Calls)
        BY <1>2, CallsFacts DEF TypeOK
      <4>2. \A f \in Settings : f[1] # "one" /\ f[1] # "erase"
        <5>1. "erase" \notin DOMAIN SaveAt
          BY DEF SaveAt
        <5>2. QED
          BY <5>1, NamesAssumption DEF Settings
      <4>3. QED
        BY <4>1, <4>2, CallsFacts DEF Argument, Erases
    <3>4. \A u \in Saving : u = t
      BY <1>1, <1>5 DEF AloneInv, TestLock, Saving
    <3>5. Saving' = Saving /\ t \in Saving
      BY <3>1, <1>2, <1>5 DEF Saving, TestLock, TypeOK
    <3>6. \A f \in Settings : ram[f] \in stored[f]
      BY <3>5, <1>1 DEF AloneInv
    <3>7. \A u \in Savers : u # t => step'[u] = "idle"
      BY <3>1, <3>4 DEF Saving
    <3>8. ~locked
      BY <1>1, <1>5 DEF AloneInv, TestLock
    <3>9. QED
      BY <2>2, <3>1, <3>2, <3>3, <3>4, <3>5, <3>6, <3>7, <3>8 DEF AloneInv
  <2>3. QED
    BY <2>1, <2>2
<1>6. ASSUME NEW t \in Savers, TakeLock(t) PROVE AloneInv'
  BY <1>1, <1>2, <1>6 DEF TakeLock, AloneInv, TypeOK, Saving
<1>7. ASSUME NEW t \in Savers, Operate(t) PROVE AloneInv'
  BY <1>1, <1>2, <1>7 DEF Operate, Free, Proceed, AloneInv, TypeOK, Saving
<1>8. ASSUME NEW t \in Savers, Lock(t) PROVE AloneInv'
  BY <1>1, <1>2, <1>8 DEF Lock, AloneInv, TypeOK, Saving
<1>9. ASSUME NEW f \in Settings, NEW v \in 0 .. MaxValue, Change(f, v) PROVE AloneInv'
  <2>1. Saving' = Saving /\ UNCHANGED <<step, call, arg, locked, busy>>
    BY <1>9 DEF Change, Saving
  <2>2. Saving # {} => \A g \in Settings : stored[g] \subseteq stored'[g] /\ ram'[g] \in stored'[g]
    BY <1>1, <1>2, <1>9 DEF Change, TypeOK, AloneInv
  <2>3. \A u \in Savers : step[u] \in {"take", "operate"} => u \in Saving
    BY DEF Saving
  <2>4. QED
    BY <1>1, <2>1, <2>2, <2>3 DEF AloneInv
<1>10. CASE Kill
  <2>1. \A u \in Savers : step'[u] = "idle"
    BY <1>2, <1>10 DEF Kill, TypeOK, Saving
  <2>2. QED
    BY <2>1 DEF AloneInv, Saving
<1>11. CASE PowerLoss
  BY <1>11 DEF PowerLoss, AloneInv, Saving
<1>12. CASE UNCHANGED vars
  BY <1>1, <1>12 DEF vars, AloneInv, Saving
<1>13. QED
  BY <1>3, <1>4, <1>5, <1>6, <1>7, <1>8, <1>9, <1>10, <1>11, <1>12 DEF Next, Save

-----------------------------------------------------------------------------
(* The page *)

\* What a thread that works programs is one of the values of the setting, and what it has
\* programmed is there afterwards.
LEMMA OperatePage ==
    ASSUME TypeInv, AloneInv, PageInv, NEW t \in Savers, Operate(t), NEW f \in Settings
    PROVE  /\ Word(f)' \in ever[f] \cup {Erased}
           /\ Word(f)' \in stored[f] \cup {Erased}
           /\ \A k \in 2 .. call[t] : Calls[k] = f => Word(f)' \in stored[f]
<1>1. /\ flash \in [Cells -> Value] /\ Place(SaveAt, f) \in Cells
      /\ call[t] \in 1 .. Len(Calls) /\ Len(Calls) \in Nat /\ stored[f] \subseteq ever[f]
  BY Layout, CallsFacts DEF TypeInv, TypeOK
<1>2. ~locked /\ Working(t)
  BY DEF AloneInv, Operate, Working
<1>3. CASE call[t] = 1
  <2>1. flash' = [c \in Cells |-> Erased]
    BY <1>2, <1>3, CallsFacts DEF Operate, Erases, ErasedPage
  <2>2. Word(f)' = Erased
    BY <2>1, <1>1 DEF Word
  <2>3. QED
    BY <2>2, <1>3
<1>4. CASE call[t] \in 2 .. Len(Calls)
  <2> DEFINE g == Calls[call[t]]
  <2>1. flash' = Programmed(t)
    BY <1>4, CallsFacts DEF Operate, Erases
  <2>2. /\ Word(f) \in stored[f] \cup {Erased}
        /\ \A k \in 2 .. call[t] - 1 : Calls[k] = f => Word(f) \in stored[f]
    BY <1>2, <1>4 DEF PageInv
  <2>3. CASE g = f
    <3>1. arg[t] \in stored[f]
      BY <2>3 DEF AloneInv, Operate
    <3>2. Word(f)' = IF Word(f) = Erased \/ arg[t] = 0 THEN arg[t] ELSE Word(f)
      BY <1>1, <1>2, <2>1, <2>3 DEF Programmed, Word
    <3>3. QED
      BY <1>1, <2>2, <3>1, <3>2
  <2>4. CASE g # f
    <3>1. Word(f)' = Word(f)
      <4>1. CASE g \in Settings
        <5>1. Place(SaveAt, g) # Place(SaveAt, f)
          BY <2>4, <4>1, Layout
        <5>2. QED
          BY <1>1, <2>1, <5>1 DEF Programmed, Word
      <4>2. CASE g = <<"one", 0>> /\ f # <<"control", 0>>
        <5>1. Place(SaveAt, g) = 0 /\ Place(SaveAt, f) # 0
          BY <4>2, Layout DEF Place, SaveAt
        <5>2. QED
          BY <1>1, <2>1, <5>1 DEF Programmed, Word
      <4>3. CASE g = <<"one", 0>> /\ f = <<"control", 0>>
        <5>1. PICK j \in 2 .. call[t] - 1 : Calls[j] = f
          BY <1>4, <4>3, CallsFacts
        <5>2. Word(f) \in stored[f]
          BY <2>2, <5>1
        <5>3. \A v \in stored[f] : v # Erased
          <6>1. f[1] \notin Wide
            BY <4>3 DEF Wide
          <6>2. \A v \in ever[f] : Fits(f, v)
            BY DEF TypeInv
          <6>3. \A v : Fits(f, v) => v # Erased
            BY <6>1 DEF Fits, Erased, Ones
          <6>4. QED
            BY <1>1, <6>2, <6>3
        <5>4. arg[t] = 1
          BY <4>3 DEF AloneInv, Operate
        <5>5. Place(SaveAt, g) = 0 /\ Place(SaveAt, f) = 0
          BY <4>3 DEF Place, SaveAt
        <5>6. flash[0] # Erased /\ flash' = flash
          BY <2>1, <5>2, <5>3, <5>4, <5>5 DEF Programmed, Word
        <5>7. QED
          BY <5>6 DEF Word
      <4>4. QED
        BY <1>4, <4>1, <4>2, <4>3, CallsFacts
    <3>2. \A k \in 2 .. call[t] : k \in 2 .. call[t] - 1 \/ k = call[t]
      BY <1>1
    <3>3. QED
      BY <1>1, <2>2, <2>4, <3>1, <3>2
  <2>5. QED
    BY <2>3, <2>4
<1>5. QED
  BY <1>1, <1>3, <1>4

\* As long as saves do not overlap the page holds what was programmed.
LEMMA PageStep ==
    TypeInv /\ LockHeld /\ (~mixed => AloneInv /\ PageInv) /\ [Next]_vars => (~mixed => PageInv)'
<1> SUFFICES ASSUME TypeInv, LockHeld, ~mixed => AloneInv /\ PageInv, [Next]_vars, ~mixed'
             PROVE  PageInv'
  OBVIOUS
<1> USE DEF hal, callers, history
<1>1. AloneInv /\ PageInv /\ ~mixed
  BY MixedStays
<1>2. TypeOK /\ Len(Calls) \in Nat \ {0} /\ TypeOK'
  BY CallsFacts, TypeStep DEF TypeInv
<1>3. ASSUME NEW f \in Settings
      PROVE  /\ Word(f) \in Value
             /\ Word(f) \in stored[f] => Loaded(f) = Word(f) /\ Loaded(f) \in stored[f]
  BY Layout, LoadedWord DEF TypeInv, TypeOK, Word
<1>4. ASSUME UNCHANGED flash
      PROVE  \A f \in Settings : Word(f)' = Word(f) /\ Loaded(f)' = Loaded(f)
  BY <1>4 DEF Word, Loaded
<1>5. ASSUME NEW t \in Savers, CallSave(t) PROVE PageInv'
  <2>1. Saving = {}
    BY <1>1, <1>5 DEF CallSave
  <2>2. \A u \in Savers : step'[u] = IF u = t THEN "unlock" ELSE "idle"
    BY <2>1, <1>2, <1>5 DEF CallSave, TypeOK, Saving
  <2>3. Saving' # {}
    BY <2>2 DEF Saving
  <2>4. UNCHANGED <<flash, ever>>
    BY <1>5 DEF CallSave
  <2>5. QED
    BY <1>1, <1>4, <2>2, <2>3, <2>4 DEF PageInv, Working
<1>6. ASSUME NEW t \in Savers, Save(t) PROVE PageInv'
  <2>1. \A u \in Savers : u # t => step'[u] = "idle" /\ step[u] = "idle"
    BY <1>1, <1>2, <1>6
       DEF Save, Unlock, TestLock, TakeLock, Operate, Lock, Proceed, AloneInv, Saving, TypeOK
  <2>2. UNCHANGED <<ram, ever, stored, killed, mixed>>
    BY <1>6 DEF Save, Unlock, TestLock, TakeLock, Operate, Lock
  <2>3. t \in Saving /\ call[t] \in 1 .. Len(Calls)
    BY <1>2, <1>6 DEF Save, Unlock, TestLock, TakeLock, Operate, Lock, Saving, TypeOK
  <2>4. CASE Unlock(t)
    <3>1. call'[t] = 1 /\ step'[t] = "test" /\ UNCHANGED <<flash, busy>>
      BY <1>2, <2>4 DEF Unlock, TypeOK, TypeInv
    <3>2. Saving' # {}
      BY <3>1 DEF Saving
    <3>3. QED
      BY <1>1, <1>4, <2>1, <2>2, <3>1, <3>2 DEF PageInv, Working
  <2>5. CASE TestLock(t) /\ busy
    <3>1. busy' /\ step'[t] \in {"test", "lock"} /\ UNCHANGED flash
      BY <1>2, <2>5 DEF TestLock, Proceed, TypeOK
    <3>2. Saving' # {}
      BY <3>1 DEF Saving
    <3>3. QED
      BY <1>1, <1>4, <2>1, <2>2, <3>1, <3>2 DEF PageInv, Working
  <2>6. CASE TestLock(t) /\ ~busy
    <3>1. step'[t] = "take" /\ UNCHANGED <<flash, call>> /\ Working(t)
      BY <1>2, <2>6 DEF TestLock, TypeOK, Working
    <3>2. Saving' # {}
      BY <3>1 DEF Saving
    <3>3. QED
      BY <1>1, <1>4, <2>1, <2>2, <3>1, <3>2 DEF PageInv, Working
  <2>7. CASE TakeLock(t)
    <3>1. step'[t] = "operate" /\ UNCHANGED <<flash, call>> /\ Working(t)
      BY <1>2, <2>7 DEF TakeLock, TypeOK, Working
    <3>2. Saving' # {}
      BY <3>1 DEF Saving
    <3>3. QED
      BY <1>1, <1>4, <2>1, <2>2, <3>1, <3>2 DEF PageInv, Working
  <2>8. CASE Operate(t)
    <3>1. \A f \in Settings :
             /\ Word(f)' \in ever[f] \cup {Erased}
             /\ Word(f)' \in stored[f] \cup {Erased}
             /\ \A k \in 2 .. call[t] : Calls[k] = f => Word(f)' \in stored[f]
      BY <1>1, <2>8, OperatePage
    <3>2. CASE call[t] < Len(Calls)
      <4>1. step'[t] = "test" /\ call'[t] - 1 = call[t]
        BY <1>2, <2>3, <2>8, <3>2 DEF Operate, Proceed, TypeOK
      <4>2. Saving' # {}
        BY <4>1 DEF Saving
      <4>3. QED
        BY <2>1, <2>2, <3>1, <4>1, <4>2 DEF PageInv, Working
    <3>3. CASE ~(call[t] < Len(Calls))
      <4>1. step'[t] = "lock" /\ call[t] = Len(Calls)
        BY <1>2, <2>3, <2>8, <3>3 DEF Operate, Proceed, TypeOK
      <4>2. Saving' # {}
        BY <4>1 DEF Saving
      <4>3. \A f \in Settings : Word(f)' \in stored[f]
        BY <3>1, <4>1, CallsFacts
      <4>4. QED
        BY <2>1, <2>2, <3>1, <4>1, <4>2, <4>3 DEF PageInv, Working
    <3>4. QED
      BY <3>2, <3>3
  <2>9. CASE Lock(t)
    <3>1. step[t] = "lock" /\ step'[t] = "idle" /\ UNCHANGED <<flash, busy>>
      BY <1>2, <2>9 DEF Lock, TypeOK
    <3>2. ~killed => ~busy
      BY <2>1, <3>1 DEF LockHeld
    <3>3. ~killed => \A f \in Settings : Loaded(f) \in stored[f]
      BY <1>1, <1>3, <3>1, <3>2 DEF PageInv
    <3>4. QED
      BY <1>1, <1>4, <2>1, <2>2, <3>1, <3>3 DEF PageInv, Working
  <2>10. QED
    BY <1>6, <2>4, <2>5, <2>6, <2>7, <2>8, <2>9 DEF Save
<1>7. ASSUME NEW f \in Settings, NEW v \in 0 .. MaxValue, Change(f, v) PROVE PageInv'
  <2>1. Saving' = Saving /\ UNCHANGED <<step, call, arg, locked, busy, flash, killed>>
    BY <1>7 DEF Change, Saving
  <2>2. \A g \in Settings : stored[g] \subseteq stored'[g] /\ ever[g] \subseteq ever'[g]
    BY <1>2, <1>7 DEF Change, TypeOK
  <2>3. QED
    BY <1>1, <1>4, <2>1, <2>2 DEF PageInv, Working
<1>8. CASE Kill
  <2>1. \A u \in Savers : step'[u] = "idle"
    BY <1>2, <1>8 DEF Kill, TypeOK, Saving
  <2>2. UNCHANGED <<flash, ever>> /\ killed'
    BY <1>8 DEF Kill
  <2>3. QED
    BY <1>1, <1>4, <2>1, <2>2 DEF PageInv, Working
<1>9. CASE PowerLoss
  <2>1. \A u \in Savers : step'[u] = "idle"
    BY <1>9 DEF PowerLoss
  <2>2. UNCHANGED flash
    BY <1>9 DEF PowerLoss
  <2>3. \A g \in Settings : ever[g] \subseteq ever'[g] /\ Loaded(g) \in stored'[g]
    BY <1>9 DEF PowerLoss
  <2>4. QED
    BY <1>1, <1>4, <2>1, <2>2, <2>3 DEF PageInv, Working
<1>10. CASE UNCHANGED vars
  BY <1>1, <1>4, <1>10 DEF vars, PageInv, Working, Saving
<1>11. QED
  BY <1>5, <1>6, <1>7, <1>8, <1>9, <1>10 DEF Next

-----------------------------------------------------------------------------
(* The theorems *)

\* The invariant holds in the first state ...
LEMMA FlashInit == Init => FlashInv
<1> SUFFICES ASSUME Init PROVE FlashInv
  OBVIOUS
<1>1. TypeInv
  BY TypeInit
<1>2. \A u \in Savers : step[u] = "idle"
  BY DEF Init
<1>3. AloneInv /\ LockHeld
  BY <1>2 DEF Init, AloneInv, LockHeld, Saving
<1>4. ASSUME NEW f \in Settings
      PROVE  Word(f) \in ever[f] \cup {Erased} /\ Loaded(f) \in stored[f]
  <2>1. Word(f) \in Value /\ ever[f] = {Loaded(f)} /\ stored[f] = {Loaded(f)}
    BY <1>1, Layout DEF Init, TypeInv, TypeOK, Word
  <2>2. QED
    BY <2>1, LoadedWord
<1>5. PageInv
  BY <1>2, <1>4 DEF PageInv, Working
<1>6. QED
  BY <1>1, <1>3, <1>5 DEF FlashInv

\* ... every step keeps it ...
LEMMA FlashStep == FlashInv /\ [Next]_vars => FlashInv'
<1> SUFFICES ASSUME FlashInv, [Next]_vars PROVE FlashInv'
  OBVIOUS
<1>1. TypeInv'
  BY TypeStep DEF FlashInv
<1>2. LockHeld'
  BY LockStep DEF FlashInv, TypeInv
<1>3. (~mixed => AloneInv)'
  BY AloneStep DEF FlashInv
<1>4. (~mixed => PageInv)'
  BY PageStep DEF FlashInv
<1>5. QED
  BY <1>1, <1>2, <1>3, <1>4 DEF FlashInv

\* ... so it always holds.
LEMMA FlashInvariant == Spec => []FlashInv
  BY FlashInit, FlashStep, PTL DEF Spec

\* The settings, the page and the steps of the threads stay within their types, whichever
\* settings are looked at and whichever threads save.
THEOREM TypeCorrect == Spec => []TypeOK
<1>1. FlashInv => TypeOK
  BY DEF FlashInv, TypeInv
<1>2. QED
  BY <1>1, FlashInvariant, PTL

\* No save() of flash.c leaves pFlash.Lock behind, even when saves overlap.
THEOREM LockGivenBack == Spec => []LockHeld
<1>1. FlashInv => LockHeld
  BY DEF FlashInv
<1>2. QED
  BY <1>1, FlashInvariant, PTL

\* After saves that did not overlap channel_init() loads what was saved.
THEOREM SettingsStored == Spec => []Stored
<1>1. FlashInv => Stored
  BY DEF FlashInv, Stored, PageInv
<1>2. QED
  BY <1>1, FlashInvariant, PTL

\* Power may fail between any two operations of the flash: no setting is loaded from the
\* place of another one, nor from a half-word that was programmed for something else.
THEOREM NeverGarbage == Spec => []NoGarbage
<1>1. ASSUME FlashInv PROVE NoGarbage
  <2> SUFFICES ASSUME ~mixed, NEW f \in Settings
               PROVE  Loaded(f) \in ever[f] \cup {Ones, Erased}
    BY DEF NoGarbage
  <2>1. Word(f) \in Value /\ Word(f) \in ever[f] \cup {Erased}
    BY <1>1, Layout DEF FlashInv, TypeInv, TypeOK, PageInv, Word
  <2>2. QED
    BY <2>1, LoadedWord
<1>2. QED
  BY <1>1, FlashInvariant, PTL
=============================================================================
