---------------------------- MODULE Front_proofs -----------------------------
(* The compiler for every text: the parser reads the language, and nothing else,  *)
(* says truly where a text leaves it, and the passes behind it keep what they     *)
(* promise of every tree.                                                        *)
EXTENDS Front, Gdlk_proofs, Selection_proofs
-------------------------------------------------------------------------------
(* Items and their places                                                       *)

Kept == Item \ {Space, Comment}

\* m words from item k on, each set apart from the next by a space.
Laid(line, k, m) ==
  /\ \A j \in 1 .. m : IsWord(line, k + 2 * j - 2)
  /\ \A j \in 1 .. m - 1 : line[k + 2 * j - 1] = Space

LEMMA ItemKinds ==
  /\ Space # Colon /\ Space # Comment /\ Colon # Comment
  /\ \A w \in Word : /\ w # Space /\ w # Colon /\ w # Comment
                     /\ w.tag \in Tag /\ w.rest \in Rest /\ w.number \in Nat
                     /\ w.zeros \in BOOLEAN /\ w.spelling \in Label
  /\ Kept = {Colon} \cup Word /\ Space \notin Kept /\ Comment \notin Kept
  /\ Colon \in Kept /\ Word \subseteq Kept /\ Kept \subseteq Item
<1>1. Space # Colon /\ Space # Comment /\ Colon # Comment
  <2>1. Space.kind = "space" /\ Colon.kind = "colon" /\ Comment.kind = "comment"
    BY DEF Space, Colon, Comment
  <2> QED
    BY <2>1
<1>2. ASSUME NEW w \in Word
      PROVE  /\ w # Space /\ w # Colon /\ w # Comment
             /\ w.tag \in Tag /\ w.rest \in Rest /\ w.number \in Nat
             /\ w.zeros \in BOOLEAN /\ w.spelling \in Label
  <2>1. w.kind = "word" /\ Space.kind = "space" /\ Colon.kind = "colon" /\ Comment.kind = "comment"
    BY DEF Word, Space, Colon, Comment
  <2>2. w # Space /\ w # Colon /\ w # Comment
    BY <2>1
  <2>3. /\ w.tag \in Tag /\ w.rest \in Rest /\ w.number \in Nat
        /\ w.zeros \in BOOLEAN /\ w.spelling \in Label
    BY DEF Word
  <2> QED
    BY <2>2, <2>3
<1>3. Kept = {Colon} \cup Word
  BY <1>1, <1>2 DEF Kept, Item
<1> QED
  BY <1>1, <1>2, <1>3 DEF Kept

LEMMA LineItems ==
  ASSUME NEW line, Lexed(line)
  PROVE  /\ line \in Seq(Item) /\ Len(line) \in Nat
         /\ \A k \in 1 .. Len(line) : line[k] \in Item
         /\ \A k \in 1 .. Len(line) - 1 :
              /\ line[k] # Comment
              /\ line[k] \in Word => line[k + 1] \notin Word
              /\ line[k] = Space => line[k + 1] # Space
<1>1. line \in Seq(Item)
  BY DEF Lexed
<1>2. Len(line) \in Nat /\ \A k \in 1 .. Len(line) : line[k] \in Item
  BY <1>1, LenProperties, ElementOfSeq
<1> QED
  BY <1>1, <1>2 DEF Lexed

\* The places behind an end of a statement hold nothing of it.
LEMMA EndsBehind ==
  ASSUME NEW line \in Seq(Item), NEW e \in Nat \ {0}, e <= Len(line) + 1, Ends(line, e)
  PROVE  \A u \in e .. Len(line) : line[u] \in {Space, Comment}
<1>1. Len(line) \in Nat
  BY LenProperties
<1>2. PICK c : c = Skip(line, e)
  OBVIOUS
<1>3. c = Len(line) + 1 \/ (c = Len(line) /\ line[c] = Comment)
  BY <1>2 DEF Ends
<1>4. \/ c = e
      \/ e <= Len(line) /\ line[e] = Space /\ c = e + 1
  BY <1>2 DEF Skip
<1> QED
  BY <1>1, <1>3, <1>4

\* Before the statement there is at most a space.
LEMMA StartOf ==
  ASSUME NEW line \in Seq(Item)
  PROVE  /\ Skip(line, 1) \in {1, 2}
         /\ Skip(line, 1) = 2 <=> (Len(line) >= 1 /\ line[1] = Space)
         /\ Skip(line, 1) <= Len(line) + 1
<1>1. Len(line) \in Nat
  BY LenProperties
<1> QED
  BY <1>1 DEF Skip

\* The words of a laid out statement are the core of its line.
LEMMA CoreLaid ==
  ASSUME NEW line \in Seq(Item), NEW k, k = Skip(line, 1), NEW m \in Nat \ {0},
         Laid(line, k, m), Ends(line, k + 2 * m - 1)
  PROVE  Len(Core(line)) = m /\ \A j \in 1 .. m : Core(line)[j] = line[k + 2 * j - 2]
<1>1. Len(line) \in Nat
  BY LenProperties
<1>2. k \in {1, 2} /\ (k = 2 => line[1] = Space)
  BY StartOf
<1>3. \A j \in 1 .. m : k + 2 * j - 2 \in 1 .. Len(line) /\ line[k + 2 * j - 2] \in Word
  BY <1>2 DEF Laid, IsWord
<1>4. m \in 1 .. m
  OBVIOUS
<1>5. k + 2 * m - 2 \in 1 .. Len(line)
  BY <1>3, <1>4
<1>6. PICK e \in Nat \ {0} : e = k + 2 * m - 1
  BY <1>2
<1>7. \A u \in e .. Len(line) : line[u] \in {Space, Comment}
  <2>1. e <= Len(line) + 1
    BY <1>1, <1>2, <1>5, <1>6
  <2> QED
    BY <2>1, <1>6, EndsBehind
<1>8. PICK f : f = [j \in 1 .. m |-> k + 2 * j - 2]
  OBVIOUS
<1>9. f \in [1 .. m -> 1 .. Len(line)] /\ \A j \in 1 .. m : f[j] = k + 2 * j - 2
  BY <1>3, <1>8
<1>10. Increasing(f, m)
  BY <1>2, <1>9 DEF Increasing
<1>11. ASSUME NEW u \in 1 .. Len(line) PROVE line[u] \in Kept <=> \E j \in 1 .. m : f[j] = u
  <2>1. CASE u < k
    <3>1. line[u] = Space
      BY <2>1, <1>1, <1>2
    <3>2. \A j \in 1 .. m : f[j] > u
      BY <2>1, <1>2, <1>9
    <3> QED
      BY <3>1, <3>2, ItemKinds
  <2>2. CASE u >= e
    <3>1. line[u] \in {Space, Comment}
      BY <2>2, <1>1, <1>7
    <3>2. \A j \in 1 .. m : f[j] < u
      BY <2>2, <1>2, <1>6, <1>9
    <3> QED
      BY <3>1, <3>2, ItemKinds
  <2>3. CASE k <= u /\ u < e
    <3>1. PICK j \in 1 .. m : u = k + 2 * j - 2 \/ (u = k + 2 * j - 1 /\ j < m)
      <4>1. PICK d \in Nat : d = u - k /\ d < 2 * m - 1
        BY <2>3, <1>2, <1>6
      <4>2. PICK h : h = d \div 2
        OBVIOUS
      <4>3. h \in Nat /\ (d = 2 * h \/ d = 2 * h + 1)
        BY <4>2
      <4>4. h + 1 \in 1 .. m
        BY <4>1, <4>3
      <4>5. u = k + 2 * (h + 1) - 2 \/ (u = k + 2 * (h + 1) - 1 /\ h + 1 < m)
        BY <4>1, <4>3, <1>2, SMTT(30)
      <4> QED
        BY <4>4, <4>5
    <3>2. CASE u = k + 2 * j - 2
      BY <3>2, <1>3, <1>9, ItemKinds
    <3>3. CASE u = k + 2 * j - 1 /\ j < m
      <4>1. line[u] = Space
        BY <3>3 DEF Laid
      <4>2. \A n \in 1 .. m : f[n] # u
        BY <3>3, <1>2, <1>9
      <4> QED
        BY <4>1, <4>2, ItemKinds
    <3> QED
      BY <3>1, <3>2, <3>3
  <2> QED
    BY <2>1, <2>2, <2>3, <1>1, <1>2, <1>6
<1>12. Positions(f, m, line, Kept)
  BY <1>9, <1>10, <1>11 DEF Positions
<1>13. Len(Where(line, Kept)) = m /\ \A j \in 1 .. m : Where(line, Kept)[j] = line[f[j]]
  BY <1>12, WhereAt
<1>14. Core(line) = Where(line, Kept)
  BY DEF Core, Kept
<1> QED
  BY <1>9, <1>13, <1>14

\* So are the label and the colon of a declaration.
LEMMA CoreDeclared ==
  ASSUME NEW line \in Seq(Item), NEW k, k = Skip(line, 1), IsWord(line, k),
         k < Len(line), line[k + 1] = Colon, Ends(line, k + 2)
  PROVE  Len(Core(line)) = 2 /\ Core(line)[1] = line[k] /\ Core(line)[2] = Colon
<1>1. Len(line) \in Nat
  BY LenProperties
<1>2. k \in {1, 2} /\ (k = 2 => line[1] = Space)
  BY StartOf
<1>3. \A u \in k + 2 .. Len(line) : line[u] \in {Space, Comment}
  <2>1. k + 2 \in Nat \ {0} /\ k + 2 <= Len(line) + 1
    BY <1>1, <1>2
  <2> QED
    BY <2>1, EndsBehind
<1>4. PICK f : f = [j \in 1 .. 2 |-> k + j - 1]
  OBVIOUS
<1>5. f \in [1 .. 2 -> 1 .. Len(line)] /\ f[1] = k /\ f[2] = k + 1
  BY <1>1, <1>2, <1>4
<1>6. Increasing(f, 2)
  BY <1>2, <1>4 DEF Increasing
<1>7. ASSUME NEW u \in 1 .. Len(line) PROVE line[u] \in Kept <=> \E j \in 1 .. 2 : f[j] = u
  <2>1. CASE u < k
    <3>1. line[u] = Space
      BY <2>1, <1>1, <1>2
    <3> QED
      BY <3>1, <2>1, <1>2, <1>4, ItemKinds
  <2>2. CASE u >= k + 2
    <3>1. line[u] \in {Space, Comment}
      BY <2>2, <1>1, <1>2, <1>3
    <3> QED
      BY <3>1, <2>2, <1>2, <1>4, ItemKinds
  <2>3. CASE u = k
    BY <2>3, <1>5, ItemKinds DEF IsWord
  <2>4. CASE u = k + 1
    BY <2>4, <1>5, ItemKinds
  <2> QED
    BY <2>1, <2>2, <2>3, <2>4, <1>1, <1>2
<1>8. Positions(f, 2, line, Kept)
  BY <1>5, <1>6, <1>7 DEF Positions
<1>9. Len(Where(line, Kept)) = 2 /\ \A j \in 1 .. 2 : Where(line, Kept)[j] = line[f[j]]
  <2>1. PICK n \in Nat : n = 2
    OBVIOUS
  <2>2. Positions(f, n, line, Kept)
    BY <1>8, <2>1
  <2>3. Len(Where(line, Kept)) = n /\ \A j \in 1 .. n : Where(line, Kept)[j] = line[f[j]]
    BY <2>2, WhereAt
  <2> QED
    BY <2>1, <2>3
<1>10. Core(line) = Where(line, Kept)
  BY DEF Core, Kept
<1> QED
  BY <1>5, <1>9, <1>10

-------------------------------------------------------------------------------
(* Where the core of a line is in it                                            *)

\* Behind the last item of the core a statement ends.
LEMMA EndsAfter ==
  ASSUME NEW line, Lexed(line), NEW p \in 0 .. Len(line),
         \A u \in p + 1 .. Len(line) : line[u] \in {Space, Comment}
  PROVE  Ends(line, p + 1)
<1>1. Len(line) \in Nat
  BY LineItems
<1>2. \A u \in 1 .. Len(line) - 1 : line[u] # Comment /\ (line[u] = Space => line[u + 1] # Space)
  BY LineItems
<1>3. PICK e \in Nat \ {0} : e = p + 1 /\ e <= Len(line) + 1
  BY <1>1
<1>4. CASE e = Len(line) + 1
  <2>1. Skip(line, e) = e
    BY <1>1, <1>4 DEF Skip
  <2> QED
    BY <2>1, <1>3, <1>4 DEF Ends
<1>5. CASE e <= Len(line) /\ line[e] = Comment
  <2>1. e = Len(line)
    BY <1>1, <1>2, <1>3, <1>5
  <2>2. Skip(line, e) = e
    BY <1>5, ItemKinds DEF Skip
  <2> QED
    BY <2>1, <2>2, <1>3, <1>5 DEF Ends
<1>6. CASE e <= Len(line) /\ line[e] = Space
  <2>1. Skip(line, e) = e + 1
    BY <1>6 DEF Skip
  <2>2. CASE e = Len(line)
    BY <2>1, <2>2, <1>3 DEF Ends
  <2>3. CASE e < Len(line)
    <3>1. e + 1 \in p + 1 .. Len(line) /\ e \in 1 .. Len(line) - 1
      BY <2>3, <1>1, <1>3
    <3>2. line[e + 1] = Comment
      BY <3>1, <1>2, <1>6
    <3>3. e + 1 = Len(line)
      <4>1. ~ (e + 1 \in 1 .. Len(line) - 1)
        BY <3>2, <1>2
      <4> QED
        BY <4>1, <3>1, <1>1
    <3> QED
      BY <2>1, <3>2, <3>3, <1>3 DEF Ends
  <2> QED
    BY <2>2, <2>3, <1>1, <1>6
<1>7. e <= Len(line) => line[e] \in {Space, Comment}
  BY <1>1, <1>3
<1> QED
  BY <1>1, <1>3, <1>4, <1>5, <1>6, <1>7

LEMMA Places ==
  ASSUME NEW line, Lexed(line)
  PROVE  /\ Core(line) \in Seq(Kept) /\ Len(Core(line)) \in Nat
         /\ \A j \in 1 .. Len(Core(line)) : Core(line)[j] \in Kept
         /\ \A m : m = Len(Core(line)) => \E f :
              /\ f \in [1 .. m -> 1 .. Len(line)] /\ Increasing(f, m)
              /\ \A j \in 1 .. m : Core(line)[j] = line[f[j]]
              /\ \A u \in 1 .. Len(line) :
                   (\A j \in 1 .. m : f[j] # u) =>
                     line[u] \in {Space, Comment} /\ (u < Len(line) => line[u] = Space)
<1>1. line \in Seq(Item) /\ Len(line) \in Nat
  BY LineItems
<1>2. PICK c : c = Core(line)
  OBVIOUS
<1>3. c = Where(line, Kept)
  BY <1>2 DEF Core, Kept
<1>4. c \in Seq(Kept)
  BY <1>1, <1>3, WhereType
<1>5. Len(c) \in Nat /\ \A j \in 1 .. Len(c) : c[j] \in Kept
  BY <1>4, LenProperties, ElementOfSeq
<1>6. PICK f : Positions(f, Len(c), line, Kept)
  BY <1>1, <1>3, WherePositions
<1>7. PICK m \in Nat : m = Len(c)
  BY <1>5
<1>8. \A j \in 1 .. m : c[j] = line[f[j]]
  BY <1>1, <1>3, <1>6, <1>7, WhereAt
<1>9. f \in [1 .. m -> 1 .. Len(line)] /\ Increasing(f, m)
  BY <1>6, <1>7 DEF Positions
<1>10. ASSUME NEW u \in 1 .. Len(line), \A j \in 1 .. m : f[j] # u
       PROVE  line[u] \in {Space, Comment} /\ (u < Len(line) => line[u] = Space)
  <2>1. line[u] \notin Kept
    BY <1>6, <1>7, <1>10 DEF Positions
  <2>2. line[u] \in Item
    BY <1>1, ElementOfSeq
  <2>3. line[u] \in {Space, Comment}
    BY <2>1, <2>2 DEF Kept
  <2>4. u < Len(line) => line[u] # Comment
    BY <1>1, LineItems
  <2> QED
    BY <2>3, <2>4
<1> QED
  BY <1>2, <1>4, <1>5, <1>7, <1>8, <1>9, <1>10

\* The same from the first item on, which is where the parser starts.
LEMMA CoreIsThere ==
  ASSUME NEW line, Lexed(line), NEW m \in Nat \ {0}, m = Len(Core(line))
  PROVE  \E f :
           /\ f \in [1 .. m -> 1 .. Len(line)] /\ Increasing(f, m) /\ f[1] = Skip(line, 1)
           /\ \A j \in 1 .. m : Core(line)[j] = line[f[j]]
           /\ \A j \in 1 .. m - 1 : \A u \in f[j] + 1 .. f[j + 1] - 1 : line[u] = Space
           /\ \A u \in f[m] + 1 .. Len(line) : line[u] \in {Space, Comment}
<1>1. line \in Seq(Item) /\ Len(line) \in Nat
  BY LineItems
<1>2. PICK f :
        /\ f \in [1 .. m -> 1 .. Len(line)] /\ Increasing(f, m)
        /\ \A j \in 1 .. m : Core(line)[j] = line[f[j]]
        /\ \A u \in 1 .. Len(line) :
             (\A j \in 1 .. m : f[j] # u) =>
               line[u] \in {Space, Comment} /\ (u < Len(line) => line[u] = Space)
  BY Places
<1>3. \A j \in 1 .. m : f[j] \in 1 .. Len(line)
  BY <1>2
<1>4. 1 \in 1 .. m /\ m \in 1 .. m
  OBVIOUS
<1>5. ASSUME NEW j \in 1 .. m - 1, NEW u \in f[j] + 1 .. f[j + 1] - 1 PROVE line[u] = Space
  <2>1. j \in 1 .. m /\ j + 1 \in 1 .. m
    OBVIOUS
  <2>2. u \in 1 .. Len(line) /\ u < Len(line)
    BY <2>1, <1>1, <1>3
  <2>3. ASSUME NEW n \in 1 .. m PROVE f[n] # u
    <3>1. n < j => f[n] < f[j]
      BY <2>1, <1>2 DEF Increasing
    <3>2. n > j + 1 => f[n] > f[j + 1]
      BY <2>1, <1>2 DEF Increasing
    <3>3. f[n] \in Int /\ f[j] \in Int /\ f[j + 1] \in Int
      BY <2>1, <1>3
    <3> QED
      BY <3>1, <3>2, <3>3
  <2> QED
    BY <2>2, <2>3, <1>2
<1>6. ASSUME NEW u \in f[m] + 1 .. Len(line) PROVE line[u] \in {Space, Comment}
  <2>1. u \in 1 .. Len(line)
    BY <1>1, <1>3, <1>4
  <2>2. ASSUME NEW n \in 1 .. m PROVE f[n] # u
    <3>1. n < m => f[n] < f[m]
      BY <1>2, <1>4 DEF Increasing
    <3> QED
      BY <3>1, <1>3, <1>4
  <2> QED
    BY <2>1, <2>2, <1>2
<1>7. \A u \in 1 .. f[1] - 1 : line[u] = Space
  <2> SUFFICES ASSUME NEW u \in 1 .. f[1] - 1 PROVE line[u] = Space
    OBVIOUS
  <2>1. u \in 1 .. Len(line) /\ u < Len(line)
    BY <1>1, <1>3, <1>4
  <2>2. ASSUME NEW n \in 1 .. m PROVE f[n] # u
    <3>1. n > 1 => f[n] > f[1]
      BY <1>2, <1>4 DEF Increasing
    <3> QED
      BY <3>1, <1>3, <1>4
  <2> QED
    BY <2>1, <2>2, <1>2
<1>8. f[1] = Skip(line, 1)
  <2>1. line[f[1]] \in Kept
    BY <1>2, <1>4, Places
  <2>2. f[1] \in {1, 2}
    <3> SUFFICES ASSUME f[1] > 2 PROVE FALSE
      BY <1>3, <1>4
    <3>1. line[1] = Space /\ line[2] = Space /\ 1 \in 1 .. Len(line) - 1
      BY <1>1, <1>3, <1>4, <1>7
    <3>2. line[1] = Space => line[1 + 1] # Space
      BY <3>1, LineItems
    <3> QED
      BY <3>1, <3>2
  <2>3. CASE f[1] = 1
    BY <2>1, <2>3, ItemKinds, StartOf, <1>1
  <2>4. CASE f[1] = 2
    BY <2>4, <1>1, <1>3, <1>4, <1>7, StartOf
  <2> QED
    BY <2>2, <2>3, <2>4
<1> QED
  BY <1>2, <1>5, <1>6, <1>8

\* Words without a colon, however they are set apart, are laid out as the parser reads them.
LEMMA WordsAreLaid ==
  ASSUME NEW line, Lexed(line), Spaced(line), NEW k, k = Skip(line, 1),
         NEW m \in Nat \ {0}, m = Len(Core(line)), \A j \in 1 .. m : Core(line)[j] \in Word
  PROVE  /\ Laid(line, k, m) /\ \A j \in 1 .. m : line[k + 2 * j - 2] = Core(line)[j]
         /\ Ends(line, k + 2 * m - 1) /\ StmtTokenTerminator(line, k + 2 * m - 2)
<1>1. line \in Seq(Item) /\ Len(line) \in Nat
  BY LineItems
<1>2. PICK f :
        /\ f \in [1 .. m -> 1 .. Len(line)] /\ Increasing(f, m) /\ f[1] = k
        /\ \A j \in 1 .. m : Core(line)[j] = line[f[j]]
        /\ \A j \in 1 .. m - 1 : \A u \in f[j] + 1 .. f[j + 1] - 1 : line[u] = Space
        /\ \A u \in f[m] + 1 .. Len(line) : line[u] \in {Space, Comment}
  BY CoreIsThere
<1>3. \A j \in 1 .. m : f[j] \in 1 .. Len(line) /\ line[f[j]] \in Word
  BY <1>2
<1>4. ASSUME NEW j \in 1 .. m - 1 PROVE f[j + 1] = f[j] + 2 /\ line[f[j] + 1] = Space
  <2>1. PICK a \in 1 .. Len(line) : a = f[j] /\ line[a] \in Word
    BY <1>3
  <2>2. PICK b \in 1 .. Len(line) : b = f[j + 1] /\ line[b] \in Word
    BY <1>3
  <2>3. a < b
    BY <2>1, <2>2, <1>2 DEF Increasing
  <2>4. \A u \in a + 1 .. b - 1 : line[u] = Space
    BY <2>1, <2>2, <1>2
  <2>5. b # a + 1
    <3>1. a \in 1 .. Len(line) - 1
      BY <2>3, <1>1
    <3> QED
      BY <3>1, <2>1, <2>2, LineItems
  <2>6. line[a + 1] = Space
    BY <2>3, <2>4, <2>5
  <2>7. b = a + 2
    <3> SUFFICES ASSUME b > a + 2 PROVE FALSE
      BY <2>3, <2>5
    <3>1. line[a + 2] = Space
      BY <2>4
    <3>2. a + 1 \in 1 .. Len(line) - 1 /\ (a + 1) + 1 = a + 2
      BY <1>1
    <3> QED
      BY <3>1, <3>2, <2>6, LineItems
  <2> QED
    BY <2>1, <2>2, <2>6, <2>7
<1>5. \A j \in 1 .. m : f[j] = k + 2 * j - 2
  <2> DEFINE N == {n \in Nat : n + 1 <= m => f[n + 1] = k + 2 * n}
  <2>1. k \in Int
    BY <1>1, StartOf
  <2>2. 0 \in N
    BY <2>1, <1>2
  <2>3. ASSUME NEW n \in Nat \cap N PROVE n + 1 \in N
    <3> SUFFICES ASSUME (n + 1) + 1 <= m PROVE f[(n + 1) + 1] = k + 2 * (n + 1)
      OBVIOUS
    <3>1. n + 1 \in 1 .. m - 1 /\ f[n + 1] = k + 2 * n
      BY <2>3
    <3> QED
      BY <3>1, <2>1, <1>4
  <2> HIDE DEF N
  <2>4. Nat \subseteq N
    BY <2>2, <2>3, Induction
  <2> SUFFICES ASSUME NEW j \in 1 .. m PROVE f[j] = k + 2 * j - 2
    OBVIOUS
  <2>5. j - 1 \in N /\ j - 1 \in Nat
    BY <2>4
  <2> QED
    BY <2>1, <2>5 DEF N
<1>6. m \in 1 .. m /\ k \in {1, 2}
  BY <1>1, StartOf
<1>7. Laid(line, k, m)
  <2>1. \A j \in 1 .. m : IsWord(line, k + 2 * j - 2)
    BY <1>3, <1>5 DEF IsWord
  <2>2. ASSUME NEW j \in 1 .. m - 1 PROVE line[k + 2 * j - 1] = Space
    <3>1. f[j] = k + 2 * j - 2
      BY <1>5
    <3>2. f[j] + 1 = k + 2 * j - 1
      BY <3>1, <1>6
    <3> QED
      BY <3>2, <1>4
  <2> QED
    BY <2>1, <2>2 DEF Laid
<1>8. PICK p \in 1 .. Len(line) : p = f[m] /\ line[p] \in Word /\ p = k + 2 * m - 2
  BY <1>3, <1>5, <1>6
<1>9. \A u \in p + 1 .. Len(line) : line[u] \in {Space, Comment}
  BY <1>2, <1>8
<1>10. Ends(line, p + 1)
  BY <1>1, <1>8, <1>9, EndsAfter
<1>11. StmtTokenTerminator(line, p)
  <2> SUFFICES ASSUME p # Len(line) PROVE line[p + 1] = Space
    BY DEF StmtTokenTerminator
  <2>1. p + 1 \in 2 .. Len(line) /\ (p + 1) - 1 = p
    BY <1>1, <1>8
  <2>2. line[p + 1] = Comment => line[p] \in {Space, Colon}
    BY <2>1 DEF Spaced
  <2> QED
    BY <2>1, <2>2, <1>8, <1>9, ItemKinds
<1>12. p + 1 = k + 2 * m - 1
  BY <1>6, <1>8
<1> QED
  BY <1>2, <1>5, <1>7, <1>8, <1>10, <1>11, <1>12

\* A label and a colon that no space sets apart are a declaration.
LEMMA LabelIsDeclared ==
  ASSUME NEW line, Lexed(line), Spaced(line), NEW k, k = Skip(line, 1),
         Len(Core(line)) = 2, Core(line)[1] \in Word, Core(line)[2] = Colon
  PROVE  /\ IsWord(line, k) /\ line[k] = Core(line)[1]
         /\ k < Len(line) /\ line[k + 1] = Colon /\ Ends(line, k + 2)
<1>1. line \in Seq(Item) /\ Len(line) \in Nat
  BY LineItems
<1>2. PICK m \in Nat \ {0} : m = 2
  OBVIOUS
<1>3. PICK f :
        /\ f \in [1 .. m -> 1 .. Len(line)] /\ Increasing(f, m) /\ f[1] = k
        /\ \A j \in 1 .. m : Core(line)[j] = line[f[j]]
        /\ \A j \in 1 .. m - 1 : \A u \in f[j] + 1 .. f[j + 1] - 1 : line[u] = Space
        /\ \A u \in f[m] + 1 .. Len(line) : line[u] \in {Space, Comment}
  BY <1>2, CoreIsThere
<1>4. PICK b \in 1 .. Len(line) : b = f[2]
  BY <1>2, <1>3
<1>5. k \in 1 .. Len(line) /\ k < b /\ line[k] = Core(line)[1] /\ line[b] = Colon
  BY <1>2, <1>3, <1>4 DEF Increasing
<1>6. \A u \in k + 1 .. b - 1 : line[u] = Space
  BY <1>2, <1>3, <1>4
<1>7. b = k + 1
  <2> SUFFICES ASSUME b > k + 1 PROVE FALSE
    BY <1>5
  <2>1. line[b - 1] = Space /\ b \in 2 .. Len(line)
    BY <1>1, <1>5, <1>6
  <2> QED
    BY <2>1, <1>5 DEF Spaced
<1>8. Ends(line, b + 1)
  <2>1. \A u \in b + 1 .. Len(line) : line[u] \in {Space, Comment}
    BY <1>2, <1>3, <1>4
  <2> QED
    BY <2>1, <1>1, EndsAfter
<1>9. b + 1 = k + 2 /\ k < Len(line)
  BY <1>1, <1>5, <1>7
<1> QED
  BY <1>5, <1>7, <1>8, <1>9 DEF IsWord

\* A line is blank exactly if nothing is written on it.
LEMMA BlankLine == ASSUME NEW line, Lexed(line) PROVE Blank(line) <=> Core(line) = <<>>
<1>1. line \in Seq(Item) /\ Len(line) \in Nat
  BY LineItems
<1>2. PICK c \in Seq(Kept) : c = Core(line)
  BY Places
<1>3. c = <<>> <=> Len(c) = 0
  BY EmptySeq
<1>4. ASSUME Blank(line), Len(c) # 0 PROVE FALSE
  <2>1. \A u \in 1 .. Len(line) : line[u] \in {Space, Comment}
    <3>1. 1 \in Nat \ {0} /\ 1 <= Len(line) + 1 /\ Ends(line, 1)
      BY <1>1, <1>4 DEF Blank
    <3> QED
      BY <3>1, <1>1, EndsBehind
  <2>2. PICK m \in Nat \ {0} : m = Len(c)
    BY <1>4, LenProperties
  <2>3. PICK f : /\ f \in [1 .. m -> 1 .. Len(line)]
                 /\ \A j \in 1 .. m : c[j] = line[f[j]]
    BY <2>2, <1>2, CoreIsThere
  <2>4. c[1] \in Kept /\ 1 \in 1 .. m
    BY <2>2, ElementOfSeq
  <2> QED
    BY <2>1, <2>3, <2>4, ItemKinds
<1>5. ASSUME Len(c) = 0 PROVE Blank(line)
  <2>1. PICK m \in Nat : m = Len(c)
    BY <1>5
  <2>2. m = Len(Core(line)) /\ \A j : j \notin 1 .. m
    BY <2>1, <1>2, <1>5
  <2>3. \A u \in 0 + 1 .. Len(line) : line[u] \in {Space, Comment}
    <3>1. PICK f : \A u \in 1 .. Len(line) :
                     (\A j \in 1 .. m : f[j] # u) => line[u] \in {Space, Comment}
      BY <2>2, Places
    <3> QED
      BY <2>2, <3>1
  <2>4. 0 \in 0 .. Len(line)
    BY <1>1
  <2>5. Ends(line, 0 + 1)
    BY <2>3, <2>4, EndsAfter
  <2> QED
    BY <2>5 DEF Blank
<1> QED
  BY <1>2, <1>3, <1>4, <1>5

-------------------------------------------------------------------------------
(* Words and what they stand for                                                *)

\* Names for two literals, which the provers take more easily.
AnyRegister == "register reference"
AnyStack == "stack reference"
Kind == {AnyRegister, "value", AnyStack, "label"}

\* The operands that the numbers and names of the words may make.
Ids(words) == {w.number : w \in words}
Names(words) == {w.spelling : w \in words}
Regs(ids) == [kind : {"Null", "InputLength"}] \cup [kind : {"StackLength", "User"}, id : ids]
Srcs(ids) == [kind : {"Const"}, value : (ids \cup {-n : n \in ids}) \cap LangValue]
             \cup [kind : {"Register"}, reg : Regs(ids)]

LEMMA IndexRead ==
  ASSUME NEW w \in Word, NEW tag
  PROVE  /\ \A n \in Index(tag, w) : SpellsIndex(w, tag, n) /\ n = w.number /\ n \in Nat
         /\ \A n : SpellsIndex(w, tag, n) => Index(tag, w) # {}
<1>1. w.number \in Nat
  BY ItemKinds
<1> QED
  BY <1>1 DEF Index, SpellsIndex

LEMMA RegisterRead ==
  ASSUME NEW w \in Word
  PROVE  /\ \A r \in AsRegister(w) : /\ SpellsRegister(w, r) /\ r \in RegisterRef
                                     /\ \A ids : w.number \in ids => r \in Regs(ids)
         /\ \A r : SpellsRegister(w, r) => AsRegister(w) # {}
<1>1. ASSUME NEW r \in AsRegister(w)
      PROVE  /\ SpellsRegister(w, r) /\ r \in RegisterRef
             /\ \A ids : w.number \in ids => r \in Regs(ids)
  <2>1. CASE r \in {x \in {[kind |-> "Null"]} : w.tag = "RZR" /\ w.rest = "none"}
    BY <2>1 DEF SpellsRegister, RegisterRef, Regs
  <2>2. CASE r \in {x \in {[kind |-> "InputLength"]} : w.tag = "RLI" /\ w.rest = "none"}
    BY <2>2 DEF SpellsRegister, RegisterRef, Regs
  <2>3. CASE r \in {[kind |-> "StackLength", id |-> n] : n \in Index("RS", w)}
    <3>1. PICK n \in Index("RS", w) : r = [kind |-> "StackLength", id |-> n]
      BY <2>3
    <3>2. SpellsIndex(w, "RS", n) /\ n = w.number /\ n \in Nat
      BY IndexRead
    <3>3. r.kind = "StackLength" /\ r.id = n
      BY <3>1
    <3> QED
      BY <3>1, <3>2, <3>3 DEF SpellsRegister, RegisterRef, Regs
  <2>4. CASE r \in {[kind |-> "User", id |-> n] : n \in Index("RX", w)}
    <3>1. PICK n \in Index("RX", w) : r = [kind |-> "User", id |-> n]
      BY <2>4
    <3>2. SpellsIndex(w, "RX", n) /\ n = w.number /\ n \in Nat
      BY IndexRead
    <3>3. r.kind = "User" /\ r.id = n
      BY <3>1
    <3> QED
      BY <3>1, <3>2, <3>3 DEF SpellsRegister, RegisterRef, Regs
  <2> QED
    BY <2>1, <2>2, <2>3, <2>4 DEF AsRegister
<1>2. ASSUME NEW r, SpellsRegister(w, r) PROVE AsRegister(w) # {}
  <2>1. CASE w.tag = "RZR" /\ w.rest = "none"
    BY <2>1 DEF AsRegister
  <2>2. CASE w.tag = "RLI" /\ w.rest = "none"
    BY <2>2 DEF AsRegister
  <2>3. CASE SpellsIndex(w, "RS", r.id)
    <3>1. Index("RS", w) # {}
      BY <2>3, IndexRead
    <3> QED
      BY <3>1 DEF AsRegister
  <2>4. CASE SpellsIndex(w, "RX", r.id)
    <3>1. Index("RX", w) # {}
      BY <2>4, IndexRead
    <3> QED
      BY <3>1 DEF AsRegister
  <2> QED
    BY <1>2, <2>1, <2>2, <2>3, <2>4 DEF SpellsRegister
<1> QED
  BY <1>1, <1>2

LEMMA ValueRead ==
  ASSUME NEW w \in Word
  PROVE  /\ \A s \in Readings("value", w) : /\ SpellsValue(w, s) /\ s \in ValueSource
                                            /\ \A ids : w.number \in ids => s \in Srcs(ids)
         /\ \A s : SpellsValue(w, s) => Readings("value", w) # {}
<1>1. Readings("value", w) = {[kind |-> "Const", value |-> n] : n \in AsConst(w)}
                             \cup {[kind |-> "Register", reg |-> r] : r \in AsRegister(w)}
  BY DEF Readings, AnyRegister, AnyStack
<1>2. w.number \in Nat
  BY ItemKinds
<1>3. ASSUME NEW s \in Readings("value", w)
      PROVE  /\ SpellsValue(w, s) /\ s \in ValueSource
             /\ \A ids : w.number \in ids => s \in Srcs(ids)
  <2>1. CASE s \in {[kind |-> "Const", value |-> n] : n \in AsConst(w)}
    <3>1. PICK n \in AsConst(w) : s = [kind |-> "Const", value |-> n]
      BY <2>1
    <3>2. /\ w.tag \in {"", "-"} /\ w.rest = "digits" /\ n \in LangValue
          /\ n = IF w.tag = "-" THEN -w.number ELSE w.number
      BY DEF AsConst
    <3>3. s.kind = "Const" /\ s.value = n
      BY <3>1
    <3>4. SpellsValue(w, s) /\ s \in ValueSource
      BY <3>1, <3>2, <3>3 DEF SpellsValue, ValueSource
    <3>5. ASSUME NEW ids, w.number \in ids PROVE s \in Srcs(ids)
      <4>1. n \in (ids \cup {-x : x \in ids}) \cap LangValue
        BY <3>2, <3>5
      <4> QED
        BY <3>1, <4>1 DEF Srcs
    <3> QED
      BY <3>4, <3>5
  <2>2. CASE s \in {[kind |-> "Register", reg |-> r] : r \in AsRegister(w)}
    <3>1. PICK r \in AsRegister(w) : s = [kind |-> "Register", reg |-> r]
      BY <2>2
    <3>2. SpellsRegister(w, r) /\ r \in RegisterRef /\ \A ids : w.number \in ids => r \in Regs(ids)
      BY RegisterRead
    <3>3. s.kind = "Register" /\ s.reg = r
      BY <3>1
    <3> QED
      BY <3>1, <3>2, <3>3 DEF SpellsValue, ValueSource, Srcs
  <2> QED
    BY <1>1, <2>1, <2>2
<1>4. ASSUME NEW s, SpellsValue(w, s) PROVE Readings("value", w) # {}
  <2>1. CASE SpellsRegister(w, s.reg)
    BY <2>1, <1>1, RegisterRead
  <2>2. CASE s.value \in LangValue /\ w.rest = "digits" /\ w.tag = "" /\ s.value = w.number
    BY <2>2, <1>1 DEF AsConst
  <2>3. CASE s.value \in LangValue /\ w.rest = "digits" /\ w.tag = "-" /\ s.value = -w.number
    BY <2>3, <1>1 DEF AsConst
  <2> QED
    BY <1>4, <2>1, <2>2, <2>3 DEF SpellsValue
<1> QED
  BY <1>3, <1>4

LEMMA LabelRead ==
  ASSUME NEW w \in Word
  PROVE  /\ \A l \in AsLabel(w) : SpellsLabel(w, l) /\ l \in Label /\ l = w.spelling
         /\ \A l : SpellsLabel(w, l) => AsLabel(w) # {}
BY ItemKinds DEF AsLabel, SpellsLabel

LEMMA ReadingsOf ==
  ASSUME NEW w
  PROVE  /\ Readings(AnyRegister, w) = AsRegister(w)
         /\ Readings(AnyStack, w) = Index("S", w)
         /\ Readings("label", w) = AsLabel(w)
BY DEF Readings, AnyRegister, AnyStack

LEMMA SpelledWord ==
  ASSUME NEW w \in Word
  PROVE  /\ \A r : SpellsRegister(w, r) => Readings(AnyRegister, w) # {}
         /\ \A s : SpellsValue(w, s) => Readings("value", w) # {}
         /\ \A n : SpellsIndex(w, "S", n) => Readings(AnyStack, w) # {}
         /\ \A l : SpellsLabel(w, l) => Readings("label", w) # {}
<1>1. \A r : SpellsRegister(w, r) => Readings(AnyRegister, w) # {}
  BY RegisterRead, ReadingsOf
<1>2. \A s : SpellsValue(w, s) => Readings("value", w) # {}
  BY ValueRead
<1>3. \A n : SpellsIndex(w, "S", n) => Readings(AnyStack, w) # {}
  BY IndexRead, ReadingsOf
<1>4. \A l : SpellsLabel(w, l) => Readings("label", w) # {}
  BY LabelRead, ReadingsOf
<1> QED
  BY <1>1, <1>2, <1>3, <1>4

-------------------------------------------------------------------------------
(* Statements                                                                   *)

Assigning == {"Set"} \cup ArithmeticOps

LEMMA KeywordForms ==
  /\ Keyword = {"Read", "Write", "Cmp", "Push", "Pop", "Jmp"} \cup Assigning \cup ConditionalJumps
  /\ "Label" \notin Keyword
  /\ Args("Read") = <<AnyRegister>>
  /\ Args("Write") = <<"value">>
  /\ Args("Cmp") = <<AnyRegister, "value", "value">>
  /\ Args("Push") = <<"value", AnyStack>>
  /\ Args("Pop") = <<AnyStack, AnyRegister>>
  /\ Args("Jmp") = <<"label">>
  /\ \A op \in Assigning : Args(op) = <<AnyRegister, "value">>
  /\ \A op \in ConditionalJumps : Args(op) = <<"value", "label">>
<1> USE DEF Assigning, ArithmeticOps, ConditionalJumps
<1>1. Keyword = {"Read", "Write", "Cmp", "Push", "Pop", "Jmp"} \cup Assigning \cup ConditionalJumps
  BY DEF Keyword, JumpOps
<1>2. "Label" \notin Keyword
  BY DEF Keyword, JumpOps
<1>3. /\ Args("Read") = <<AnyRegister>>
      /\ Args("Write") = <<"value">>
      /\ Args("Cmp") = <<AnyRegister, "value", "value">>
      /\ Args("Push") = <<"value", AnyStack>>
      /\ Args("Pop") = <<AnyStack, AnyRegister>>
      /\ Args("Jmp") = <<"label">>
  BY DEF Args, AnyRegister, AnyStack
<1>4. \A op \in Assigning : Args(op) = <<AnyRegister, "value">>
  BY DEF Args, AnyRegister, AnyStack
<1>5. \A op \in ConditionalJumps : Args(op) = <<"value", "label">>
  BY DEF Args, AnyRegister, AnyStack
<1> QED
  BY <1>1, <1>2, <1>3, <1>4, <1>5

LEMMA SmallTuples ==
  ASSUME NEW T, NEW a \in T, NEW b \in T, NEW c \in T
  PROVE  /\ <<a>> \in Seq(T) /\ Len(<<a>>) = 1 /\ <<a>>[1] = a
         /\ <<a, b>> \in Seq(T) /\ Len(<<a, b>>) = 2 /\ <<a, b>>[1] = a /\ <<a, b>>[2] = b
         /\ <<a, b, c>> \in Seq(T) /\ Len(<<a, b, c>>) = 3
         /\ <<a, b, c>>[1] = a /\ <<a, b, c>>[2] = b /\ <<a, b, c>>[3] = c
OBVIOUS

\* The arguments, place by place.
LEMMA ArgsAre ==
  ASSUME NEW op \in Keyword
  PROVE  /\ Args(op) \in Seq(Kind) /\ Len(Args(op)) \in 1 .. 3
         /\ op \in {"Read", "Write", "Jmp"} => Len(Args(op)) = 1
         /\ op \in {"Push", "Pop"} \cup Assigning \cup ConditionalJumps => Len(Args(op)) = 2
         /\ op = "Cmp" => Len(Args(op)) = 3
         /\ op \in {"Read", "Cmp"} \cup Assigning => Args(op)[1] = AnyRegister
         /\ op \in {"Write", "Push"} \cup ConditionalJumps => Args(op)[1] = "value"
         /\ op = "Pop" => Args(op)[1] = AnyStack
         /\ op = "Jmp" => Args(op)[1] = "label"
         /\ op \in {"Cmp"} \cup Assigning => Args(op)[2] = "value"
         /\ op = "Push" => Args(op)[2] = AnyStack
         /\ op = "Pop" => Args(op)[2] = AnyRegister
         /\ op \in ConditionalJumps => Args(op)[2] = "label"
         /\ op = "Cmp" => Args(op)[3] = "value"
<1>1. PICK r \in Kind : r = AnyRegister
  BY DEF Kind
<1>2. PICK v \in Kind : v = "value"
  BY DEF Kind
<1>3. PICK s \in Kind : s = AnyStack
  BY DEF Kind
<1>4. PICK l \in Kind : l = "label"
  BY DEF Kind
<1>5. CASE op = "Read"
  <2>1. Args(op) = <<r>>
    BY <1>1, <1>5, KeywordForms
  <2>2. Args(op) \in Seq(Kind) /\ Len(Args(op)) = 1 /\ Args(op)[1] = r
    BY <2>1, SmallTuples
  <2> QED
    BY <2>2, <1>1, <1>5 DEF Assigning, ArithmeticOps, ConditionalJumps
<1>6. CASE op = "Write"
  <2>1. Args(op) = <<v>>
    BY <1>2, <1>6, KeywordForms
  <2>2. Args(op) \in Seq(Kind) /\ Len(Args(op)) = 1 /\ Args(op)[1] = v
    BY <2>1, SmallTuples
  <2> QED
    BY <2>2, <1>2, <1>6 DEF Assigning, ArithmeticOps, ConditionalJumps
<1>7. CASE op = "Cmp"
  <2>1. Args(op) = <<r, v, v>>
    BY <1>1, <1>2, <1>7, KeywordForms
  <2>2. Args(op) \in Seq(Kind) /\ Len(Args(op)) = 3 /\ Args(op)[1] = r /\ Args(op)[2] = v /\ Args(op)[3] = v
    BY <2>1, SmallTuples
  <2> QED
    BY <2>2, <1>1, <1>2, <1>7 DEF Assigning, ArithmeticOps, ConditionalJumps
<1>8. CASE op = "Push"
  <2>1. Args(op) = <<v, s>>
    BY <1>2, <1>3, <1>8, KeywordForms
  <2>2. Args(op) \in Seq(Kind) /\ Len(Args(op)) = 2 /\ Args(op)[1] = v /\ Args(op)[2] = s
    BY <2>1, SmallTuples
  <2> QED
    BY <2>2, <1>2, <1>3, <1>8 DEF Assigning, ArithmeticOps, ConditionalJumps
<1>9. CASE op = "Pop"
  <2>1. Args(op) = <<s, r>>
    BY <1>1, <1>3, <1>9, KeywordForms
  <2>2. Args(op) \in Seq(Kind) /\ Len(Args(op)) = 2 /\ Args(op)[1] = s /\ Args(op)[2] = r
    BY <2>1, SmallTuples
  <2> QED
    BY <2>2, <1>1, <1>3, <1>9 DEF Assigning, ArithmeticOps, ConditionalJumps
<1>10. CASE op = "Jmp"
  <2>1. Args(op) = <<l>>
    BY <1>4, <1>10, KeywordForms
  <2>2. Args(op) \in Seq(Kind) /\ Len(Args(op)) = 1 /\ Args(op)[1] = l
    BY <2>1, SmallTuples
  <2> QED
    BY <2>2, <1>4, <1>10 DEF Assigning, ArithmeticOps, ConditionalJumps
<1>11. CASE op \in Assigning
  <2>1. Args(op) = <<r, v>>
    BY <1>1, <1>2, <1>11, KeywordForms
  <2>2. Args(op) \in Seq(Kind) /\ Len(Args(op)) = 2 /\ Args(op)[1] = r /\ Args(op)[2] = v
    BY <2>1, SmallTuples
  <2> QED
    BY <2>2, <1>1, <1>2, <1>11 DEF Assigning, ArithmeticOps, ConditionalJumps
<1>12. CASE op \in ConditionalJumps
  <2>1. Args(op) = <<v, l>>
    BY <1>2, <1>4, <1>12, KeywordForms
  <2>2. Args(op) \in Seq(Kind) /\ Len(Args(op)) = 2 /\ Args(op)[1] = v /\ Args(op)[2] = l
    BY <2>1, SmallTuples
  <2> QED
    BY <2>2, <1>2, <1>4, <1>12 DEF Assigning, ArithmeticOps, ConditionalJumps
<1> QED
  BY <1>5, <1>6, <1>7, <1>8, <1>9, <1>10, <1>11, <1>12, KeywordForms

LEMMA ArgsKinds ==
  ASSUME NEW op \in Keyword
  PROVE  /\ Len(Args(op)) \in 1 .. 3 /\ DOMAIN Args(op) = 1 .. Len(Args(op))
         /\ \A n \in 1 .. Len(Args(op)) : Args(op)[n] \in Kind
<1>1. PICK a \in Seq(Kind) : a = Args(op)
  BY ArgsAre
<1>2. DOMAIN a = 1 .. Len(a) /\ \A n \in 1 .. Len(a) : a[n] \in Kind
  BY LenProperties, ElementOfSeq
<1> QED
  BY <1>1, <1>2, ArgsAre

\* A core that the parser reads as an instruction, or as a declaration.
Instructive(c) ==
  /\ \A j \in 1 .. Len(c) : c[j] \in Word
  /\ c[1].tag \in Keyword /\ c[1].rest = "none" /\ Len(c) = Len(Args(c[1].tag)) + 1
  /\ \A n \in 1 .. Len(Args(c[1].tag)) : Readings(Args(c[1].tag)[n], c[n + 1]) # {}

Declarative(c) == Len(c) = 2 /\ c[1] \in Word /\ AsLabel(c[1]) # {} /\ c[2] = Colon

\* What is spelled can be read.
LEMMA SpelledIsRead ==
  ASSUME NEW c \in Seq(Kept), NEW stmt, Spells(c, stmt)
  PROVE  Instructive(c) \/ Declarative(c)
<1>1. Len(c) \in Nat /\ DOMAIN c = 1 .. Len(c)
  BY LenProperties
<1>2. \A j \in 1 .. Len(c) : c[j] # Colon => c[j] \in Word
  BY ElementOfSeq, ItemKinds
<1>3. CASE IsLabel(stmt)
  <2>1. Len(c) = 2 /\ c[1] # Colon /\ SpellsLabel(c[1], stmt.label) /\ c[2] = Colon
    BY <1>3 DEF Spells
  <2>2. c[1] \in Word
    BY <2>1, <1>2
  <2> QED
    BY <2>1, <2>2, LabelRead DEF Declarative
<1>4. CASE ~ IsLabel(stmt)
  <2> DEFINE Forms ==
     \/ stmt.op = "Read" /\ Len(c) = 2 /\ SpellsRegister(c[2], stmt.dst)
     \/ stmt.op = "Write" /\ Len(c) = 2 /\ SpellsValue(c[2], stmt.src)
     \/ /\ stmt.op \in {"Set", "Cmp"} \cup ArithmeticOps
        /\ Len(c) = (IF stmt.op = "Cmp" THEN 4 ELSE 3)
        /\ SpellsRegister(c[2], stmt.dst) /\ SpellsValue(c[3], stmt.src)
        /\ stmt.op = "Cmp" => SpellsValue(c[4], stmt.src_2)
     \/ /\ stmt.op = "Push" /\ Len(c) = 3
        /\ SpellsValue(c[2], stmt.src) /\ SpellsIndex(c[3], "S", stmt.stack)
     \/ /\ stmt.op = "Pop" /\ Len(c) = 3
        /\ SpellsIndex(c[2], "S", stmt.stack) /\ SpellsRegister(c[3], stmt.dst)
     \/ stmt.op = "Jmp" /\ Len(c) = 2 /\ SpellsLabel(c[2], stmt.label)
     \/ /\ stmt.op \in ConditionalJumps /\ Len(c) = 3
        /\ SpellsValue(c[2], stmt.src) /\ SpellsLabel(c[3], stmt.label)
  <2>1. /\ \A j \in DOMAIN c : c[j] # Colon
        /\ c[1].tag = stmt.op /\ c[1].rest = "none" /\ Forms
    BY <1>4, Zenon DEF Spells
  <2>2. \A j \in 1 .. Len(c) : c[j] \in Word
    BY <2>1, <1>1, <1>2
  <2>3. PICK op : op = stmt.op
    OBVIOUS
  <2> DEFINE Goal == /\ op \in Keyword /\ Len(c) = Len(Args(op)) + 1
                     /\ \A n \in 1 .. Len(Args(op)) : Readings(Args(op)[n], c[n + 1]) # {}
  <2>4. ASSUME op = "Read", Len(c) = 2, SpellsRegister(c[2], stmt.dst) PROVE Goal
    <3>1. c[2] \in Word
      BY <2>2, <2>4
    <3>2. Readings(AnyRegister, c[2]) # {}
      BY <3>1, <2>4, SpelledWord
    <3>3. op \in Keyword
      BY <2>4, KeywordForms
    <3>4. Len(Args(op)) = 1 /\ Args(op)[1] = AnyRegister
      BY <2>4, <3>3, ArgsAre
    <3>5. ASSUME NEW n \in 1 .. Len(Args(op)) PROVE Readings(Args(op)[n], c[n + 1]) # {}
      <4>0. n \in 1 .. 1
        BY <3>4
      <4>1. CASE n = 1
        BY <4>1, <3>2, <3>4
      <4> QED
        BY <4>0, <4>1
    <3>6. Len(c) = 2
      BY <2>4
    <3>7. Len(c) = Len(Args(op)) + 1
      BY <3>4, <3>6
    <3> QED
      BY <3>3, <3>5, <3>7
  <2>5. ASSUME op = "Write", Len(c) = 2, SpellsValue(c[2], stmt.src) PROVE Goal
    <3>1. c[2] \in Word
      BY <2>2, <2>5
    <3>2. Readings("value", c[2]) # {}
      BY <3>1, <2>5, SpelledWord
    <3>3. op \in Keyword
      BY <2>5, KeywordForms
    <3>4. Len(Args(op)) = 1 /\ Args(op)[1] = "value"
      BY <2>5, <3>3, ArgsAre
    <3>5. ASSUME NEW n \in 1 .. Len(Args(op)) PROVE Readings(Args(op)[n], c[n + 1]) # {}
      <4>0. n \in 1 .. 1
        BY <3>4
      <4>1. CASE n = 1
        BY <4>1, <3>2, <3>4
      <4> QED
        BY <4>0, <4>1
    <3>6. Len(c) = 2
      BY <2>5
    <3>7. Len(c) = Len(Args(op)) + 1
      BY <3>4, <3>6
    <3> QED
      BY <3>3, <3>5, <3>7
  <2>6. ASSUME op \in Assigning, Len(c) = 3, SpellsRegister(c[2], stmt.dst), SpellsValue(c[3], stmt.src)
        PROVE  Goal
    <3>1. c[2] \in Word /\ c[3] \in Word
      BY <2>2, <2>6
    <3>2. Readings(AnyRegister, c[2]) # {} /\ Readings("value", c[3]) # {}
      BY <3>1, <2>6, SpelledWord
    <3>3. op \in Keyword
      BY <2>6, KeywordForms
    <3>4. Len(Args(op)) = 2 /\ Args(op)[1] = AnyRegister /\ Args(op)[2] = "value"
      BY <2>6, <3>3, ArgsAre
    <3>5. ASSUME NEW n \in 1 .. Len(Args(op)) PROVE Readings(Args(op)[n], c[n + 1]) # {}
      <4>0. n \in 1 .. 2
        BY <3>4
      <4>1. CASE n = 1
        BY <4>1, <3>2, <3>4
      <4>2. CASE n = 2
        BY <4>2, <3>2, <3>4
      <4> QED
        BY <4>0, <4>1, <4>2
    <3>6. Len(c) = 3
      BY <2>6
    <3>7. Len(c) = Len(Args(op)) + 1
      BY <3>4, <3>6
    <3> QED
      BY <3>3, <3>5, <3>7
  <2>7. ASSUME op = "Cmp", Len(c) = 4, SpellsRegister(c[2], stmt.dst), SpellsValue(c[3], stmt.src),
               SpellsValue(c[4], stmt.src_2)
        PROVE  Goal
    <3>1. c[2] \in Word /\ c[3] \in Word /\ c[4] \in Word
      BY <2>2, <2>7
    <3>2. Readings(AnyRegister, c[2]) # {} /\ Readings("value", c[3]) # {} /\ Readings("value", c[4]) # {}
      BY <3>1, <2>7, SpelledWord
    <3>3. op \in Keyword
      BY <2>7, KeywordForms
    <3>4. Len(Args(op)) = 3 /\ Args(op)[1] = AnyRegister /\ Args(op)[2] = "value" /\ Args(op)[3] = "value"
      BY <2>7, <3>3, ArgsAre
    <3>5. ASSUME NEW n \in 1 .. Len(Args(op)) PROVE Readings(Args(op)[n], c[n + 1]) # {}
      <4>0. n \in 1 .. 3
        BY <3>4
      <4>1. CASE n = 1
        BY <4>1, <3>2, <3>4
      <4>2. CASE n = 2
        BY <4>2, <3>2, <3>4
      <4>3. CASE n = 3
        BY <4>3, <3>2, <3>4
      <4> QED
        BY <4>0, <4>1, <4>2, <4>3
    <3>6. Len(c) = 4
      BY <2>7
    <3>7. Len(c) = Len(Args(op)) + 1
      BY <3>4, <3>6
    <3> QED
      BY <3>3, <3>5, <3>7
  <2>8. ASSUME op = "Push", Len(c) = 3, SpellsValue(c[2], stmt.src), SpellsIndex(c[3], "S", stmt.stack)
        PROVE  Goal
    <3>1. c[2] \in Word /\ c[3] \in Word
      BY <2>2, <2>8
    <3>2. Readings("value", c[2]) # {} /\ Readings(AnyStack, c[3]) # {}
      BY <3>1, <2>8, SpelledWord
    <3>3. op \in Keyword
      BY <2>8, KeywordForms
    <3>4. Len(Args(op)) = 2 /\ Args(op)[1] = "value" /\ Args(op)[2] = AnyStack
      BY <2>8, <3>3, ArgsAre
    <3>5. ASSUME NEW n \in 1 .. Len(Args(op)) PROVE Readings(Args(op)[n], c[n + 1]) # {}
      <4>0. n \in 1 .. 2
        BY <3>4
      <4>1. CASE n = 1
        BY <4>1, <3>2, <3>4
      <4>2. CASE n = 2
        BY <4>2, <3>2, <3>4
      <4> QED
        BY <4>0, <4>1, <4>2
    <3>6. Len(c) = 3
      BY <2>8
    <3>7. Len(c) = Len(Args(op)) + 1
      BY <3>4, <3>6
    <3> QED
      BY <3>3, <3>5, <3>7
  <2>9. ASSUME op = "Pop", Len(c) = 3, SpellsIndex(c[2], "S", stmt.stack), SpellsRegister(c[3], stmt.dst)
        PROVE  Goal
    <3>1. c[2] \in Word /\ c[3] \in Word
      BY <2>2, <2>9
    <3>2. Readings(AnyStack, c[2]) # {} /\ Readings(AnyRegister, c[3]) # {}
      BY <3>1, <2>9, SpelledWord
    <3>3. op \in Keyword
      BY <2>9, KeywordForms
    <3>4. Len(Args(op)) = 2 /\ Args(op)[1] = AnyStack /\ Args(op)[2] = AnyRegister
      BY <2>9, <3>3, ArgsAre
    <3>5. ASSUME NEW n \in 1 .. Len(Args(op)) PROVE Readings(Args(op)[n], c[n + 1]) # {}
      <4>0. n \in 1 .. 2
        BY <3>4
      <4>1. CASE n = 1
        BY <4>1, <3>2, <3>4
      <4>2. CASE n = 2
        BY <4>2, <3>2, <3>4
      <4> QED
        BY <4>0, <4>1, <4>2
    <3>6. Len(c) = 3
      BY <2>9
    <3>7. Len(c) = Len(Args(op)) + 1
      BY <3>4, <3>6
    <3> QED
      BY <3>3, <3>5, <3>7
  <2>10. ASSUME op = "Jmp", Len(c) = 2, SpellsLabel(c[2], stmt.label) PROVE Goal
    <3>1. c[2] \in Word
      BY <2>2, <2>10
    <3>2. Readings("label", c[2]) # {}
      BY <3>1, <2>10, SpelledWord
    <3>3. op \in Keyword
      BY <2>10, KeywordForms
    <3>4. Len(Args(op)) = 1 /\ Args(op)[1] = "label"
      BY <2>10, <3>3, ArgsAre
    <3>5. ASSUME NEW n \in 1 .. Len(Args(op)) PROVE Readings(Args(op)[n], c[n + 1]) # {}
      <4>0. n \in 1 .. 1
        BY <3>4
      <4>1. CASE n = 1
        BY <4>1, <3>2, <3>4
      <4> QED
        BY <4>0, <4>1
    <3>6. Len(c) = 2
      BY <2>10
    <3>7. Len(c) = Len(Args(op)) + 1
      BY <3>4, <3>6
    <3> QED
      BY <3>3, <3>5, <3>7
  <2>11. ASSUME op \in ConditionalJumps, Len(c) = 3, SpellsValue(c[2], stmt.src),
                SpellsLabel(c[3], stmt.label)
         PROVE  Goal
    <3>1. c[2] \in Word /\ c[3] \in Word
      BY <2>2, <2>11
    <3>2. Readings("value", c[2]) # {} /\ Readings("label", c[3]) # {}
      BY <3>1, <2>11, SpelledWord
    <3>3. op \in Keyword
      BY <2>11, KeywordForms
    <3>4. Len(Args(op)) = 2 /\ Args(op)[1] = "value" /\ Args(op)[2] = "label"
      BY <2>11, <3>3, ArgsAre
    <3>5. ASSUME NEW n \in 1 .. Len(Args(op)) PROVE Readings(Args(op)[n], c[n + 1]) # {}
      <4>0. n \in 1 .. 2
        BY <3>4
      <4>1. CASE n = 1
        BY <4>1, <3>2, <3>4
      <4>2. CASE n = 2
        BY <4>2, <3>2, <3>4
      <4> QED
        BY <4>0, <4>1, <4>2
    <3>6. Len(c) = 3
      BY <2>11
    <3>7. Len(c) = Len(Args(op)) + 1
      BY <3>4, <3>6
    <3> QED
      BY <3>3, <3>5, <3>7
  <2>12. Goal
    <3> HIDE DEF Goal
    <3>1. CASE stmt.op \in {"Set", "Cmp"} \cup ArithmeticOps
      <4>1. \/ op = "Cmp"
            \/ op \in Assigning /\ op # "Cmp"
        BY <3>1, <2>3 DEF Assigning, ArithmeticOps
      <4>2. op # "Read" /\ op # "Write" /\ op # "Push" /\ op # "Pop" /\ op # "Jmp" /\ op \notin ConditionalJumps
        BY <3>1, <2>3 DEF ArithmeticOps, ConditionalJumps
      <4> QED
        BY <2>1, <2>3, <2>6, <2>7, <4>1, <4>2
    <3>2. CASE stmt.op \notin {"Set", "Cmp"} \cup ArithmeticOps
      BY <3>2, <2>1, <2>3, <2>4, <2>5, <2>8, <2>9, <2>10, <2>11
    <3> QED
      BY <3>1, <3>2
  <2> QED
    BY <2>1, <2>2, <2>3, <2>12 DEF Instructive
<1> QED
  BY <1>3, <1>4

-------------------------------------------------------------------------------
(* What is read is spelled                                                      *)

WordsOf(c) == {c[k] : k \in {j \in DOMAIN c : c[j] \in Word}}

Forms(c, stmt) ==
  \/ stmt.op = "Read" /\ Len(c) = 2 /\ SpellsRegister(c[2], stmt.dst)
  \/ stmt.op = "Write" /\ Len(c) = 2 /\ SpellsValue(c[2], stmt.src)
  \/ /\ stmt.op \in {"Set", "Cmp"} \cup ArithmeticOps
     /\ Len(c) = (IF stmt.op = "Cmp" THEN 4 ELSE 3)
     /\ SpellsRegister(c[2], stmt.dst) /\ SpellsValue(c[3], stmt.src)
     /\ stmt.op = "Cmp" => SpellsValue(c[4], stmt.src_2)
  \/ /\ stmt.op = "Push" /\ Len(c) = 3
     /\ SpellsValue(c[2], stmt.src) /\ SpellsIndex(c[3], "S", stmt.stack)
  \/ /\ stmt.op = "Pop" /\ Len(c) = 3
     /\ SpellsIndex(c[2], "S", stmt.stack) /\ SpellsRegister(c[3], stmt.dst)
  \/ stmt.op = "Jmp" /\ Len(c) = 2 /\ SpellsLabel(c[2], stmt.label)
  \/ /\ stmt.op \in ConditionalJumps /\ Len(c) = 3
     /\ SpellsValue(c[2], stmt.src) /\ SpellsLabel(c[3], stmt.label)

LEMMA FormSpells ==
  ASSUME NEW c \in Seq(Kept), \A j \in 1 .. Len(c) : c[j] \in Word, NEW stmt,
         c[1].rest = "none", c[1].tag = stmt.op, stmt.op # "Label", Forms(c, stmt)
  PROVE  Spells(c, stmt)
<1>1. DOMAIN c = 1 .. Len(c)
  BY LenProperties
<1>2. \A k \in DOMAIN c : c[k] # Colon
  BY <1>1, ItemKinds
<1>3. ~ IsLabel(stmt)
  BY DEF IsLabel
<1> QED
  BY <1>2, <1>3, Zenon DEF Spells, Forms

LEMMA NodeForms ==
  ASSUME NEW v
  PROVE  /\ NodeOf("Read", v) = [op |-> "Read", dst |-> v[1]]
         /\ NodeOf("Write", v) = [op |-> "Write", src |-> v[1]]
         /\ NodeOf("Cmp", v) = [op |-> "Cmp", dst |-> v[1], src |-> v[2], src_2 |-> v[3]]
         /\ NodeOf("Push", v) = [op |-> "Push", src |-> v[1], stack |-> v[2]]
         /\ NodeOf("Pop", v) = [op |-> "Pop", stack |-> v[1], dst |-> v[2]]
         /\ NodeOf("Jmp", v) = [op |-> "Jmp", label |-> v[1]]
         /\ \A op \in Assigning : NodeOf(op, v) = [op |-> op, dst |-> v[1], src |-> v[2]]
         /\ \A op \in ConditionalJumps : NodeOf(op, v) = [op |-> op, src |-> v[1], label |-> v[2]]
<1> USE DEF Assigning, ArithmeticOps, ConditionalJumps
<1>1. /\ NodeOf("Read", v) = [op |-> "Read", dst |-> v[1]]
      /\ NodeOf("Write", v) = [op |-> "Write", src |-> v[1]]
      /\ NodeOf("Cmp", v) = [op |-> "Cmp", dst |-> v[1], src |-> v[2], src_2 |-> v[3]]
      /\ NodeOf("Push", v) = [op |-> "Push", src |-> v[1], stack |-> v[2]]
      /\ NodeOf("Pop", v) = [op |-> "Pop", stack |-> v[1], dst |-> v[2]]
      /\ NodeOf("Jmp", v) = [op |-> "Jmp", label |-> v[1]]
  BY DEF NodeOf
<1>2. \A op \in Assigning : NodeOf(op, v) = [op |-> op, dst |-> v[1], src |-> v[2]]
  BY DEF NodeOf
<1>3. \A op \in ConditionalJumps : NodeOf(op, v) = [op |-> op, src |-> v[1], label |-> v[2]]
  BY DEF NodeOf
<1> QED
  BY <1>1, <1>2, <1>3

\* A word of the core and its reading.
LEMMA WordRead ==
  ASSUME NEW c, NEW j \in DOMAIN c, c[j] \in Word
  PROVE  /\ \A r \in Readings(AnyRegister, c[j]) :
              SpellsRegister(c[j], r) /\ r \in RegisterRef /\ r \in Regs(Ids(WordsOf(c)))
         /\ \A s \in Readings("value", c[j]) :
              SpellsValue(c[j], s) /\ s \in ValueSource /\ s \in Srcs(Ids(WordsOf(c)))
         /\ \A n \in Readings(AnyStack, c[j]) :
              SpellsIndex(c[j], "S", n) /\ n \in Nat /\ n \in Ids(WordsOf(c))
         /\ \A l \in Readings("label", c[j]) :
              SpellsLabel(c[j], l) /\ l \in Label /\ l \in Names(WordsOf(c))
<1>1. PICK w \in Word : w = c[j]
  OBVIOUS
<1>2. w.number \in Ids(WordsOf(c)) /\ w.spelling \in Names(WordsOf(c))
  BY <1>1 DEF Ids, Names, WordsOf
<1>3. \A r \in Readings(AnyRegister, w) :
        SpellsRegister(w, r) /\ r \in RegisterRef /\ r \in Regs(Ids(WordsOf(c)))
  BY <1>2, RegisterRead, ReadingsOf
<1>4. \A s \in Readings("value", w) :
        SpellsValue(w, s) /\ s \in ValueSource /\ s \in Srcs(Ids(WordsOf(c)))
  BY <1>2, ValueRead
<1>5. \A n \in Readings(AnyStack, w) :
        SpellsIndex(w, "S", n) /\ n \in Nat /\ n \in Ids(WordsOf(c))
  BY <1>2, IndexRead, ReadingsOf
<1>6. \A l \in Readings("label", w) :
        SpellsLabel(w, l) /\ l \in Label /\ l \in Names(WordsOf(c))
  BY <1>2, LabelRead, ReadingsOf
<1> QED
  BY <1>1, <1>3, <1>4, <1>5, <1>6

LEMMA ReadIsSpelled ==
  ASSUME NEW c \in Seq(Kept), Instructive(c), NEW op, op = c[1].tag, NEW v,
         \A n \in 1 .. Len(Args(op)) : v[n] \in Readings(Args(op)[n], c[n + 1])
  PROVE  /\ Spells(c, NodeOf(op, v)) /\ NodeOf(op, v) \in Candidates(c)
         /\ NodeOf(op, v) \in Statement
<1>1. /\ \A j \in 1 .. Len(c) : c[j] \in Word
      /\ op \in Keyword /\ c[1].rest = "none" /\ Len(c) = Len(Args(op)) + 1
  BY DEF Instructive
<1>2. DOMAIN c = 1 .. Len(c) /\ Len(c) \in Nat
  BY LenProperties
<1>3. PICK ops : ops = {w.tag : w \in WordsOf(c)} \cap Keyword
  OBVIOUS
<1>4. PICK ids : ids = Ids(WordsOf(c))
  OBVIOUS
<1>5. PICK names : names = Names(WordsOf(c))
  OBVIOUS
<1>6. Candidates(c) =
        [op : {"Label", "Jmp"}, label : names]
        \cup [op : ops \cap {"Read"}, dst : Regs(ids)]
        \cup [op : ops \cap {"Write"}, src : Srcs(ids)]
        \cup [op : ops \cap ({"Set"} \cup ArithmeticOps), dst : Regs(ids), src : Srcs(ids)]
        \cup [op : ops \cap {"Cmp"}, dst : Regs(ids), src : Srcs(ids), src_2 : Srcs(ids)]
        \cup [op : ops \cap {"Push"}, src : Srcs(ids), stack : ids]
        \cup [op : ops \cap {"Pop"}, stack : ids, dst : Regs(ids)]
        \cup [op : ops \cap ConditionalJumps, src : Srcs(ids), label : names]
  BY <1>3, <1>4, <1>5, ZenonT(30) DEF Candidates, WordsOf, Ids, Names, Regs, Srcs
<1>7. op \in ops
  <2>1. Len(Args(op)) \in 1 .. 3
    BY <1>1, ArgsKinds
  <2>2. 1 \in DOMAIN c /\ c[1] \in Word
    BY <2>1, <1>1, <1>2
  <2> QED
    BY <2>2, <1>1, <1>3 DEF WordsOf
<1>8. \A j \in 1 .. Len(c) :
        /\ \A r \in Readings(AnyRegister, c[j]) :
             SpellsRegister(c[j], r) /\ r \in RegisterRef /\ r \in Regs(ids)
        /\ \A s \in Readings("value", c[j]) :
             SpellsValue(c[j], s) /\ s \in ValueSource /\ s \in Srcs(ids)
        /\ \A n \in Readings(AnyStack, c[j]) :
             SpellsIndex(c[j], "S", n) /\ n \in Nat /\ n \in ids
        /\ \A l \in Readings("label", c[j]) :
             SpellsLabel(c[j], l) /\ l \in Label /\ l \in names
  BY <1>1, <1>2, <1>4, <1>5, WordRead
<1>9. PICK node : node = NodeOf(op, v)
  OBVIOUS
<1> DEFINE Goal == Forms(c, node) /\ node \in Candidates(c) /\ node \in Statement /\ node.op = op
<1>10. ASSUME op = "Read" PROVE Goal
  <2>1. Len(Args(op)) = 1 /\ Args(op)[1] = AnyRegister
    BY <1>1, <1>10, ArgsAre
  <2>2. v[1] \in Readings(AnyRegister, c[2])
    BY <2>1
  <2>3. SpellsRegister(c[2], v[1]) /\ v[1] \in RegisterRef /\ v[1] \in Regs(ids)
    <3>1. 2 \in 1 .. Len(c)
      BY <2>1, <1>1, <1>2
    <3> QED
      BY <3>1, <2>2, <1>8
  <2>4. node = [op |-> op, dst |-> v[1]]
    BY <1>9, <1>10, NodeForms
  <2>5. node.op = op /\ node.dst = v[1]
    BY <2>4
  <2>6. node \in Candidates(c)
    <3>1. node \in [op : ops \cap {"Read"}, dst : Regs(ids)]
      BY <2>4, <2>3, <1>7, <1>10 DEF Assigning
    <3> QED
      BY <3>1, <1>6
  <2>7. node \in Statement
    <3>1. node \in [op : {"Read"}, dst : RegisterRef]
      BY <2>4, <2>3, <1>10 DEF Assigning
    <3> QED
      BY <3>1 DEF Statement, Operator
  <2>8. Len(c) = 2
    BY <2>1, <1>1
  <2>9. Forms(c, node)
    BY <2>5, <2>8, <2>3, <1>10 DEF Forms, Assigning, ArithmeticOps
  <2> QED
    BY <2>5, <2>6, <2>7, <2>9
<1>11. ASSUME op = "Write" PROVE Goal
  <2>1. Len(Args(op)) = 1 /\ Args(op)[1] = "value"
    BY <1>1, <1>11, ArgsAre
  <2>2. v[1] \in Readings("value", c[2])
    BY <2>1
  <2>3. SpellsValue(c[2], v[1]) /\ v[1] \in ValueSource /\ v[1] \in Srcs(ids)
    <3>1. 2 \in 1 .. Len(c)
      BY <2>1, <1>1, <1>2
    <3> QED
      BY <3>1, <2>2, <1>8
  <2>4. node = [op |-> op, src |-> v[1]]
    BY <1>9, <1>11, NodeForms
  <2>5. node.op = op /\ node.src = v[1]
    BY <2>4
  <2>6. node \in Candidates(c)
    <3>1. node \in [op : ops \cap {"Write"}, src : Srcs(ids)]
      BY <2>4, <2>3, <1>7, <1>11 DEF Assigning
    <3> QED
      BY <3>1, <1>6
  <2>7. node \in Statement
    <3>1. node \in [op : {"Write"}, src : ValueSource]
      BY <2>4, <2>3, <1>11 DEF Assigning
    <3> QED
      BY <3>1 DEF Statement, Operator
  <2>8. Len(c) = 2
    BY <2>1, <1>1
  <2>9. Forms(c, node)
    BY <2>5, <2>8, <2>3, <1>11 DEF Forms, Assigning, ArithmeticOps
  <2> QED
    BY <2>5, <2>6, <2>7, <2>9
<1>12. ASSUME op \in Assigning PROVE Goal
  <2>1. Len(Args(op)) = 2 /\ Args(op)[1] = AnyRegister /\ Args(op)[2] = "value"
    BY <1>1, <1>12, ArgsAre
  <2>2. v[1] \in Readings(AnyRegister, c[2]) /\ v[2] \in Readings("value", c[3])
    BY <2>1
  <2>3. SpellsRegister(c[2], v[1]) /\ v[1] \in RegisterRef /\ v[1] \in Regs(ids)
    <3>1. 2 \in 1 .. Len(c)
      BY <2>1, <1>1, <1>2
    <3> QED
      BY <3>1, <2>2, <1>8
  <2>4. SpellsValue(c[3], v[2]) /\ v[2] \in ValueSource /\ v[2] \in Srcs(ids)
    <3>1. 3 \in 1 .. Len(c)
      BY <2>1, <1>1, <1>2
    <3> QED
      BY <3>1, <2>2, <1>8
  <2>5. node = [op |-> op, dst |-> v[1], src |-> v[2]]
    BY <1>9, <1>12, NodeForms
  <2>6. node.op = op /\ node.dst = v[1] /\ node.src = v[2]
    BY <2>5
  <2>7. node \in Candidates(c)
    <3>1. node \in [op : ops \cap ({"Set"} \cup ArithmeticOps), dst : Regs(ids), src : Srcs(ids)]
      BY <2>5, <2>3, <2>4, <1>7, <1>12 DEF Assigning
    <3> QED
      BY <3>1, <1>6
  <2>8. node \in Statement
    <3>1. node \in [op : {"Set"} \cup ArithmeticOps, dst : RegisterRef, src : ValueSource]
      BY <2>5, <2>3, <2>4, <1>12 DEF Assigning
    <3> QED
      BY <3>1 DEF Statement, Operator
  <2>9. Len(c) = 3
    BY <2>1, <1>1
  <2>10. Forms(c, node)
    BY <2>6, <2>9, <2>3, <2>4, <1>12 DEF Forms, Assigning, ArithmeticOps
  <2> QED
    BY <2>6, <2>7, <2>8, <2>10
<1>13. ASSUME op = "Cmp" PROVE Goal
  <2>1. Len(Args(op)) = 3 /\ Args(op)[1] = AnyRegister /\ Args(op)[2] = "value" /\ Args(op)[3] = "value"
    BY <1>1, <1>13, ArgsAre
  <2>2. v[1] \in Readings(AnyRegister, c[2]) /\ v[2] \in Readings("value", c[3]) /\ v[3] \in Readings("value", c[4])
    BY <2>1
  <2>3. SpellsRegister(c[2], v[1]) /\ v[1] \in RegisterRef /\ v[1] \in Regs(ids)
    <3>1. 2 \in 1 .. Len(c)
      BY <2>1, <1>1, <1>2
    <3> QED
      BY <3>1, <2>2, <1>8
  <2>4. SpellsValue(c[3], v[2]) /\ v[2] \in ValueSource /\ v[2] \in Srcs(ids)
    <3>1. 3 \in 1 .. Len(c)
      BY <2>1, <1>1, <1>2
    <3> QED
      BY <3>1, <2>2, <1>8
  <2>5. SpellsValue(c[4], v[3]) /\ v[3] \in ValueSource /\ v[3] \in Srcs(ids)
    <3>1. 4 \in 1 .. Len(c)
      BY <2>1, <1>1, <1>2
    <3> QED
      BY <3>1, <2>2, <1>8
  <2>6. node = [op |-> op, dst |-> v[1], src |-> v[2], src_2 |-> v[3]]
    BY <1>9, <1>13, NodeForms
  <2>7. node.op = op /\ node.dst = v[1] /\ node.src = v[2] /\ node.src_2 = v[3]
    BY <2>6
  <2>8. node \in Candidates(c)
    <3>1. node \in [op : ops \cap {"Cmp"}, dst : Regs(ids), src : Srcs(ids), src_2 : Srcs(ids)]
      BY <2>6, <2>3, <2>4, <2>5, <1>7, <1>13 DEF Assigning
    <3> QED
      BY <3>1, <1>6
  <2>9. node \in Statement
    <3>1. node \in [op : {"Cmp"}, dst : RegisterRef, src : ValueSource, src_2 : ValueSource]
      BY <2>6, <2>3, <2>4, <2>5, <1>13 DEF Assigning
    <3> QED
      BY <3>1 DEF Statement, Operator
  <2>10. Len(c) = 4
    BY <2>1, <1>1
  <2>11. Forms(c, node)
    BY <2>7, <2>10, <2>3, <2>4, <2>5, <1>13 DEF Forms, Assigning, ArithmeticOps
  <2> QED
    BY <2>7, <2>8, <2>9, <2>11
<1>14. ASSUME op = "Push" PROVE Goal
  <2>1. Len(Args(op)) = 2 /\ Args(op)[1] = "value" /\ Args(op)[2] = AnyStack
    BY <1>1, <1>14, ArgsAre
  <2>2. v[1] \in Readings("value", c[2]) /\ v[2] \in Readings(AnyStack, c[3])
    BY <2>1
  <2>3. SpellsValue(c[2], v[1]) /\ v[1] \in ValueSource /\ v[1] \in Srcs(ids)
    <3>1. 2 \in 1 .. Len(c)
      BY <2>1, <1>1, <1>2
    <3> QED
      BY <3>1, <2>2, <1>8
  <2>4. SpellsIndex(c[3], "S", v[2]) /\ v[2] \in Nat /\ v[2] \in ids
    <3>1. 3 \in 1 .. Len(c)
      BY <2>1, <1>1, <1>2
    <3> QED
      BY <3>1, <2>2, <1>8
  <2>5. node = [op |-> op, src |-> v[1], stack |-> v[2]]
    BY <1>9, <1>14, NodeForms
  <2>6. node.op = op /\ node.src = v[1] /\ node.stack = v[2]
    BY <2>5
  <2>7. node \in Candidates(c)
    <3>1. node \in [op : ops \cap {"Push"}, src : Srcs(ids), stack : ids]
      BY <2>5, <2>3, <2>4, <1>7, <1>14 DEF Assigning
    <3> QED
      BY <3>1, <1>6
  <2>8. node \in Statement
    <3>1. node \in [op : {"Push"}, src : ValueSource, stack : Nat]
      BY <2>5, <2>3, <2>4, <1>14 DEF Assigning
    <3> QED
      BY <3>1 DEF Statement, Operator
  <2>9. Len(c) = 3
    BY <2>1, <1>1
  <2>10. Forms(c, node)
    BY <2>6, <2>9, <2>3, <2>4, <1>14 DEF Forms, Assigning, ArithmeticOps
  <2> QED
    BY <2>6, <2>7, <2>8, <2>10
<1>15. ASSUME op = "Pop" PROVE Goal
  <2>1. Len(Args(op)) = 2 /\ Args(op)[1] = AnyStack /\ Args(op)[2] = AnyRegister
    BY <1>1, <1>15, ArgsAre
  <2>2. v[1] \in Readings(AnyStack, c[2]) /\ v[2] \in Readings(AnyRegister, c[3])
    BY <2>1
  <2>3. SpellsIndex(c[2], "S", v[1]) /\ v[1] \in Nat /\ v[1] \in ids
    <3>1. 2 \in 1 .. Len(c)
      BY <2>1, <1>1, <1>2
    <3> QED
      BY <3>1, <2>2, <1>8
  <2>4. SpellsRegister(c[3], v[2]) /\ v[2] \in RegisterRef /\ v[2] \in Regs(ids)
    <3>1. 3 \in 1 .. Len(c)
      BY <2>1, <1>1, <1>2
    <3> QED
      BY <3>1, <2>2, <1>8
  <2>5. node = [op |-> op, stack |-> v[1], dst |-> v[2]]
    BY <1>9, <1>15, NodeForms
  <2>6. node.op = op /\ node.stack = v[1] /\ node.dst = v[2]
    BY <2>5
  <2>7. node \in Candidates(c)
    <3>1. node \in [op : ops \cap {"Pop"}, stack : ids, dst : Regs(ids)]
      BY <2>5, <2>3, <2>4, <1>7, <1>15 DEF Assigning
    <3> QED
      BY <3>1, <1>6
  <2>8. node \in Statement
    <3>1. node \in [op : {"Pop"}, stack : Nat, dst : RegisterRef]
      BY <2>5, <2>3, <2>4, <1>15 DEF Assigning
    <3> QED
      BY <3>1 DEF Statement, Operator
  <2>9. Len(c) = 3
    BY <2>1, <1>1
  <2>10. Forms(c, node)
    BY <2>6, <2>9, <2>3, <2>4, <1>15 DEF Forms, Assigning, ArithmeticOps
  <2> QED
    BY <2>6, <2>7, <2>8, <2>10
<1>16. ASSUME op = "Jmp" PROVE Goal
  <2>1. Len(Args(op)) = 1 /\ Args(op)[1] = "label"
    BY <1>1, <1>16, ArgsAre
  <2>2. v[1] \in Readings("label", c[2])
    BY <2>1
  <2>3. SpellsLabel(c[2], v[1]) /\ v[1] \in Label /\ v[1] \in names
    <3>1. 2 \in 1 .. Len(c)
      BY <2>1, <1>1, <1>2
    <3> QED
      BY <3>1, <2>2, <1>8
  <2>4. node = [op |-> op, label |-> v[1]]
    BY <1>9, <1>16, NodeForms
  <2>5. node.op = op /\ node.label = v[1]
    BY <2>4
  <2>6. node \in Candidates(c)
    <3>1. node \in [op : {"Label", "Jmp"}, label : names]
      BY <2>4, <2>3, <1>7, <1>16 DEF Assigning
    <3> QED
      BY <3>1, <1>6
  <2>7. node \in Statement
    <3>1. node \in [op : {"Jmp"}, label : Label]
      BY <2>4, <2>3, <1>16 DEF Assigning
    <3> QED
      BY <3>1 DEF Statement, Operator
  <2>8. Len(c) = 2
    BY <2>1, <1>1
  <2>9. Forms(c, node)
    BY <2>5, <2>8, <2>3, <1>16 DEF Forms, Assigning, ArithmeticOps
  <2> QED
    BY <2>5, <2>6, <2>7, <2>9
<1>17. ASSUME op \in ConditionalJumps PROVE Goal
  <2>1. Len(Args(op)) = 2 /\ Args(op)[1] = "value" /\ Args(op)[2] = "label"
    BY <1>1, <1>17, ArgsAre
  <2>2. v[1] \in Readings("value", c[2]) /\ v[2] \in Readings("label", c[3])
    BY <2>1
  <2>3. SpellsValue(c[2], v[1]) /\ v[1] \in ValueSource /\ v[1] \in Srcs(ids)
    <3>1. 2 \in 1 .. Len(c)
      BY <2>1, <1>1, <1>2
    <3> QED
      BY <3>1, <2>2, <1>8
  <2>4. SpellsLabel(c[3], v[2]) /\ v[2] \in Label /\ v[2] \in names
    <3>1. 3 \in 1 .. Len(c)
      BY <2>1, <1>1, <1>2
    <3> QED
      BY <3>1, <2>2, <1>8
  <2>5. node = [op |-> op, src |-> v[1], label |-> v[2]]
    BY <1>9, <1>17, NodeForms
  <2>6. node.op = op /\ node.src = v[1] /\ node.label = v[2]
    BY <2>5
  <2>7. node \in Candidates(c)
    <3>1. node \in [op : ops \cap ConditionalJumps, src : Srcs(ids), label : names]
      BY <2>5, <2>3, <2>4, <1>7, <1>17 DEF Assigning
    <3> QED
      BY <3>1, <1>6
  <2>8. node \in Statement
    <3>1. node \in [op : ConditionalJumps, src : ValueSource, label : Label]
      BY <2>5, <2>3, <2>4, <1>17 DEF Assigning
    <3> QED
      BY <3>1 DEF Statement, Operator
  <2>9. Len(c) = 3
    BY <2>1, <1>1
  <2>10. Forms(c, node)
    BY <2>6, <2>9, <2>3, <2>4, <1>17 DEF Forms, Assigning, ArithmeticOps
  <2> QED
    BY <2>6, <2>7, <2>8, <2>10
<1>18. Goal
  BY <1>10, <1>11, <1>12, <1>13, <1>14, <1>15, <1>16, <1>17, <1>1, KeywordForms
<1> QED
  <2>1. node.op # "Label"
    BY <1>1, <1>18, KeywordForms
  <2> QED
    BY <1>1, <1>9, <1>18, <2>1, FormSpells

-------------------------------------------------------------------------------
(* The lines of the language, as the parser walks them                          *)

EndOfStatement == "end of statement"

Declares(line, k) == IsDeclaration(line, k) /\ Ends(line, k + 2)

\* The instruction at k up to its last word.
Operands(line, k) ==
  /\ IsWord(line, k) /\ line[k].tag \in Keyword /\ line[k].rest = "none"
  /\ Laid(line, k, Len(Args(line[k].tag)) + 1)
  /\ \A n \in 1 .. Len(Args(line[k].tag)) : Readings(Args(line[k].tag)[n], line[k + 2 * n]) # {}
  /\ StmtTokenTerminator(line, k + 2 * Len(Args(line[k].tag)))

Instructs(line, k) == Operands(line, k) /\ Ends(line, k + 2 * Len(Args(line[k].tag)) + 1)

IsStatement(line) == Declares(line, Skip(line, 1)) \/ Instructs(line, Skip(line, 1))

\* The core of an instruction.
LEMMA InstructedCore ==
  ASSUME NEW line, line \in Seq(Item), NEW k, k = Skip(line, 1), Instructs(line, k)
  PROVE  /\ Instructive(Core(line)) /\ Core(line)[1] = line[k] /\ Core(line) \in Seq(Kept)
         /\ Len(Core(line)) = Len(Args(line[k].tag)) + 1
         /\ \A n \in 1 .. Len(Args(line[k].tag)) : Core(line)[n + 1] = line[k + 2 * n]
<1>1. k \in {1, 2}
  BY StartOf
<1>2. PICK op \in Keyword : op = line[k].tag
  BY DEF Instructs, Operands
<1>3. Len(Args(op)) \in 1 .. 3
  BY ArgsKinds
<1>4. PICK m \in Nat \ {0} : m = Len(Args(op)) + 1
  BY <1>3
<1>5. Laid(line, k, m) /\ Ends(line, k + 2 * m - 1)
  <2>1. k + 2 * Len(Args(op)) + 1 = k + 2 * m - 1
    BY <1>1, <1>3, <1>4
  <2> QED
    BY <2>1, <1>2, <1>4 DEF Instructs, Operands
<1>6. Len(Core(line)) = m /\ \A j \in 1 .. m : Core(line)[j] = line[k + 2 * j - 2]
  BY <1>5, CoreLaid
<1>7. Core(line)[1] = line[k]
  <2>1. 1 \in 1 .. m /\ k + 2 * 1 - 2 = k
    BY <1>1, <1>4
  <2> QED
    BY <2>1, <1>6
<1>8. ASSUME NEW n \in 1 .. Len(Args(op)) PROVE Core(line)[n + 1] = line[k + 2 * n]
  <2>1. n + 1 \in 1 .. m /\ k + 2 * (n + 1) - 2 = k + 2 * n
    BY <1>1, <1>3, <1>4
  <2> QED
    BY <2>1, <1>6
<1>9. \A j \in 1 .. m : Core(line)[j] \in Word
  BY <1>5, <1>6 DEF Laid, IsWord
<1>10. Core(line) \in Seq(Kept)
  <2>1. Core(line) = Where(line, Kept)
    BY DEF Core, Kept
  <2> QED
    BY <2>1, WhereType
<1>11. \A n \in 1 .. Len(Args(op)) : Readings(Args(op)[n], Core(line)[n + 1]) # {}
  BY <1>2, <1>8 DEF Instructs, Operands
<1>12. Instructive(Core(line))
  <2>1. line[k].rest = "none"
    BY DEF Instructs, Operands
  <2>2. Core(line)[1].tag = op /\ Core(line)[1].rest = "none"
    BY <1>2, <1>7, <2>1
  <2> QED
    BY <2>2, <1>2, <1>4, <1>6, <1>9, <1>11 DEF Instructive
<1> QED
  BY <1>2, <1>4, <1>6, <1>7, <1>8, <1>10, <1>12

\* The core of a declaration.
LEMMA DeclaredCore ==
  ASSUME NEW line, line \in Seq(Item), NEW k, k = Skip(line, 1), Declares(line, k),
         NEW stmt, stmt = [op |-> "Label", label |-> line[k].spelling]
  PROVE  /\ Spells(Core(line), stmt) /\ stmt \in Candidates(Core(line)) /\ stmt \in Statement
         /\ Core(line) \in Seq(Kept) /\ Len(Core(line)) = 2
<1>1. PICK w \in Word : w = line[k]
  BY DEF Declares, IsDeclaration, IsWord
<1>2. PICK c : c = Core(line)
  OBVIOUS
<1>3. Len(c) = 2 /\ c[1] = w /\ c[2] = Colon
  BY <1>1, <1>2, CoreDeclared DEF Declares, IsDeclaration
<1>4. c \in Seq(Kept)
  <2>1. c = Where(line, Kept)
    BY <1>2 DEF Core, Kept
  <2> QED
    BY <2>1, WhereType
<1>5. stmt.op = "Label" /\ stmt.label = w.spelling
  BY <1>1
<1>6. w \in WordsOf(c)
  <2>1. 1 \in DOMAIN c
    BY <1>3, <1>4, LenProperties
  <2> QED
    BY <2>1, <1>1, <1>3 DEF WordsOf
<1>7. stmt \in Candidates(c)
  <2>1. stmt \in [op : {"Label", "Jmp"}, label : Names(WordsOf(c))]
    BY <1>1, <1>6 DEF Names
  <2> QED
    BY <2>1, Zenon DEF Candidates, WordsOf, Names
<1>8. stmt \in Statement
  <2>1. w.spelling \in Label
    BY ItemKinds
  <2> QED
    BY <2>1, <1>1 DEF Statement
<1>9. Spells(c, stmt)
  <2>1. IsLabel(stmt)
    BY <1>5 DEF IsLabel
  <2>2. SpellsLabel(w, stmt.label)
    <3>1. AsLabel(w) # {}
      BY <1>1 DEF Declares, IsDeclaration
    <3> QED
      BY <3>1, <1>5 DEF AsLabel, SpellsLabel
  <2>3. c[1] # Colon
    BY <1>3, ItemKinds
  <2> QED
    BY <2>1, <2>2, <2>3, <1>3, Zenon DEF Spells
<1> QED
  BY <1>2, <1>3, <1>4, <1>7, <1>8, <1>9

LEMMA InstructionIsSpaced ==
  ASSUME NEW line, Lexed(line), Instructs(line, Skip(line, 1)) PROVE Spaced(line)
<1>1. line \in Seq(Item) /\ Len(line) \in Nat
  BY LineItems
<1>2. PICK k \in {1, 2} : k = Skip(line, 1)
  BY <1>1, StartOf
<1>3. PICK op \in Keyword : op = line[k].tag
  BY <1>2 DEF Instructs, Operands
<1>4. Len(Args(op)) \in 1 .. 3
  BY ArgsKinds
<1>5. PICK m \in Nat : m = Len(Core(line))
  BY Places
<1>6. \A j \in 1 .. m : Core(line)[j] \in Word
  BY <1>1, <1>2, <1>5, InstructedCore DEF Instructive
<1>7. PICK f : /\ \A j \in 1 .. m : Core(line)[j] = line[f[j]]
               /\ \A u \in 1 .. Len(line) :
                    (\A j \in 1 .. m : f[j] # u) => line[u] \in {Space, Comment}
  BY <1>5, Places
<1>8. ASSUME NEW u \in 1 .. Len(line) PROVE line[u] # Colon
  <2>1. CASE \A j \in 1 .. m : f[j] # u
    BY <2>1, <1>7, ItemKinds
  <2>2. CASE \E j \in 1 .. m : f[j] = u
    BY <2>2, <1>6, <1>7, ItemKinds
  <2> QED
    BY <2>1, <2>2
<1>9. PICK p : p = k + 2 * Len(Args(op))
  OBVIOUS
<1>10. p \in 1 .. Len(line) /\ line[p] \in Word /\ StmtTokenTerminator(line, p) /\ Ends(line, p + 1)
  <2>1. Len(Args(op)) + 1 \in 1 .. Len(Args(op)) + 1
    BY <1>4
  <2>2. k + 2 * (Len(Args(op)) + 1) - 2 = p
    BY <1>4, <1>9
  <2>3. IsWord(line, p)
    BY <2>1, <2>2, <1>2, <1>3 DEF Instructs, Operands, Laid
  <2> QED
    BY <2>3, <1>2, <1>3, <1>4, <1>9 DEF Instructs, Operands, IsWord
<1>11. \A u \in p + 1 .. Len(line) : line[u] \in {Space, Comment}
  <2>1. p + 1 \in Nat \ {0} /\ p + 1 <= Len(line) + 1
    BY <1>1, <1>10
  <2> QED
    BY <2>1, <1>1, <1>10, EndsBehind
<1>12. ASSUME NEW u \in 2 .. Len(line), line[u] = Comment PROVE line[u - 1] = Space
  <2>1. u \in 1 .. Len(line) /\ ~ (u \in 1 .. Len(line) - 1)
    BY <1>1, <1>12, LineItems
  <2>2. u = Len(line)
    BY <2>1, <1>1
  <2>3. p # u
    BY <1>10, <1>12, ItemKinds
  <2>4. line[p + 1] = Space
    BY <2>2, <2>3, <1>10 DEF StmtTokenTerminator
  <2>5. p + 1 # u
    BY <2>4, <1>12, ItemKinds
  <2>6. u - 1 \in p + 1 .. Len(line) /\ u - 1 \in 1 .. Len(line) - 1
    BY <2>2, <2>3, <2>5, <1>1, <1>10
  <2> QED
    BY <2>6, <1>11, LineItems
<1> QED
  BY <1>8, <1>12 DEF Spaced

LEMMA DeclarationIsSpaced ==
  ASSUME NEW line, Lexed(line), Declares(line, Skip(line, 1)) PROVE Spaced(line)
<1>1. line \in Seq(Item) /\ Len(line) \in Nat
  BY LineItems
<1>2. PICK k \in {1, 2} : k = Skip(line, 1) /\ (k = 2 => line[1] = Space)
  BY <1>1, StartOf
<1>3. line[k] \in Word /\ k < Len(line) /\ line[k + 1] = Colon /\ Ends(line, k + 2)
  BY <1>2 DEF Declares, IsDeclaration, IsWord
<1>4. \A u \in k + 2 .. Len(line) : line[u] \in {Space, Comment}
  <2>1. k + 2 \in Nat \ {0} /\ k + 2 <= Len(line) + 1
    BY <1>1, <1>3
  <2> QED
    BY <2>1, <1>1, <1>3, EndsBehind
<1>5. ASSUME NEW u \in 2 .. Len(line), line[u] = Colon PROVE line[u - 1] # Space
  <2>1. u = k + 1
    <3>1. u # k /\ ~ (u \in k + 2 .. Len(line))
      BY <1>3, <1>4, <1>5, ItemKinds
    <3> QED
      BY <3>1, <1>1
  <2> QED
    BY <2>1, <1>3, ItemKinds
<1>6. ASSUME NEW u \in 2 .. Len(line), line[u] = Comment PROVE line[u - 1] \in {Space, Colon}
  <2>1. u # k /\ u # k + 1
    BY <1>3, <1>6, ItemKinds
  <2>2. CASE u = k + 2
    BY <2>2, <1>3
  <2>3. CASE u # k + 2
    <3>1. u - 1 \in k + 2 .. Len(line) /\ u - 1 \in 1 .. Len(line) - 1
      BY <2>1, <2>3, <1>1
    <3> QED
      BY <3>1, <1>4, LineItems
  <2> QED
    BY <2>2, <2>3
<1> QED
  BY <1>5, <1>6 DEF Spaced

\* A line is in the language exactly if it has this form.
LEMMA GrammarIsForm == ASSUME NEW line, Lexed(line) PROVE Grammatical(line) <=> IsStatement(line)
<1>1. line \in Seq(Item) /\ Len(line) \in Nat
  BY LineItems
<1>2. PICK k \in {1, 2} : k = Skip(line, 1)
  BY <1>1, StartOf
<1>3. PICK c \in Seq(Kept) : c = Core(line)
  BY Places
<1>4. ASSUME Grammatical(line) PROVE IsStatement(line)
  <2>1. PICK stmt : Spells(c, stmt)
    BY <1>3, <1>4 DEF Grammatical
  <2>2. Spaced(line)
    BY <1>4 DEF Grammatical
  <2>3. CASE Instructive(c)
    <3>1. PICK op \in Keyword : op = c[1].tag
      BY <2>3 DEF Instructive
    <3>2. Len(Args(op)) \in 1 .. 3
      BY ArgsKinds
    <3>3. PICK m \in Nat \ {0} : m = Len(Args(op)) + 1
      BY <3>2
    <3>4. m = Len(c) /\ \A j \in 1 .. m : c[j] \in Word
      BY <2>3, <3>1, <3>3 DEF Instructive
    <3>5. /\ Laid(line, k, m) /\ \A j \in 1 .. m : line[k + 2 * j - 2] = c[j]
          /\ Ends(line, k + 2 * m - 1) /\ StmtTokenTerminator(line, k + 2 * m - 2)
      BY <2>2, <3>4, <1>2, <1>3, WordsAreLaid, SMTT(30)
    <3>6. line[k] = c[1]
      <4>1. 1 \in 1 .. m /\ k + 2 * 1 - 2 = k
        BY <3>3
      <4> QED
        BY <4>1, <3>5
    <3>7. ASSUME NEW n \in 1 .. Len(Args(op)) PROVE line[k + 2 * n] = c[n + 1]
      <4>1. n + 1 \in 1 .. m /\ k + 2 * (n + 1) - 2 = k + 2 * n
        BY <3>2, <3>3
      <4> QED
        BY <4>1, <3>5
    <3>8. IsWord(line, k)
      <4>1. 1 \in 1 .. m /\ k + 2 * 1 - 2 = k
        BY <3>3
      <4> QED
        BY <4>1, <3>5 DEF Laid
    <3>9. k + 2 * m - 1 = k + 2 * Len(Args(op)) + 1 /\ k + 2 * m - 2 = k + 2 * Len(Args(op))
      BY <3>2, <3>3
    <3>10. line[k].tag = op /\ line[k].rest = "none"
      BY <2>3, <3>1, <3>6 DEF Instructive
    <3>11. \A n \in 1 .. Len(Args(op)) : Readings(Args(op)[n], line[k + 2 * n]) # {}
      BY <2>3, <3>1, <3>7 DEF Instructive
    <3>12. Instructs(line, k)
      BY <3>3, <3>5, <3>8, <3>9, <3>10, <3>11 DEF Instructs, Operands
    <3> QED
      BY <3>12, <1>2 DEF IsStatement
  <2>4. CASE Declarative(c)
    <3>1. /\ IsWord(line, k) /\ line[k] = c[1]
          /\ k < Len(line) /\ line[k + 1] = Colon /\ Ends(line, k + 2)
      BY <2>2, <2>4, <1>2, <1>3, LabelIsDeclared DEF Declarative
    <3>2. AsLabel(line[k]) # {}
      BY <2>4, <3>1 DEF Declarative
    <3>3. Declares(line, k)
      BY <3>1, <3>2 DEF Declares, IsDeclaration
    <3> QED
      BY <3>3, <1>2 DEF IsStatement
  <2> QED
    BY <2>1, <2>3, <2>4, SpelledIsRead
<1>5. ASSUME Instructs(line, k) PROVE Grammatical(line)
  <2>1. Spaced(line)
    BY <1>2, <1>5, InstructionIsSpaced
  <2>2. Instructive(c)
    BY <1>1, <1>2, <1>3, <1>5, InstructedCore
  <2>3. PICK op \in Keyword : op = c[1].tag
    BY <2>2 DEF Instructive
  <2>4. PICK v : v = [n \in 1 .. Len(Args(op)) |-> CHOOSE x \in Readings(Args(op)[n], c[n + 1]) : TRUE]
    OBVIOUS
  <2>5. \A n \in 1 .. Len(Args(op)) : v[n] \in Readings(Args(op)[n], c[n + 1])
    BY <2>2, <2>3, <2>4 DEF Instructive
  <2>6. Spells(c, NodeOf(op, v)) /\ NodeOf(op, v) \in Candidates(c)
    BY <2>2, <2>3, <2>5, ReadIsSpelled
  <2> QED
    BY <2>1, <2>6, <1>3 DEF Grammatical
<1>6. ASSUME Declares(line, k) PROVE Grammatical(line)
  <2>1. Spaced(line)
    BY <1>2, <1>6, DeclarationIsSpaced
  <2>2. PICK stmt : stmt = [op |-> "Label", label |-> line[k].spelling]
    OBVIOUS
  <2>3. Spells(c, stmt) /\ stmt \in Candidates(c)
    BY <2>2, <1>1, <1>2, <1>3, <1>6, DeclaredCore
  <2> QED
    BY <2>1, <2>3, <1>3 DEF Grammatical
<1> QED
  BY <1>2, <1>4, <1>5, <1>6 DEF IsStatement

-------------------------------------------------------------------------------
(* What the parser makes of a line                                              *)

Success(node, from, to) == [expected |-> "none", node |-> node, from |-> from, to |-> to]
Failure(what, where) == [expected |-> what, at |-> where]

\* The first values that the arguments of the instruction at k have.
Values(line, k) ==
  [n \in DOMAIN Args(line[k].tag) |->
     CHOOSE v \in Argument(line, k, Args(line[k].tag)[n], n) : TRUE]

LEMMA Strings ==
  /\ \A kind \in Kind : kind \notin {"none", "parsed", "program", "statement", EndOfStatement}
  /\ EndOfStatement \notin {"none", "parsed", "program", "statement"}
BY Zenon DEF Kind, AnyRegister, AnyStack, EndOfStatement

LEMMA Contents ==
  /\ \A node, from, to :
       /\ Success(node, from, to).expected = "none" /\ Success(node, from, to).node = node
       /\ Success(node, from, to).from = from /\ Success(node, from, to).to = to
  /\ \A what, where : /\ Failure(what, where).expected = what
                      /\ Failure(what, where).at = where
BY DEF Success, Failure

LEMMA ParsedCases ==
  ASSUME NEW line, NEW k, k = Skip(line, 1), NEW op, op = line[k].tag
  PROVE  /\ IsDeclaration(line, k) =>
              Parsed(line) =
                IF Ends(line, k + 2)
                THEN Success([op |-> "Label", label |-> line[k].spelling], k, k + 2)
                ELSE Failure(EndOfStatement, Before(Skip(line, k + 2)))
         /\ ~ IsDeclaration(line, k) /\ ~ IsInstruction(line, k) =>
              Parsed(line) = Failure("statement", Before(k))
         /\ ~ IsDeclaration(line, k) /\ IsInstruction(line, k) /\ Unread(line, k) # {} =>
              \A j : j = Least(Unread(line, k)) =>
                Parsed(line) = Failure(Args(op)[j], ArgumentContext(line, k, Args(op)[j], j))
         /\ ~ IsDeclaration(line, k) /\ IsInstruction(line, k) /\ Unread(line, k) = {} =>
              Parsed(line) =
                IF Ends(line, k + 2 * Len(Args(op)) + 1)
                THEN Success(NodeOf(op, Values(line, k)), k, k + 2 * Len(Args(op)) + 1)
                ELSE Failure(EndOfStatement, Before(Skip(line, k + 2 * Len(Args(op)) + 1)))
<1>1. IsDeclaration(line, k) =>
        Parsed(line) =
          IF Ends(line, k + 2)
          THEN Success([op |-> "Label", label |-> line[k].spelling], k, k + 2)
          ELSE Failure(EndOfStatement, Before(Skip(line, k + 2)))
  BY ZenonT(60) DEF Parsed, Success, Failure, EndOfStatement
<1>2. ~ IsDeclaration(line, k) /\ ~ IsInstruction(line, k) =>
        Parsed(line) = Failure("statement", Before(k))
  BY ZenonT(60) DEF Parsed, Failure
<1>3. ~ IsDeclaration(line, k) /\ IsInstruction(line, k) /\ Unread(line, k) # {} =>
        \A j : j = Least(Unread(line, k)) =>
          Parsed(line) = Failure(Args(op)[j], ArgumentContext(line, k, Args(op)[j], j))
  BY ZenonT(60) DEF Parsed, Failure
<1>4. ~ IsDeclaration(line, k) /\ IsInstruction(line, k) /\ Unread(line, k) = {} =>
        Parsed(line) =
          IF Ends(line, k + 2 * Len(Args(op)) + 1)
          THEN Success(NodeOf(op, Values(line, k)), k, k + 2 * Len(Args(op)) + 1)
          ELSE Failure(EndOfStatement, Before(Skip(line, k + 2 * Len(Args(op)) + 1)))
  <2>1. ~ IsDeclaration(line, Skip(line, 1)) /\ IsInstruction(line, Skip(line, 1))
        /\ Unread(line, Skip(line, 1)) = {} =>
          Parsed(line) =
            IF Ends(line, Skip(line, 1) + 2 * Len(Args(line[Skip(line, 1)].tag)) + 1)
            THEN Success(NodeOf(line[Skip(line, 1)].tag, Values(line, Skip(line, 1))),
                         Skip(line, 1), Skip(line, 1) + 2 * Len(Args(line[Skip(line, 1)].tag)) + 1)
            ELSE Failure(EndOfStatement,
                   Before(Skip(line, Skip(line, 1) + 2 * Len(Args(line[Skip(line, 1)].tag)) + 1)))
    BY ZenonT(60) DEF Parsed, Success, Failure, Values, EndOfStatement
  <2> QED
    BY <2>1, Zenon
<1> QED
  BY <1>1, <1>2, <1>3, <1>4

\* A read instruction has all its operands.
LEMMA OperandsAreRead ==
  ASSUME NEW line, Lexed(line), NEW k \in Nat \ {0}
  PROVE  /\ Operands(line, k) <=> (IsInstruction(line, k) /\ Unread(line, k) = {})
         /\ Operands(line, k) =>
              \A n \in 1 .. Len(Args(line[k].tag)) :
                Values(line, k)[n] \in Readings(Args(line[k].tag)[n], line[k + 2 * n])
<1>1. Len(line) \in Nat
  BY LineItems
<1>2. CASE ~ (IsWord(line, k) /\ line[k].tag \in Keyword)
  BY <1>2 DEF Operands, IsInstruction
<1>3. CASE IsWord(line, k) /\ line[k].tag \in Keyword
  <2>1. PICK op \in Keyword : op = line[k].tag
    BY <1>3
  <2>2. PICK a : a = Args(op)
    OBVIOUS
  <2>3. PICK len \in 1 .. 3 : len = Len(a) /\ DOMAIN a = 1 .. len
    BY <2>2, ArgsKinds
  <2>4. ASSUME Operands(line, k), NEW n \in 1 .. len
        PROVE  /\ IsWord(line, k + 2 * n) /\ line[k + 2 * n - 1] = Space
               /\ Argument(line, k, a[n], n) = Readings(a[n], line[k + 2 * n])
               /\ Readings(a[n], line[k + 2 * n]) # {}
    <3>1. Laid(line, k, len + 1) /\ StmtTokenTerminator(line, k + 2 * len)
          /\ Readings(a[n], line[k + 2 * n]) # {}
      BY <2>1, <2>2, <2>3, <2>4 DEF Operands
    <3>2. n + 1 \in 1 .. len + 1 /\ k + 2 * (n + 1) - 2 = k + 2 * n
      BY <2>3
    <3>3. IsWord(line, k + 2 * n)
      BY <3>1, <3>2 DEF Laid
    <3>4. n \in 1 .. (len + 1) - 1
      BY <2>3
    <3>5. line[k + 2 * n - 1] = Space
      BY <3>1, <3>4 DEF Laid
    <3>6. StmtTokenTerminator(line, k + 2 * n)
      <4>1. CASE n = len
        BY <4>1, <3>1
      <4>2. CASE n # len
        <5>1. n + 1 \in 1 .. (len + 1) - 1 /\ k + 2 * (n + 1) - 1 = (k + 2 * n) + 1
          BY <4>2, <2>3
        <5>2. line[(k + 2 * n) + 1] = Space
          BY <3>1, <5>1 DEF Laid
        <5> QED
          BY <5>2 DEF StmtTokenTerminator
      <4> QED
        BY <4>1, <4>2
    <3>7. Argument(line, k, a[n], n) = Readings(a[n], line[k + 2 * n])
      BY <3>3, <3>5, <3>6 DEF Argument
    <3> QED
      BY <3>1, <3>3, <3>5, <3>7
  <2>5. Unread(line, k) = {j \in DOMAIN a : line[k].rest # "none" \/ Argument(line, k, a[j], j) = {}}
    BY <2>1, <2>2, Zenon DEF Unread
  <2>6. 1 \in 1 .. len
    BY <2>3
  <2>7. ASSUME Operands(line, k) PROVE IsInstruction(line, k) /\ Unread(line, k) = {}
    <3>1. line[k].rest = "none"
      BY <2>7 DEF Operands
    <3>2. line[k + 1] = Space
      <4>1. line[k + 2 * 1 - 1] = Space
        BY <2>4, <2>6, <2>7
      <4>2. k + 2 * 1 - 1 = k + 1
        OBVIOUS
      <4> QED
        BY <4>1, <4>2
    <3>3. Unread(line, k) = {}
      BY <3>1, <2>3, <2>4, <2>5, <2>7
    <3> QED
      BY <1>3, <3>1, <3>2, <3>3 DEF IsInstruction, StmtTokenTerminator
  <2>8. ASSUME IsInstruction(line, k), Unread(line, k) = {} PROVE Operands(line, k)
    <3>1. ASSUME NEW n \in 1 .. len
          PROVE  line[k].rest = "none" /\ Argument(line, k, a[n], n) # {}
      BY <2>3, <2>5, <2>8
    <3>2. line[k].rest = "none"
      BY <3>1, <2>6
    <3>3. ASSUME NEW n \in 1 .. len
          PROVE  /\ IsWord(line, k + 2 * n) /\ line[k + 2 * n - 1] = Space
                 /\ StmtTokenTerminator(line, k + 2 * n) /\ Readings(a[n], line[k + 2 * n]) # {}
      <4>1. Argument(line, k, a[n], n) # {}
        BY <3>1
      <4>2. CASE ~ (IsWord(line, k + 2 * n) /\ line[k + 2 * n - 1] = Space
                      /\ StmtTokenTerminator(line, k + 2 * n))
        BY <4>1, <4>2 DEF Argument
      <4>3. CASE IsWord(line, k + 2 * n) /\ line[k + 2 * n - 1] = Space
                   /\ StmtTokenTerminator(line, k + 2 * n)
        BY <4>1, <4>3 DEF Argument
      <4> QED
        BY <4>2, <4>3
    <3>4. ASSUME NEW j \in 1 .. len + 1 PROVE IsWord(line, k + 2 * j - 2)
      <4>1. CASE j = 1
        <5>1. k + 2 * j - 2 = k
          BY <4>1
        <5> QED
          BY <5>1, <1>3
      <4>2. CASE j # 1
        <5>1. j - 1 \in 1 .. len /\ k + 2 * (j - 1) = k + 2 * j - 2
          BY <4>2, <2>3
        <5> QED
          BY <5>1, <3>3
      <4> QED
        BY <4>1, <4>2
    <3>5. \A j \in 1 .. (len + 1) - 1 : line[k + 2 * j - 1] = Space
      BY <3>3, <2>3
    <3>6. Laid(line, k, len + 1)
      BY <3>4, <3>5 DEF Laid
    <3>7. len \in 1 .. len
      BY <2>3
    <3>8. StmtTokenTerminator(line, k + 2 * len) /\ \A n \in 1 .. len : Readings(a[n], line[k + 2 * n]) # {}
      BY <3>3, <3>7
    <3> QED
      BY <1>3, <2>1, <2>2, <2>3, <3>2, <3>6, <3>8 DEF Operands
  <2>9. ASSUME Operands(line, k), NEW n \in 1 .. len
        PROVE  Values(line, k)[n] \in Readings(a[n], line[k + 2 * n])
    <3>1. Values(line, k)[n] = CHOOSE v \in Argument(line, k, a[n], n) : TRUE
      BY <2>1, <2>2, <2>3 DEF Values
    <3> QED
      BY <3>1, <2>4, <2>9
  <2> QED
    BY <2>1, <2>2, <2>3, <2>7, <2>8, <2>9
<1> QED
  BY <1>2, <1>3

\* The parser takes a line exactly if it is in the language, and says what it expected
\* otherwise.
LEMMA ParsedShape ==
  ASSUME NEW line, Lexed(line), NEW k, k = Skip(line, 1)
  PROVE  /\ Parsed(line).expected = "none" <=> IsStatement(line)
         /\ Parsed(line).expected \in {"none", "statement", EndOfStatement} \cup Kind
         /\ Declares(line, k) =>
              Parsed(line) = Success([op |-> "Label", label |-> line[k].spelling], k, k + 2)
         /\ Instructs(line, k) =>
              /\ Parsed(line) = Success(NodeOf(line[k].tag, Values(line, k)), k,
                                        k + 2 * Len(Args(line[k].tag)) + 1)
              /\ \A n \in 1 .. Len(Args(line[k].tag)) :
                   Values(line, k)[n] \in Readings(Args(line[k].tag)[n], line[k + 2 * n])
<1>1. line \in Seq(Item) /\ Len(line) \in Nat
  BY LineItems
<1>2. k \in Nat \ {0}
  <2>1. k \in {1, 2}
    BY <1>1, StartOf
  <2> QED
    BY <2>1
<1>3. PICK op : op = line[k].tag
  OBVIOUS
<1>4. Operands(line, k) <=> (IsInstruction(line, k) /\ Unread(line, k) = {})
  BY <1>2, OperandsAreRead
<1>5. IsStatement(line) <=> (Declares(line, k) \/ Instructs(line, k))
  BY DEF IsStatement
<1>6. Operands(line, k) => ~ IsDeclaration(line, k)
  <2> SUFFICES ASSUME Operands(line, k) PROVE ~ IsDeclaration(line, k)
    OBVIOUS
  <2>1. PICK m \in 1 .. 3 : m = Len(Args(line[k].tag))
    BY ArgsKinds DEF Operands
  <2>2. Laid(line, k, m + 1)
    BY <2>1 DEF Operands
  <2>3. 1 \in 1 .. (m + 1) - 1
    BY <2>1
  <2>4. line[k + 2 * 1 - 1] = Space
    BY <2>2, <2>3 DEF Laid
  <2>5. k + 2 * 1 - 1 = k + 1
    BY <1>2
  <2> QED
    BY <2>4, <2>5, ItemKinds DEF IsDeclaration
<1>7. CASE IsDeclaration(line, k)
  <2>1. ~ Instructs(line, k) /\ (Declares(line, k) <=> Ends(line, k + 2))
    BY <1>6, <1>7 DEF Instructs, Declares
  <2>2. CASE Ends(line, k + 2)
    <3>1. Parsed(line) = Success([op |-> "Label", label |-> line[k].spelling], k, k + 2)
      BY <1>7, <2>2, <1>3, ParsedCases
    <3>2. Parsed(line).expected = "none"
      BY <3>1, Contents
    <3> QED
      BY <2>1, <2>2, <3>1, <3>2, <1>5
  <2>3. CASE ~ Ends(line, k + 2)
    <3>1. Parsed(line) = Failure(EndOfStatement, Before(Skip(line, k + 2)))
      BY <1>7, <2>3, <1>3, ParsedCases
    <3>2. Parsed(line).expected = EndOfStatement
      BY <3>1, Contents
    <3> QED
      BY <2>1, <2>3, <3>2, <1>5, Strings
  <2> QED
    BY <2>2, <2>3
<1>8. CASE ~ IsDeclaration(line, k) /\ ~ IsInstruction(line, k)
  <2>1. ~ Instructs(line, k) /\ ~ Declares(line, k)
    BY <1>4, <1>8 DEF Instructs, Declares
  <2>2. Parsed(line) = Failure("statement", Before(k))
    BY <1>8, <1>3, ParsedCases
  <2>3. Parsed(line).expected = "statement"
    BY <2>2, Contents
  <2> QED
    BY <2>1, <2>3, <1>5
<1>9. CASE ~ IsDeclaration(line, k) /\ IsInstruction(line, k) /\ Unread(line, k) # {}
  <2>1. ~ Instructs(line, k) /\ ~ Declares(line, k)
    BY <1>4, <1>9 DEF Instructs, Declares
  <2>2. PICK j : j = Least(Unread(line, k))
    OBVIOUS
  <2>3. Parsed(line).expected = Args(op)[j]
    <3>1. Parsed(line) = Failure(Args(op)[j], ArgumentContext(line, k, Args(op)[j], j))
      BY <1>9, <1>3, <2>2, ParsedCases
    <3> QED
      BY <3>1, Contents
  <2>4. Args(op)[j] \in Kind
    <3>1. op \in Keyword
      BY <1>3, <1>9 DEF IsInstruction
    <3>2. Unread(line, k) \subseteq 1 .. Len(Args(op)) /\ Len(Args(op)) \in Nat
      BY <1>3, <3>1, ArgsKinds DEF Unread
    <3>3. j \in Unread(line, k)
      <4>1. PICK U \in SUBSET Nat : U = Unread(line, k)
        BY <3>2
      <4>2. \E n \in U : \A m \in U : n <= m
        BY <1>9, <4>1, LeastNumber
      <4> QED
        BY <2>2, <4>1, <4>2 DEF Least
    <3> QED
      BY <3>1, <3>2, <3>3, ArgsKinds
  <2> QED
    BY <2>1, <2>3, <2>4, <1>5, Strings
<1>10. CASE ~ IsDeclaration(line, k) /\ IsInstruction(line, k) /\ Unread(line, k) = {}
  <2>1. PICK e : e = k + 2 * Len(Args(op)) + 1
    OBVIOUS
  <2>2. Operands(line, k) /\ ~ Declares(line, k) /\ (Instructs(line, k) <=> Ends(line, e))
    BY <1>3, <1>4, <1>10, <2>1 DEF Instructs, Declares
  <2>3. \A n \in 1 .. Len(Args(line[k].tag)) :
          Values(line, k)[n] \in Readings(Args(line[k].tag)[n], line[k + 2 * n])
    BY <1>2, <2>2, OperandsAreRead
  <2>4. Parsed(line) = IF Ends(line, e) THEN Success(NodeOf(op, Values(line, k)), k, e)
                       ELSE Failure(EndOfStatement, Before(Skip(line, e)))
    BY <1>3, <1>10, <2>1, ParsedCases, ZenonT(40)
  <2>5. CASE Ends(line, e)
    <3>1. Parsed(line) = Success(NodeOf(op, Values(line, k)), k, e)
      BY <2>4, <2>5
    <3>2. Parsed(line).expected = "none"
      BY <3>1, Contents
    <3> QED
      BY <1>3, <1>5, <2>1, <2>2, <2>3, <2>5, <3>1, <3>2
  <2>6. CASE ~ Ends(line, e)
    <3>1. Parsed(line).expected = EndOfStatement
      BY <2>4, <2>6, Contents
    <3> QED
      BY <1>5, <2>2, <2>6, <3>1, Strings
  <2> QED
    BY <2>5, <2>6
<1> QED
  BY <1>7, <1>8, <1>9, <1>10

-------------------------------------------------------------------------------
(* A node and the items it covers                                               *)

Items(line, a, b) == SubSeq(line, a, b)

\* What a cut out of a line holds.
LEMMA Cut ==
  ASSUME NEW line \in Seq(Item), NEW a \in Nat \ {0}, NEW b \in Nat, a <= b, b <= Len(line),
         NEW cut, cut = Items(line, a, b)
  PROVE  /\ cut \in Seq(Item) /\ Len(cut) = b - a + 1
         /\ \A u \in 1 .. Len(cut) : cut[u] = line[a + u - 1]
<1>1. Len(line) \in Nat /\ \A u \in 1 .. Len(line) : line[u] \in Item
  BY LenProperties, ElementOfSeq
<1>2. a \in Int /\ b \in Int /\ \A u \in a .. b : line[u] \in Item
  BY <1>1
<1>3. cut \in Seq(Item)
  BY <1>2, SubSeqProperties DEF Items
<1>4. Len(cut) = IF a <= b THEN b - a + 1 ELSE 0
  BY <1>2, SubSeqProperties DEF Items
<1>5. \A u \in 1 .. b - a + 1 : cut[u] = line[a + u - 1]
  BY <1>2, SubSeqProperties DEF Items
<1> QED
  BY <1>3, <1>4, <1>5

\* The items of a statement alone have the core of its line.
LEMMA CoreOfCut ==
  ASSUME NEW line, Lexed(line), NEW k, k = Skip(line, 1), NEW b,
         \/ Declares(line, k) /\ b = k + 1
         \/ Instructs(line, k) /\ b = k + 2 * Len(Args(line[k].tag)),
         NEW cut, cut = Items(line, k, b)
  PROVE  Core(cut) = Core(line) /\ {cut[1], cut[Len(cut)]} \cap {Space, Comment} = {}
<1>1. line \in Seq(Item) /\ Len(line) \in Nat
  BY LineItems
<1>2. k \in Nat \ {0}
  <2>1. k \in {1, 2}
    BY <1>1, StartOf
  <2> QED
    BY <2>1
<1>3. Core(line) \in Seq(Kept)
  BY Places
<1>6. ASSUME b \in Nat, k <= b, b <= Len(line)
      PROVE  /\ cut \in Seq(Item) /\ Len(cut) = b - k + 1
             /\ \A u \in 1 .. Len(cut) : cut[u] = line[k + u - 1]
  BY <1>6, <1>1, <1>2, Cut, SMTT(30)
<1>4. CASE Declares(line, k) /\ b = k + 1
  <2>1. /\ IsWord(line, k) /\ AsLabel(line[k]) # {}
        /\ k < Len(line) /\ line[k + 1] = Colon /\ Ends(line, k + 2)
    BY <1>4 DEF Declares, IsDeclaration
  <2>2. b \in Nat /\ k <= b /\ b <= Len(line) /\ b - k + 1 = 2
    BY <2>1, <1>1, <1>2, <1>4
  <2>3. cut \in Seq(Item) /\ Len(cut) = 2 /\ \A u \in 1 .. Len(cut) : cut[u] = line[k + u - 1]
    <3>1. /\ cut \in Seq(Item) /\ Len(cut) = b - k + 1
          /\ \A u \in 1 .. Len(cut) : cut[u] = line[k + u - 1]
      <4>1. b \in Nat /\ k <= b /\ b <= Len(line)
        BY <2>2
      <4> QED
        BY <4>1, <1>6, Zenon
    <3> QED
      BY <3>1, <2>2
  <2>4. cut[1] = line[k] /\ cut[2] = Colon
    <3>1. \A n : n = Len(cut) => 1 \in 1 .. n /\ 2 \in 1 .. n
      <4>1. Len(cut) = 2
        BY <2>3
      <4> QED
        BY <4>1
    <3>2. cut[1] = line[k + 1 - 1] /\ cut[2] = line[k + 2 - 1]
      BY <3>1, <2>3
    <3>3. k + 1 - 1 = k /\ k + 2 - 1 = k + 1
      BY <1>2
    <3> QED
      BY <3>2, <3>3, <2>1
  <2>5. line[k] \in Word
    BY <2>1 DEF IsWord
  <2>6. 1 = Skip(cut, 1)
    BY <2>4, <2>5, ItemKinds DEF Skip
  <2>7. IsWord(cut, 1) /\ 1 < Len(cut) /\ cut[1 + 1] = Colon
    BY <2>3, <2>4, <2>5 DEF IsWord
  <2>8. Ends(cut, 1 + 2)
    BY <2>3 DEF Ends, Skip
  <2>9. PICK one : one = 1
    OBVIOUS
  <2>10. Len(Core(cut)) = 2 /\ Core(cut)[1] = cut[1] /\ Core(cut)[2] = Colon
    BY <2>3, <2>6, <2>7, <2>8, <2>9, CoreDeclared
  <2>11. Len(Core(line)) = 2 /\ Core(line)[1] = line[k] /\ Core(line)[2] = Colon
    BY <2>1, <1>1, CoreDeclared
  <2>12. Core(cut) \in Seq(Kept)
    <3>1. Core(cut) = Where(cut, Kept)
      BY DEF Core, Kept
    <3> QED
      BY <3>1, <2>3, WhereType
  <2>13. \A u \in 1 .. Len(Core(cut)) : Core(cut)[u] = Core(line)[u]
    <3>1. \A u \in 1 .. Len(Core(cut)) : u = 1 \/ u = 2
      <4>1. \A u \in 1 .. 2 : u = 1 \/ u = 2
        OBVIOUS
      <4>2. Len(Core(cut)) = 2
        BY <2>10
      <4> QED
        BY <4>1, <4>2, Zenon
    <3> QED
      BY <3>1, <2>4, <2>10, <2>11
  <2>14. Core(cut) = Core(line)
    BY <2>10, <2>11, <2>12, <2>13, <1>3, SeqEqual
  <2> QED
    BY <2>3, <2>4, <2>5, <2>14, ItemKinds
<1>5. CASE Instructs(line, k) /\ b = k + 2 * Len(Args(line[k].tag))
  <2>1. PICK len \in 1 .. 3 : len = Len(Args(line[k].tag))
    BY <1>5, ArgsKinds DEF Instructs, Operands
  <2>2. PICK m \in Nat \ {0} : m = len + 1
    BY <2>1
  <2>3. Laid(line, k, m) /\ Ends(line, k + 2 * len + 1) /\ b = k + 2 * len
    BY <1>5, <2>1, <2>2 DEF Instructs, Operands
  <2>4. k + 2 * len + 1 = k + 2 * m - 1 /\ b = k + 2 * m - 2
    BY <1>2, <2>1, <2>2, <2>3
  <2>5. Len(Core(line)) = m /\ \A j \in 1 .. m : Core(line)[j] = line[k + 2 * j - 2]
    BY <1>1, <2>3, <2>4, CoreLaid
  <2>6. \A j \in 1 .. m : k + 2 * j - 2 \in 1 .. Len(line) /\ line[k + 2 * j - 2] \in Word
    BY <2>3, <1>1, <1>2 DEF Laid, IsWord
  <2>7. m \in 1 .. m /\ 1 \in 1 .. m
    BY <2>2
  <2>8. b <= Len(line) /\ b \in Nat /\ k <= b
    <3>1. k + 2 * m - 2 \in 1 .. Len(line)
      BY <2>6, <2>7
    <3>2. k + 2 * m - 2 >= k
      BY <1>2, <2>2
    <3> QED
      BY <3>1, <3>2, <2>4, <1>1, <1>2
  <2>9. cut \in Seq(Item) /\ Len(cut) = b - k + 1
        /\ \A u \in 1 .. Len(cut) : cut[u] = line[k + u - 1]
    BY <2>8, <1>6
  <2>10. Len(cut) = 2 * m - 1
    <3>1. Len(cut) = b - k + 1
      BY <2>9
    <3>2. b = k + 2 * m - 2
      BY <2>4
    <3>3. b - k + 1 = 2 * m - 1
      BY <3>2, <1>2, <2>2
    <3> QED
      BY <3>1, <3>3
  <2>11. ASSUME NEW j \in 1 .. m
         PROVE  1 + 2 * j - 2 \in 1 .. Len(cut) /\ cut[1 + 2 * j - 2] = line[k + 2 * j - 2]
    <3>1. 1 + 2 * j - 2 \in 1 .. Len(cut)
      BY <2>10, <2>2
    <3>2. k + (1 + 2 * j - 2) - 1 = k + 2 * j - 2
      BY <1>2
    <3> QED
      BY <3>1, <3>2, <2>9
  <2>12. ASSUME NEW j \in 1 .. m - 1
         PROVE  cut[1 + 2 * j - 1] = Space
    <3>1. 1 + 2 * j - 1 \in 1 .. Len(cut)
      BY <2>10, <2>2
    <3>2. k + (1 + 2 * j - 1) - 1 = k + 2 * j - 1
      BY <1>2
    <3>3. line[k + 2 * j - 1] = Space
      BY <2>3 DEF Laid
    <3> QED
      BY <3>1, <3>2, <3>3, <2>9
  <2>13. Laid(cut, 1, m)
    <3>1. ASSUME NEW j \in 1 .. m PROVE IsWord(cut, 1 + 2 * j - 2)
      <4>1. cut[1 + 2 * j - 2] \in Word
        BY <2>6, <2>11
      <4>2. 1 + 2 * j - 2 <= Len(cut)
        BY <2>10, <2>2
      <4> QED
        BY <4>1, <4>2 DEF IsWord
    <3> QED
      BY <3>1, <2>12 DEF Laid
  <2>14. cut[1] \in Word /\ cut[Len(cut)] \in Word
    <3>1. 1 + 2 * 1 - 2 = 1 /\ 1 + 2 * m - 2 = Len(cut)
      BY <2>10, <2>2
    <3>2. cut[1 + 2 * 1 - 2] \in Word /\ cut[1 + 2 * m - 2] \in Word
      BY <2>6, <2>7, <2>11
    <3> QED
      BY <3>1, <3>2
  <2>15. 1 = Skip(cut, 1)
    BY <2>14, ItemKinds DEF Skip
  <2>16. Ends(cut, 1 + 2 * m - 1)
    <3>1. 1 + 2 * m - 1 = Len(cut) + 1 /\ Len(cut) \in Nat
      BY <2>10, <2>2
    <3> QED
      BY <3>1 DEF Ends, Skip
  <2>17. PICK one : one = 1
    OBVIOUS
  <2>18. Len(Core(cut)) = m /\ \A j \in 1 .. m : Core(cut)[j] = cut[1 + 2 * j - 2]
    BY <2>9, <2>13, <2>15, <2>16, <2>17, CoreLaid
  <2>19. \A j \in 1 .. m : Core(cut)[j] = Core(line)[j]
    BY <2>5, <2>11, <2>18
  <2>20. Core(cut) \in Seq(Kept)
    <3>1. Core(cut) = Where(cut, Kept)
      BY DEF Core, Kept
    <3> QED
      BY <3>1, <2>9, WhereType
  <2>21. Core(cut) = Core(line)
    BY <2>5, <2>18, <2>19, <2>20, <1>3, SeqEqual
  <2> QED
    BY <2>14, <2>21, ItemKinds
<1> QED
  BY <1>4, <1>5

\* The node of a line is spelled by the items its span covers.
LEMMA NodeIsWritten ==
  ASSUME NEW line, Lexed(line), NEW p, p = Parsed(line), p.expected = "none",
         NEW cut, cut = Items(line, p.from, p.to - 1)
  PROVE  /\ Spells(Core(cut), p.node) /\ Core(cut) = Core(line) /\ p.node \in Statement
         /\ {cut[1], cut[Len(cut)]} \cap {Space, Comment} = {}
<1>1. line \in Seq(Item) /\ Len(line) \in Nat
  BY LineItems
<1>2. PICK k \in {1, 2} : k = Skip(line, 1)
  BY <1>1, StartOf
<1>3. Declares(line, k) \/ Instructs(line, k)
  BY <1>2, ParsedShape DEF IsStatement
<1>4. CASE Declares(line, k)
  <2>1. PICK stmt : stmt = [op |-> "Label", label |-> line[k].spelling]
    OBVIOUS
  <2>2. p = Success(stmt, k, k + 2)
    BY <1>2, <1>4, <2>1, ParsedShape
  <2>3. p.node = stmt /\ p.from = k /\ p.to = k + 2
    BY <2>2, Contents
  <2>4. p.to - 1 = k + 1
    BY <2>3
  <2>5. Core(cut) = Core(line) /\ {cut[1], cut[Len(cut)]} \cap {Space, Comment} = {}
    BY <1>2, <1>4, <2>3, <2>4, CoreOfCut
  <2>6. Spells(Core(line), stmt) /\ stmt \in Statement
    BY <1>1, <1>2, <1>4, <2>1, DeclaredCore
  <2> QED
    BY <2>3, <2>5, <2>6
<1>5. CASE Instructs(line, k)
  <2>1. PICK op \in Keyword : op = line[k].tag
    BY <1>5 DEF Instructs, Operands
  <2>2. PICK len \in 1 .. 3 : len = Len(Args(op))
    BY ArgsKinds
  <2>3. PICK v : v = Values(line, k)
    OBVIOUS
  <2>4. p = Success(NodeOf(op, v), k, k + 2 * len + 1)
        /\ \A n \in 1 .. len : v[n] \in Readings(Args(op)[n], line[k + 2 * n])
    BY <1>2, <1>5, <2>1, <2>2, <2>3, ParsedShape
  <2>5. p.node = NodeOf(op, v) /\ p.from = k /\ p.to = k + 2 * len + 1
    BY <2>4, Contents
  <2>6. p.to - 1 = k + 2 * Len(Args(line[k].tag))
    BY <2>1, <2>2, <2>5
  <2>7. Core(cut) = Core(line) /\ {cut[1], cut[Len(cut)]} \cap {Space, Comment} = {}
    BY <1>2, <1>5, <2>5, <2>6, CoreOfCut
  <2>8. PICK c \in Seq(Kept) : c = Core(line)
    BY Places
  <2>9. /\ Instructive(c) /\ c[1] = line[k]
        /\ \A n \in 1 .. len : c[n + 1] = line[k + 2 * n]
    BY <1>1, <1>2, <1>5, <2>1, <2>2, <2>8, InstructedCore
  <2>10. op = c[1].tag /\ \A n \in 1 .. Len(Args(op)) : v[n] \in Readings(Args(op)[n], c[n + 1])
    BY <2>1, <2>2, <2>4, <2>9
  <2>11. Spells(c, NodeOf(op, v)) /\ NodeOf(op, v) \in Statement
    BY <2>9, <2>10, ReadIsSpelled
  <2> QED
    BY <2>5, <2>7, <2>8, <2>11
<1> QED
  BY <1>3, <1>4, <1>5

-------------------------------------------------------------------------------
(* The invariant of the parser                                                  *)

Taken(n) == ~ Blank(text[n]) /\ Parsed(text[n]).expected = "none"

Entry(n) == [value |-> Parsed(text[n]).node,
             span |-> FromRawSpan(n, Parsed(text[n]).from, Parsed(text[n]).to)]

Entries == {Entry(n) : n \in 1 .. Len(text)}

ParseTypeOK ==
  /\ text \in Texts
  /\ read \in 0 .. Len(text)
  /\ parsed \in Seq(Entries)

\* Each node is that of a line read, later ones are those of later lines, and each
\* line read has its node, unless it is blank.
ParsedIsRead ==
  /\ \A k \in 1 .. Len(parsed) : \E n \in 1 .. read : Taken(n) /\ parsed[k] = Entry(n)
  /\ \A k \in 2 .. Len(parsed) : parsed[k - 1].span.line < parsed[k].span.line
  /\ \A n \in 1 .. read :
       Blank(text[n]) \/ (Taken(n) /\ \E k \in 1 .. Len(parsed) : parsed[k] = Entry(n))

VerdictIsDue ==
  \/ syntax = "none" /\ fault.line = 1
  \/ syntax = "parsed" /\ read = Len(text) /\ parsed # <<>>
  \/ syntax = "program" /\ read = Len(text) /\ parsed = <<>> /\ fault.line = 1
  \/ /\ syntax \notin {"none", "parsed", "program"} /\ read < Len(text)
     /\ ~ Blank(text[read + 1]) /\ Parsed(text[read + 1]).expected = syntax
     /\ fault = [line |-> read + 1, at |-> Parsed(text[read + 1]).at]

ParseInv == ParseTypeOK /\ ParsedIsRead /\ VerdictIsDue

LEMMA LinesAreLexed ==
  ASSUME NEW t \in Texts
  PROVE  /\ t \in Seq(Seq(Item)) /\ Len(t) \in Nat /\ DOMAIN t = 1 .. Len(t)
         /\ \A n \in 1 .. Len(t) : Lexed(t[n])
<1>1. t \in Seq(Seq(Item)) /\ \A n \in DOMAIN t : Lexed(t[n])
  BY ParseAssumption
<1>2. Len(t) \in Nat /\ DOMAIN t = 1 .. Len(t)
  BY <1>1, LenProperties
<1> QED
  BY <1>1, <1>2

LEMMA EntryFields ==
  ASSUME NEW n
  PROVE  /\ Entry(n).span.line = n /\ Entry(n).value = Parsed(text[n]).node
         /\ Entry(n).span.from = Parsed(text[n]).from /\ Entry(n).span.to = Parsed(text[n]).to
BY DEF Entry, FromRawSpan

LEMMA InitParseInv == ParseInit => ParseInv
<1> SUFFICES ASSUME ParseInit PROVE ParseInv
  OBVIOUS
<1>1. text \in Texts /\ parsed = <<>> /\ read = 0 /\ syntax = "none" /\ fault.line = 1
  BY DEF ParseInit
<1>2. Len(text) \in Nat
  BY <1>1, LinesAreLexed
<1>3. ParseTypeOK
  <2>1. <<>> \in Seq(Entries)
    BY EmptySeq
  <2> QED
    BY <1>1, <1>2, <2>1 DEF ParseTypeOK
<1>4. ParsedIsRead
  <2>1. Len(parsed) = 0
    BY <1>1, EmptySeq
  <2> QED
    BY <1>1, <2>1 DEF ParsedIsRead
<1> QED
  BY <1>1, <1>3, <1>4 DEF ParseInv, VerdictIsDue

LEMMA SkipLineKeeps == ParseInv /\ SkipLine => ParseInv'
<1> SUFFICES ASSUME ParseInv, SkipLine PROVE ParseInv'
  OBVIOUS
<1>1. /\ read' = read + 1 /\ read < Len(text) /\ syntax = "none" /\ Blank(text[read + 1])
      /\ text' = text /\ parsed' = parsed /\ syntax' = syntax /\ fault' = fault
  BY DEF SkipLine, Line
<1>2. Len(text) \in Nat /\ read \in 0 .. Len(text)
  BY LinesAreLexed DEF ParseInv, ParseTypeOK
<1>3. ParseTypeOK'
  <2>1. Entries' = Entries
    BY <1>1 DEF Entry, Entries
  <2>2. read' \in 0 .. Len(text)
    BY <1>1, <1>2
  <2>3. parsed' \in Seq(Entries) /\ text' \in Texts
    BY <1>1 DEF ParseInv, ParseTypeOK
  <2> QED
    BY <1>1, <2>1, <2>2, <2>3 DEF ParseTypeOK
<1>4. ParsedIsRead'
  <2>1. \A n : Entry(n)' = Entry(n) /\ (Taken(n)' <=> Taken(n))
    BY <1>1 DEF Entry, Taken
  <2>2. ASSUME NEW k \in 1 .. Len(parsed)
        PROVE  \E n \in 1 .. read' : Taken(n) /\ parsed[k] = Entry(n)
    <3>1. PICK n \in 1 .. read : Taken(n) /\ parsed[k] = Entry(n)
      BY DEF ParseInv, ParsedIsRead
    <3>2. n \in 1 .. read'
      BY <3>1, <1>1, <1>2
    <3> QED
      BY <3>1, <3>2
  <2>3. ASSUME NEW n \in 1 .. read'
        PROVE  Blank(text[n]) \/ (Taken(n) /\ \E k \in 1 .. Len(parsed) : parsed[k] = Entry(n))
    <3>1. n = read + 1 \/ n \in 1 .. read
      BY <1>1, <1>2
    <3> QED
      BY <3>1, <1>1 DEF ParseInv, ParsedIsRead
  <2> QED
    BY <1>1, <2>1, <2>2, <2>3 DEF ParseInv, ParsedIsRead
<1> QED
  BY <1>1, <1>3, <1>4 DEF ParseInv, VerdictIsDue

LEMMA TakeLineKeeps ==
  ASSUME ParseInv, syntax = "none", read < Len(text), ~ Blank(Line),
         Parsed(Line).expected = "none",
         parsed' = Append(parsed, [value |-> Parsed(Line).node,
                     span |-> FromRawSpan(read + 1, Parsed(Line).from, Parsed(Line).to)]),
         read' = read + 1, UNCHANGED <<text, syntax, fault>>
  PROVE  ParseInv'
<1>1. /\ Len(text) \in Nat /\ read \in 0 .. Len(text)
      /\ text' = text /\ syntax' = syntax /\ fault' = fault
  BY LinesAreLexed DEF ParseInv, ParseTypeOK
<1>2. PICK T : T = Entries
  OBVIOUS
<1>3. PICK e : e = Entry(read + 1)
  OBVIOUS
<1>4. parsed \in Seq(T) /\ e \in T /\ Taken(read + 1)
  <2>1. read + 1 \in 1 .. Len(text)
    BY <1>1
  <2>2. e \in T
    BY <2>1, <1>2, <1>3 DEF Entries
  <2> QED
    BY <2>2, <1>2 DEF ParseInv, ParseTypeOK, Taken, Line
<1>5. parsed' = Append(parsed, e)
  BY <1>3 DEF Entry, Line
<1>6. PICK m \in Nat : m = Len(parsed)
  BY <1>4, LenProperties
<1>7. /\ parsed' \in Seq(T) /\ Len(parsed') = m + 1 /\ parsed'[m + 1] = e
      /\ \A k \in 1 .. m : parsed'[k] = parsed[k]
  BY <1>4, <1>5, <1>6, AppendProperties
<1>8. \A n : Entry(n)' = Entry(n) /\ (Taken(n)' <=> Taken(n))
  BY <1>1 DEF Entry, Taken
<1>9. ParseTypeOK'
  <2>1. Entries' = T
    BY <1>1, <1>2 DEF Entry, Entries
  <2>2. read' \in 0 .. Len(text')
    BY <1>1
  <2>3. text' \in Texts
    BY <1>1 DEF ParseInv, ParseTypeOK
  <2> QED
    BY <1>7, <2>1, <2>2, <2>3 DEF ParseTypeOK
<1>10. ASSUME NEW k \in 1 .. m + 1
       PROVE  \E n \in 1 .. read + 1 : Taken(n) /\ parsed'[k] = Entry(n)
  <2>1. CASE k = m + 1
    BY <2>1, <1>1, <1>3, <1>4, <1>7
  <2>2. CASE k \in 1 .. m
    <3>1. PICK n \in 1 .. read : Taken(n) /\ parsed[k] = Entry(n)
      BY <2>2, <1>6 DEF ParseInv, ParsedIsRead
    <3> QED
      BY <3>1, <2>2, <1>1, <1>7
  <2> QED
    BY <2>1, <2>2, <1>6
<1>11. ASSUME NEW k \in 2 .. m + 1 PROVE parsed'[k - 1].span.line < parsed'[k].span.line
  <2>1. k - 1 \in 1 .. m
    BY <1>6
  <2>2. parsed'[k - 1] = parsed[k - 1]
    BY <2>1, <1>7
  <2>3. CASE k = m + 1
    <3>1. PICK n \in 1 .. read : parsed[k - 1] = Entry(n)
      BY <2>1, <1>6 DEF ParseInv, ParsedIsRead
    <3>2. parsed'[k - 1].span.line = n /\ parsed'[k].span.line = read + 1
      BY <2>2, <2>3, <3>1, <1>3, <1>7, EntryFields
    <3>3. n < read + 1
      BY <3>1, <1>1
    <3> QED
      BY <3>2, <3>3, Zenon
  <2>4. CASE k \in 2 .. m
    BY <2>2, <2>4, <1>6, <1>7 DEF ParseInv, ParsedIsRead
  <2> QED
    BY <2>3, <2>4, <1>6
<1>12. ASSUME NEW n \in 1 .. read + 1
       PROVE  \/ Blank(text[n])
              \/ Taken(n) /\ \E k \in 1 .. m + 1 : parsed'[k] = Entry(n)
  <2>3. n = read + 1 \/ n \in 1 .. read
    BY <1>1
  <2>1. CASE n = read + 1
    <3>1. m + 1 \in 1 .. m + 1
      BY <1>6
    <3> QED
      BY <2>1, <3>1, <1>3, <1>4, <1>7
  <2>2. CASE n \in 1 .. read /\ ~ Blank(text[n])
    <3>1. Taken(n) /\ \E k \in 1 .. m : parsed[k] = Entry(n)
      BY <2>2, <1>6 DEF ParseInv, ParsedIsRead
    <3>2. PICK k \in 1 .. m : parsed[k] = Entry(n)
      BY <3>1
    <3>3. k \in 1 .. m + 1 /\ parsed'[k] = Entry(n)
      BY <3>2, <1>6, <1>7
    <3> QED
      BY <3>1, <3>3
  <2> QED
    BY <2>1, <2>2, <2>3
<1>13. ParsedIsRead'
  BY <1>1, <1>7, <1>8, <1>10, <1>11, <1>12 DEF ParsedIsRead
<1>14. VerdictIsDue'
  BY <1>1 DEF ParseInv, VerdictIsDue
<1> QED
  BY <1>9, <1>13, <1>14 DEF ParseInv

\* A step that leaves the text and what is read of it alone.
LEMMA ReadKept ==
  ASSUME ParseInv, text' = text, parsed' = parsed, read' = read
  PROVE  ParseTypeOK' /\ ParsedIsRead'
<1>1. \A n : Entry(n)' = Entry(n) /\ (Taken(n)' <=> Taken(n))
  BY DEF Entry, Taken
<1>2. Entries' = Entries
  BY DEF Entry, Entries
<1>3. ParseTypeOK'
  BY <1>2 DEF ParseInv, ParseTypeOK
<1>4. ParsedIsRead'
  BY <1>1 DEF ParseInv, ParsedIsRead
<1> QED
  BY <1>3, <1>4

LEMMA RefuseLineKeeps ==
  ASSUME ParseInv, syntax = "none", read < Len(text), ~ Blank(Line),
         Parsed(Line).expected # "none", syntax' = Parsed(Line).expected,
         fault' = [line |-> read + 1, at |-> Parsed(Line).at],
         UNCHANGED <<text, parsed, read>>
  PROVE  ParseInv'
<1>1. ParseTypeOK' /\ ParsedIsRead'
  BY ReadKept
<1>2. PICK line : line = text[read + 1]
  OBVIOUS
<1>3. Lexed(line)
  <2>1. read + 1 \in 1 .. Len(text)
    BY LinesAreLexed DEF ParseInv, ParseTypeOK
  <2> QED
    BY <1>2, <2>1, LinesAreLexed DEF ParseInv, ParseTypeOK
<1>4. Parsed(line).expected \notin {"none", "parsed", "program"}
  <2>1. PICK k : k = Skip(line, 1)
    OBVIOUS
  <2>2. Parsed(line).expected \in {"none", "statement", EndOfStatement} \cup Kind
    BY <1>3, <2>1, ParsedShape
  <2>3. Parsed(line).expected # "none"
    BY <1>2 DEF Line
  <2> QED
    BY <2>2, <2>3, Strings
<1>5. VerdictIsDue'
  BY <1>2, <1>4 DEF VerdictIsDue, Line
<1> QED
  BY <1>1, <1>5 DEF ParseInv

LEMMA ParseLineKeeps == ParseInv /\ ParseLine => ParseInv'
<1> SUFFICES ASSUME ParseInv, ParseLine PROVE ParseInv'
  OBVIOUS
<1>1. CASE Parsed(Line).expected = "none"
  BY <1>1, TakeLineKeeps DEF ParseLine
<1>2. CASE Parsed(Line).expected # "none"
  BY <1>2, RefuseLineKeeps DEF ParseLine
<1> QED
  BY <1>1, <1>2

LEMMA EndOfTextKeeps == ParseInv /\ EndOfText => ParseInv'
<1> SUFFICES ASSUME ParseInv, EndOfText PROVE ParseInv'
  OBVIOUS
<1>1. ParseTypeOK' /\ ParsedIsRead'
  BY ReadKept DEF EndOfText
<1>2. VerdictIsDue'
  BY DEF EndOfText, ParseInv, VerdictIsDue
<1> QED
  BY <1>1, <1>2 DEF ParseInv

LEMMA ParseKept == ParseSpec => []ParseInv
<1>1. ASSUME ParseInv, UNCHANGED parseVars PROVE ParseInv'
  <2>1. text' = text /\ parsed' = parsed /\ read' = read /\ syntax' = syntax /\ fault' = fault
    BY <1>1 DEF parseVars
  <2>2. ParseTypeOK' /\ ParsedIsRead'
    BY <1>1, <2>1, ReadKept
  <2> QED
    BY <1>1, <2>1, <2>2 DEF ParseInv, VerdictIsDue
<1>2. ParseInv /\ [ParseNext]_parseVars => ParseInv'
  BY <1>1, SkipLineKeeps, ParseLineKeeps, EndOfTextKeeps DEF ParseNext
<1> QED
  BY InitParseInv, <1>2, PTL DEF ParseSpec

-------------------------------------------------------------------------------
(* What follows from it                                                         *)

LEMMA WrittenIsNotBlank ==
  ASSUME ParseInv
  PROVE  /\ WrittenLines = {n \in 1 .. Len(text) : ~ Blank(text[n])}
         /\ \A n \in 1 .. Len(text) : Lexed(text[n])
<1>1. DOMAIN text = 1 .. Len(text) /\ \A n \in 1 .. Len(text) : Lexed(text[n])
  BY LinesAreLexed DEF ParseInv, ParseTypeOK
<1>2. \A n \in 1 .. Len(text) : Blank(text[n]) <=> Core(text[n]) = <<>>
  BY <1>1, BlankLine
<1> QED
  BY <1>1, <1>2 DEF WrittenLines

LEMMA NodesAreWritten == ParseInv => ParsesWhatIsWritten
<1> SUFFICES ASSUME ParseInv PROVE ParsesWhatIsWritten
  OBVIOUS
<1>1. Len(text) \in Nat /\ read \in 0 .. Len(text)
  BY LinesAreLexed DEF ParseInv, ParseTypeOK
<1>2. DOMAIN parsed = 1 .. Len(parsed) /\ Len(parsed) \in Nat
  BY LenProperties DEF ParseInv, ParseTypeOK
<1>3. ASSUME NEW k \in 1 .. Len(parsed), NEW span, span = parsed[k].span,
             NEW covered, covered = Items(text[span.line], span.from, span.to - 1)
      PROVE  /\ Spells(Core(covered), parsed[k].value)
             /\ Core(covered) = Core(text[span.line])
             /\ {covered[1], covered[Len(covered)]} \cap {Space, Comment} = {}
             /\ k > 1 => parsed[k - 1].span.line < span.line
  <2>1. PICK n \in 1 .. read : Taken(n) /\ parsed[k] = Entry(n)
    BY DEF ParseInv, ParsedIsRead
  <2>2. PICK line : line = text[n]
    OBVIOUS
  <2>3. PICK p : p = Parsed(line)
    OBVIOUS
  <2>4. Lexed(line) /\ p.expected = "none"
    <3>1. n \in 1 .. Len(text)
      BY <1>1
    <3> QED
      BY <2>1, <2>2, <2>3, <3>1, WrittenIsNotBlank DEF Taken
  <2>5. span.line = n /\ span.from = p.from /\ span.to = p.to /\ parsed[k].value = p.node
    BY <1>3, <2>1, <2>2, <2>3, EntryFields
  <2>6. covered = Items(line, p.from, p.to - 1) /\ text[span.line] = line
    BY <1>3, <2>2, <2>5
  <2>7. /\ Spells(Core(covered), p.node) /\ Core(covered) = Core(line)
        /\ {covered[1], covered[Len(covered)]} \cap {Space, Comment} = {}
    BY <2>3, <2>4, <2>6, NodeIsWritten
  <2>8. k > 1 => parsed[k - 1].span.line < span.line
    <3>1. k > 1 => k \in 2 .. Len(parsed)
      BY <1>2
    <3> QED
      BY <3>1, <1>3 DEF ParseInv, ParsedIsRead
  <2> QED
    BY <2>5, <2>6, <2>7, <2>8
<1>4. {parsed[k].span.line : k \in DOMAIN parsed} = {n \in WrittenLines : n <= read}
  <2>1. WrittenLines = {n \in 1 .. Len(text) : ~ Blank(text[n])}
    BY WrittenIsNotBlank
  <2>2. ASSUME NEW k \in DOMAIN parsed
        PROVE  parsed[k].span.line \in {n \in WrittenLines : n <= read}
    <3>1. PICK n \in 1 .. read : Taken(n) /\ parsed[k] = Entry(n)
      BY <1>2 DEF ParseInv, ParsedIsRead
    <3>2. parsed[k].span.line = n
      BY <3>1, EntryFields
    <3>3. n \in 1 .. Len(text) /\ n <= read /\ ~ Blank(text[n])
      BY <3>1, <1>1 DEF Taken
    <3> QED
      BY <2>1, <3>2, <3>3
  <2>3. ASSUME NEW n \in WrittenLines, n <= read
        PROVE  \E k \in DOMAIN parsed : parsed[k].span.line = n
    <3>1. n \in 1 .. read /\ ~ Blank(text[n])
      BY <2>1, <2>3, <1>1
    <3>2. PICK k \in 1 .. Len(parsed) : parsed[k] = Entry(n)
      BY <3>1 DEF ParseInv, ParsedIsRead
    <3> QED
      BY <3>2, <1>2, EntryFields
  <2> QED
    BY <2>2, <2>3
<1>5. \A k \in DOMAIN parsed :
        LET span == parsed[k].span
            covered == SubSeq(text[span.line], span.from, span.to - 1)
        IN  /\ Spells(Core(covered), parsed[k].value)
            /\ Core(covered) = Core(text[span.line])
            /\ {covered[1], covered[Len(covered)]} \cap {Space, Comment} = {}
            /\ k > 1 => parsed[k - 1].span.line < span.line
  <2> SUFFICES ASSUME NEW k \in 1 .. Len(parsed)
               PROVE
        LET span == parsed[k].span
            covered == Items(text[span.line], span.from, span.to - 1)
        IN  /\ Spells(Core(covered), parsed[k].value)
            /\ Core(covered) = Core(text[span.line])
            /\ {covered[1], covered[Len(covered)]} \cap {Space, Comment} = {}
            /\ k > 1 => parsed[k - 1].span.line < span.line
    BY <1>2, Zenon DEF Items
  <2> QED
    BY <1>3, Zenon
<1> QED
  BY <1>4, <1>5, Zenon DEF ParsesWhatIsWritten

LEMMA RefusalsAreRight == ParseInv => RefusesTheFirstFault
<1> SUFFICES ASSUME ParseInv PROVE RefusesTheFirstFault
  OBVIOUS
<1>1. Len(text) \in Nat /\ read \in 0 .. Len(text)
  BY LinesAreLexed DEF ParseInv, ParseTypeOK
<1>2. /\ WrittenLines = {n \in 1 .. Len(text) : ~ Blank(text[n])}
      /\ \A n \in 1 .. Len(text) : Lexed(text[n])
  BY WrittenIsNotBlank
<1>3. ASSUME NEW n \in 1 .. Len(text)
      PROVE  Grammatical(text[n]) <=> Parsed(text[n]).expected = "none"
  <2>1. PICK line : line = text[n]
    OBVIOUS
  <2>2. Lexed(line)
    BY <1>2, <2>1
  <2>3. PICK k : k = Skip(line, 1)
    OBVIOUS
  <2>4. Parsed(line).expected = "none" <=> IsStatement(line)
    BY <2>2, <2>3, ParsedShape
  <2>5. Grammatical(line) <=> IsStatement(line)
    BY <2>2, GrammarIsForm
  <2> QED
    BY <2>1, <2>4, <2>5
<1>4. \A n \in WrittenLines : n <= read => Grammatical(text[n])
  <2> SUFFICES ASSUME NEW n \in WrittenLines, n <= read PROVE Grammatical(text[n])
    OBVIOUS
  <2>1. n \in 1 .. read /\ n \in 1 .. Len(text) /\ ~ Blank(text[n])
    BY <1>1, <1>2
  <2>2. Taken(n)
    BY <2>1 DEF ParseInv, ParsedIsRead
  <2> QED
    BY <2>1, <2>2, <1>3 DEF Taken
<1>5. parsed = <<>> <=> {n \in WrittenLines : n <= read} = {}
  <2>1. DOMAIN parsed = 1 .. Len(parsed) /\ Len(parsed) \in Nat
    BY LenProperties DEF ParseInv, ParseTypeOK
  <2>2. parsed = <<>> <=> Len(parsed) = 0
    BY EmptySeq DEF ParseInv, ParseTypeOK
  <2>3. {parsed[k].span.line : k \in DOMAIN parsed} = {n \in WrittenLines : n <= read}
    BY NodesAreWritten, Zenon DEF ParsesWhatIsWritten
  <2>4. Len(parsed) = 0 <=> DOMAIN parsed = {}
    BY <2>1
  <2> QED
    BY <2>2, <2>3, <2>4
<1>6. read = Len(text) => {n \in WrittenLines : n <= read} = WrittenLines
  BY <1>1, <1>2
<1>7. syntax = "program" <=> read = Len(text) /\ WrittenLines = {} /\ syntax # "none"
  BY <1>1, <1>5, <1>6 DEF ParseInv, VerdictIsDue
<1>8. ASSUME syntax \notin {"none", "parsed", "program"}
      PROVE  read + 1 \in WrittenLines /\ ~ Grammatical(text[read + 1])
  <2>1. /\ read < Len(text) /\ ~ Blank(text[read + 1])
        /\ Parsed(text[read + 1]).expected # "none"
    BY <1>8 DEF ParseInv, VerdictIsDue
  <2>2. read + 1 \in 1 .. Len(text)
    BY <2>1, <1>1
  <2> QED
    BY <2>1, <2>2, <1>2, <1>3
<1> QED
  BY <1>4, <1>7, <1>8 DEF RefusesTheFirstFault

-------------------------------------------------------------------------------
(* How a line that is cut off can go on                                         *)

Added(kinds) == [n \in 1 .. 2 * Len(kinds) |->
                   IF n % 2 = 1 THEN Space ELSE Sample(kinds[n \div 2])]

AnyWord == [kind |-> "word", tag |-> "RZR", rest |-> "none", number |-> 0, zeros |-> FALSE,
            spelling |-> CHOOSE l \in Label : TRUE]

\* There is a word of each kind, and one of a register is a value as well.
LEMMA Samples ==
  ASSUME Label # {}
  PROVE  /\ \A kind \in Kind : Sample(kind) \in Word /\ Readings(kind, Sample(kind)) # {}
         /\ Readings("value", Sample(AnyRegister)) # {}
<1>1. /\ Sample(AnyRegister) = AnyWord /\ Sample("value") = AnyWord
      /\ Sample(AnyStack) = [AnyWord EXCEPT !.tag = "S", !.rest = "digits"]
      /\ Sample("label") = [AnyWord EXCEPT !.tag = "letters"]
  BY Zenon DEF Sample, AnyWord, AnyRegister, AnyStack
<1>2. AnyWord \in Word /\ AnyWord.tag = "RZR" /\ AnyWord.rest = "none"
  <2>1. (CHOOSE l \in Label : TRUE) \in Label
    OBVIOUS
  <2>2. "RZR" \in Tag /\ "none" \in Rest
    BY DEF Tag, Rest
  <2> QED
    BY <2>1, <2>2 DEF AnyWord, Word
<1>3. PICK s : s = [AnyWord EXCEPT !.tag = "S", !.rest = "digits"]
  OBVIOUS
<1>4. s \in Word /\ s.tag = "S" /\ s.rest = "digits" /\ s.number = 0 /\ s.zeros = FALSE
  <2>1. "S" \in Tag /\ "digits" \in Rest
    BY DEF Tag, Rest
  <2> QED
    BY <1>2, <1>3, <2>1 DEF AnyWord, Word
<1>5. PICK l : l = [AnyWord EXCEPT !.tag = "letters"]
  OBVIOUS
<1>6. l \in Word /\ l.tag = "letters" /\ l.rest = "none"
  <2>1. "letters" \in Tag
    BY DEF Tag
  <2> QED
    BY <1>2, <1>5, <2>1 DEF AnyWord, Word
<1>7. Readings(AnyRegister, AnyWord) # {}
  <2>1. AsRegister(AnyWord) # {}
    BY <1>2 DEF AsRegister
  <2> QED
    BY <2>1, ReadingsOf
<1>8. Readings("value", AnyWord) # {}
  <2>1. SpellsRegister(AnyWord, [kind |-> "Null"])
    BY <1>2 DEF SpellsRegister
  <2>2. SpellsValue(AnyWord, [kind |-> "Register", reg |-> [kind |-> "Null"]])
    BY <2>1 DEF SpellsValue
  <2> QED
    BY <1>2, <2>2, SpelledWord
<1>9. Readings(AnyStack, s) # {}
  <2>1. SpellsIndex(s, "S", 0)
    BY <1>4, ParseAssumption DEF SpellsIndex
  <2> QED
    BY <1>4, <2>1, SpelledWord
<1>10. Readings("label", l) # {}
  <2>1. SpellsLabel(l, l.spelling)
    BY <1>6 DEF SpellsLabel
  <2> QED
    BY <1>6, <2>1, SpelledWord
<1> QED
  BY <1>1, <1>2, <1>3, <1>4, <1>5, <1>6, <1>7, <1>8, <1>9, <1>10 DEF Kind

LEMMA TailItems ==
  ASSUME NEW kinds \in Seq(Kind), Label # {}
  PROVE  /\ Added(kinds) \in Seq(Item) /\ Len(Added(kinds)) = 2 * Len(kinds)
         /\ \A u \in 1 .. Len(kinds) : /\ Added(kinds)[2 * u - 1] = Space
                                       /\ Added(kinds)[2 * u] = Sample(kinds[u])
         /\ \A n \in 1 .. 2 * Len(kinds) :
              IF n % 2 = 1 THEN Added(kinds)[n] = Space ELSE Added(kinds)[n] \in Word
<1>1. PICK m \in Nat : m = Len(kinds)
  BY LenProperties
<1>2. PICK t : t = Added(kinds)
  OBVIOUS
<1>3. \A n \in 1 .. 2 * m : t[n] = IF n % 2 = 1 THEN Space ELSE Sample(kinds[n \div 2])
  BY <1>1, <1>2 DEF Added
<1>4. ASSUME NEW n \in 1 .. 2 * m PROVE IF n % 2 = 1 THEN t[n] = Space ELSE t[n] \in Word
  <2>1. CASE n % 2 = 1
    BY <2>1, <1>3
  <2>2. CASE n % 2 # 1
    <3>1. n \div 2 \in 1 .. m
      BY <2>2, <1>1
    <3>2. kinds[n \div 2] \in Kind
      BY <3>1, <1>1, ElementOfSeq
    <3>3. t[n] = Sample(kinds[n \div 2])
      BY <2>2, <1>3
    <3> QED
      BY <2>2, <3>2, <3>3, Samples
  <2> QED
    BY <2>1, <2>2
<1>5. \A n \in 1 .. 2 * m : t[n] \in Item
  BY <1>4 DEF Item
<1>6. t \in [1 .. 2 * m -> Item]
  BY <1>1, <1>2, <1>5 DEF Added
<1>7. t \in Seq(Item) /\ Len(t) = 2 * m
  <2>1. 2 * m \in Nat
    BY <1>1
  <2> QED
    BY <1>6, <2>1, LenProperties, SeqDef
<1>8. ASSUME NEW u \in 1 .. m PROVE t[2 * u - 1] = Space /\ t[2 * u] = Sample(kinds[u])
  <2>1. /\ 2 * u - 1 \in 1 .. 2 * m /\ 2 * u \in 1 .. 2 * m
        /\ (2 * u - 1) % 2 = 1 /\ (2 * u) % 2 # 1 /\ (2 * u) \div 2 = u
    BY <1>1
  <2> QED
    BY <2>1, <1>3
<1> QED
  BY <1>1, <1>2, <1>4, <1>7, <1>8

\* A beginning of a line, without the space it may end in.
LEMMA Prefix ==
  ASSUME NEW line, Lexed(line), NEW b \in 0 .. Len(line), NEW p, p = Items(line, 1, b)
  PROVE  /\ Lexed(p) /\ Len(p) = b /\ \A u \in 1 .. b : p[u] = line[u]
         /\ b < Len(line) => \A u \in 1 .. b : p[u] # Comment
<1>1. line \in Seq(Item) /\ Len(line) \in Nat
  BY LineItems
<1>2. PICK one \in Int : one = 1
  OBVIOUS
<1>3. PICK d \in Int : d = b
  OBVIOUS
<1>4. \A u \in one .. d : line[u] \in Item
  BY <1>1, <1>2, <1>3, LineItems
<1>5. /\ Items(line, one, d) \in Seq(Item)
      /\ Len(Items(line, one, d)) = IF one <= d THEN d - one + 1 ELSE 0
      /\ \A u \in 1 .. d - one + 1 : Items(line, one, d)[u] = line[one + u - 1]
  BY <1>4, SubSeqProperties DEF Items
<1>6. p = Items(line, one, d)
  BY <1>2, <1>3
<1>7. p \in Seq(Item)
  BY <1>5, <1>6
<1>8. Len(p) = b
  BY <1>2, <1>3, <1>5, <1>6
<1>9. \A u \in 1 .. b : p[u] = line[u]
  <2>1. \A u \in 1 .. b : u \in 1 .. d - one + 1 /\ one + u - 1 = u
    BY <1>2, <1>3
  <2> QED
    BY <2>1, <1>5, <1>6
<1>10. ASSUME NEW u \in 1 .. b, u < Len(line) PROVE u \in 1 .. Len(line) - 1 /\ p[u] # Comment
  <2>1. u \in 1 .. Len(line) - 1
    BY <1>1, <1>10
  <2>2. line[u] # Comment
    BY <2>1, LineItems
  <2> QED
    BY <2>1, <2>2, <1>9
<1>11. Lexed(p)
  <2> SUFFICES ASSUME NEW u \in 1 .. b - 1
               PROVE  /\ p[u] # Comment
                      /\ p[u] \in Word => p[u + 1] \notin Word
                      /\ p[u] = Space => p[u + 1] # Space
    BY <1>7, <1>8 DEF Lexed
  <2>1. u \in 1 .. b /\ u + 1 \in 1 .. b /\ u \in 1 .. Len(line) - 1
    BY <1>1
  <2> QED
    BY <2>1, <1>1, <1>9, LineItems
<1> QED
  BY <1>1, <1>8, <1>9, <1>10, <1>11

Trim(line, b) == IF b >= 1 /\ line[b] = Space THEN b - 1 ELSE b

LEMMA UnspacedPrefix ==
  ASSUME NEW line, Lexed(line), NEW b \in 0 .. Len(line)
  PROVE  /\ Unspaced(Items(line, 1, b)) = Items(line, 1, Trim(line, b))
         /\ Trim(line, b) \in 0 .. b
         /\ Trim(line, b) >= 1 => line[Trim(line, b)] # Space
<1>1. line \in Seq(Item) /\ Len(line) \in Nat
  BY LineItems
<1>2. PICK p : p = Items(line, 1, b)
  OBVIOUS
<1>3. Lexed(p) /\ Len(p) = b /\ \A u \in 1 .. b : p[u] = line[u]
  BY <1>2, Prefix
<1>4. p \in Seq(Item)
  BY <1>3, LineItems
<1>5. CASE b = 0
  <2>1. p = <<>>
    BY <1>3, <1>4, <1>5, EmptySeq
  <2>2. Unspaced(p) = p
    BY <2>1 DEF Unspaced
  <2> QED
    BY <2>2, <1>2, <1>5 DEF Trim
<1>6. CASE b >= 1
  <2>1. p # <<>> /\ p[Len(p)] = line[b]
    BY <1>3, <1>4, <1>6, EmptySeq
  <2>2. CASE line[b] = Space
    <3>1. Trim(line, b) = b - 1 /\ b - 1 \in 0 .. Len(line) /\ b - 1 \in 0 .. Len(p)
      BY <2>2, <1>1, <1>3, <1>6 DEF Trim
    <3>2. PICK c \in 0 .. Len(line) : c = b - 1
      BY <3>1
    <3>3. Unspaced(p) = Items(p, 1, c)
      BY <2>1, <2>2, <1>3, <3>2, Zenon DEF Unspaced, Items
    <3>4. PICK q : q = Items(p, 1, c)
      OBVIOUS
    <3>5. c \in 0 .. Len(p) /\ c < Len(p)
      BY <3>1, <3>2, <1>3, <1>6
    <3>6. Lexed(q) /\ Len(q) = c /\ \A u \in 1 .. c : q[u] = p[u]
      BY <3>4, <3>5, <1>3, Prefix
    <3>7. PICK r : r = Items(line, 1, c)
      OBVIOUS
    <3>8. Lexed(r) /\ Len(r) = c /\ \A u \in 1 .. c : r[u] = line[u]
      BY <3>7, Prefix
    <3>9. \A u \in 1 .. c : q[u] = r[u]
      BY <3>2, <3>6, <3>8, <1>3, <1>6
    <3>10. q \in Seq(Item) /\ r \in Seq(Item)
      BY <3>6, <3>8, LineItems
    <3>11. q = r
      BY <3>6, <3>8, <3>9, <3>10, SeqEqual
    <3>12. c >= 1 => line[c] # Space
      <4>1. c >= 1 => c \in 1 .. Len(line) - 1 /\ c + 1 = b
        BY <3>2, <1>1
      <4> QED
        BY <4>1, <2>2, LineItems
    <3> QED
      BY <1>2, <3>1, <3>2, <3>3, <3>4, <3>7, <3>11, <3>12
  <2>3. CASE line[b] # Space
    <3>1. Unspaced(p) = p
      BY <2>1, <2>3 DEF Unspaced
    <3>2. Trim(line, b) = b
      BY <2>3 DEF Trim
    <3> QED
      BY <3>1, <3>2, <2>3, <1>2
  <2> QED
    BY <2>2, <2>3
<1> QED
  BY <1>5, <1>6

LEMMA Parity == ASSUME NEW n \in Nat PROVE (n + 1) % 2 = 1 <=> n % 2 # 1
OBVIOUS

\* The line that begins with the a items of start and goes on with m words.
IsExtension(ext, start, a, kinds, m) ==
  /\ Lexed(ext) /\ Len(ext) = a + 2 * m
  /\ \A u \in 1 .. a : ext[u] = start[u]
  /\ \A u \in 1 .. m : ext[a + 2 * u - 1] = Space /\ ext[a + 2 * u] = Sample(kinds[u])

LEMMA Extended ==
  ASSUME NEW start, Lexed(start), Len(start) >= 1, start[Len(start)] # Space,
         \A u \in 1 .. Len(start) : start[u] # Comment,
         NEW a \in Nat \ {0}, a = Len(start), NEW kinds \in Seq(Kind), NEW m \in Nat,
         m = Len(kinds), Label # {}, NEW ext, ext = start \o Added(kinds)
  PROVE  IsExtension(ext, start, a, kinds, m)
<1>1. start \in Seq(Item)
  BY LineItems
<1>2. a \in Nat \ {0} /\ a = Len(start)
  OBVIOUS
<1>3. m \in Nat /\ m = Len(kinds)
  OBVIOUS
<1>4. PICK t : t = Added(kinds)
  OBVIOUS
<1>5. t \in Seq(Item) /\ Len(t) = 2 * m
  BY <1>3, <1>4, TailItems
<1>6. \A u \in 1 .. m : t[2 * u - 1] = Space /\ t[2 * u] = Sample(kinds[u])
  BY <1>3, <1>4, TailItems
<1>7. \A n \in 1 .. 2 * m : IF n % 2 = 1 THEN t[n] = Space ELSE t[n] \in Word
  BY <1>3, <1>4, TailItems
<1>8. ext \in Seq(Item) /\ Len(ext) = Len(start) + Len(t)
  BY <1>1, <1>4, <1>5, ConcatProperties
<1>9. \A u \in 1 .. Len(start) + Len(t) :
        ext[u] = IF u <= Len(start) THEN start[u] ELSE t[u - Len(start)]
  BY <1>1, <1>4, <1>5, ConcatProperties
<1>10. Len(ext) = a + 2 * m
  BY <1>2, <1>5, <1>8
<1>11. \A u \in 1 .. a + 2 * m : ext[u] = IF u <= a THEN start[u] ELSE t[u - a]
  BY <1>2, <1>5, <1>9
<1>12. \A u \in 1 .. a : ext[u] = start[u]
  <2> SUFFICES ASSUME NEW u \in 1 .. a PROVE ext[u] = start[u]
    OBVIOUS
  <2>1. u \in 1 .. a + 2 * m /\ u <= a
    BY <1>3
  <2> QED
    BY <2>1, <1>11
<1>13. \A n \in 1 .. 2 * m : ext[a + n] = t[n]
  <2> SUFFICES ASSUME NEW n \in 1 .. 2 * m PROVE ext[a + n] = t[n]
    OBVIOUS
  <2>1. a + n \in 1 .. a + 2 * m /\ ~ (a + n <= a) /\ (a + n) - a = n
    BY <1>3
  <2> QED
    BY <2>1, <1>11
<1>14. ASSUME NEW u \in 1 .. m
       PROVE  ext[a + 2 * u - 1] = Space /\ ext[a + 2 * u] = Sample(kinds[u])
  <2>1. 2 * u - 1 \in 1 .. 2 * m /\ 2 * u \in 1 .. 2 * m
    BY <1>3
  <2>2. ext[a + (2 * u - 1)] = t[2 * u - 1] /\ ext[a + 2 * u] = t[2 * u]
    BY <2>1, <1>13
  <2>3. a + (2 * u - 1) = a + 2 * u - 1
    OBVIOUS
  <2> QED
    BY <2>2, <2>3, <1>6
<1>15. ASSUME NEW u \in 1 .. a + 2 * m - 1
       PROVE  /\ ext[u] # Comment
              /\ ext[u] \in Word => ext[u + 1] \notin Word
              /\ ext[u] = Space => ext[u + 1] # Space
  <2>1. CASE u < a
    <3>1. u \in 1 .. Len(start) - 1 /\ u \in 1 .. a /\ u + 1 \in 1 .. a
      BY <2>1, <1>2
    <3> QED
      BY <3>1, <1>12, LineItems
  <2>2. CASE u = a
    <3>1. 1 \in 1 .. 2 * m /\ 1 % 2 = 1
      BY <2>2, <1>3
    <3>2. ext[u + 1] = Space
      BY <3>1, <2>2, <1>7, <1>13
    <3>3. ext[u] = start[a] /\ start[a] # Space /\ start[a] # Comment
      BY <2>2, <1>2, <1>12
    <3> QED
      BY <3>2, <3>3, ItemKinds
  <2>3. CASE u > a
    <3>1. PICK n \in 1 .. 2 * m - 1 : u = a + n
      <4>1. u - a \in 1 .. 2 * m - 1 /\ u = a + (u - a)
        BY <2>3, <1>3
      <4> QED
        BY <4>1
    <3>2. n \in 1 .. 2 * m /\ n + 1 \in 1 .. 2 * m /\ u + 1 = a + (n + 1)
      BY <3>1, <1>3
    <3>3. ext[u] = t[n] /\ ext[u + 1] = t[n + 1]
      BY <3>1, <3>2, <1>13
    <3>6. n \in Nat
      BY <3>2, <1>3
    <3>4. CASE n % 2 = 1
      <4>1. (n + 1) % 2 # 1
        BY <3>4, <3>6, Parity
      <4>2. t[n] = Space /\ t[n + 1] \in Word
        BY <3>2, <3>4, <4>1, <1>7
      <4> QED
        BY <4>2, <3>3, ItemKinds
    <3>5. CASE n % 2 # 1
      <4>1. (n + 1) % 2 = 1
        BY <3>5, <3>6, Parity
      <4>2. t[n] \in Word /\ t[n + 1] = Space
        BY <3>2, <3>5, <4>1, <1>7
      <4> QED
        BY <4>2, <3>3, ItemKinds
    <3> QED
      BY <3>4, <3>5
  <2>4. u < a \/ u = a \/ u > a
    BY <1>3
  <2> QED
    BY <2>1, <2>2, <2>3, <2>4
<1>16. Lexed(ext)
  <2>1. \A u \in 1 .. Len(ext) - 1 :
          /\ ext[u] # Comment
          /\ ext[u] \in Word => ext[u + 1] \notin Word
          /\ ext[u] = Space => ext[u + 1] # Space
    <3>1. Len(ext) - 1 = a + 2 * m - 1
      BY <1>10
    <3> QED
      BY <3>1, <1>15, Zenon
  <2> QED
    BY <2>1, <1>8 DEF Lexed
<1> QED
  BY <1>2, <1>3, <1>10, <1>12, <1>14, <1>16 DEF IsExtension

\* Going on in the language is going on with what the parser reads.
LEMMA FurtherKinds ==
  /\ Kinds = {AnyRegister, AnyStack, "label"} /\ Kinds \subseteq Kind
  /\ \A more \in FurtherArguments : more \in Seq(Kind)
  /\ <<>> \in FurtherArguments
  /\ \A a \in Kinds : <<a>> \in FurtherArguments
  /\ \A a, b \in Kinds : <<a, b>> \in FurtherArguments
<1>1. Kinds = {AnyRegister, AnyStack, "label"}
  BY Zenon DEF Kinds, AnyRegister, AnyStack
<1>2. Kinds \subseteq Kind
  BY <1>1 DEF Kind
<1>3. ASSUME NEW more \in FurtherArguments PROVE more \in Seq(Kind)
  <2>1. \/ more = <<>>
        \/ \E a \in Kinds : more = <<a>>
        \/ \E a, b \in Kinds : more = <<a, b>>
    BY DEF FurtherArguments
  <2>2. \A a, b \in Kind : <<a>> \in Seq(Kind) /\ <<a, b>> \in Seq(Kind)
    BY SmallTuples
  <2>3. <<>> \in Seq(Kind)
    BY EmptySeq
  <2> QED
    BY <2>1, <2>2, <2>3, <1>2
<1>4. /\ <<>> \in FurtherArguments
      /\ \A a \in Kinds : <<a>> \in FurtherArguments
      /\ \A a, b \in Kinds : <<a, b>> \in FurtherArguments
  BY DEF FurtherArguments
<1> QED
  BY <1>1, <1>2, <1>3, <1>4

\* The kind of a word that serves as an argument of this kind.
Stand(kind) == IF kind = "value" THEN AnyRegister ELSE kind

LEMMA Stands ==
  ASSUME Label # {}, NEW kind \in Kind
  PROVE  /\ Stand(kind) \in Kinds /\ Stand(kind) \in Kind
         /\ Readings(kind, Sample(Stand(kind))) # {}
<1>1. Stand(kind) \in Kinds /\ Stand(kind) \in Kind
  BY FurtherKinds DEF Stand, Kind
<1>2. CASE kind = "value"
  BY <1>1, <1>2, Samples DEF Stand
<1>3. CASE kind # "value"
  BY <1>1, <1>3, Samples DEF Stand
<1> QED
  BY <1>1, <1>2, <1>3

\* The arguments from j on, a word for each.
LEMMA Remaining ==
  ASSUME Label # {}, NEW op \in Keyword, NEW j \in 1 .. Len(Args(op))
  PROVE  \E more \in FurtherArguments : \E kinds \in Seq(Kind) :
           /\ kinds = <<Args(op)[j]>> \o more /\ Len(kinds) = Len(Args(op)) - j + 1
           /\ \A u \in 1 .. Len(kinds) : Readings(Args(op)[j + u - 1], Sample(kinds[u])) # {}
<1>1. PICK len \in 1 .. 3 : len = Len(Args(op)) /\ \A n \in 1 .. len : Args(op)[n] \in Kind
  BY ArgsKinds
<1>2. PICK a \in Kind : a = Args(op)[j] /\ Readings(a, Sample(a)) # {}
  BY <1>1, Samples
<1>3. CASE j = len
  <2>1. PICK kinds : kinds = <<a>> \o <<>>
    OBVIOUS
  <2>2. kinds \in Seq(Kind) /\ Len(kinds) = 1 /\ kinds[1] = a
    BY <2>1
  <2>3. \A u \in 1 .. 1 : j + u - 1 = j /\ u = 1
    BY <1>1
  <2>4. 1 = len - j + 1
    BY <1>1, <1>3
  <2>5. \A u \in 1 .. Len(kinds) : Readings(Args(op)[j + u - 1], Sample(kinds[u])) # {}
    BY <2>2, <2>3, <1>2
  <2> QED
    BY <2>1, <2>2, <2>4, <2>5, <1>1, <1>2, FurtherKinds
<1>4. CASE j + 1 = len
  <2>1. PICK b : b = Args(op)[j + 1]
    OBVIOUS
  <2>2. b \in Kind
    BY <1>1, <1>4, <2>1
  <2>3. PICK s \in Kinds : s = Stand(b) /\ s \in Kind /\ Readings(b, Sample(s)) # {}
    BY <2>2, Stands
  <2>4. PICK kinds : kinds = <<a>> \o <<s>>
    OBVIOUS
  <2>5. kinds \in Seq(Kind) /\ Len(kinds) = 2 /\ kinds[1] = a /\ kinds[2] = s
    BY <2>3, <2>4
  <2>6. \A u \in 1 .. 2 : (u = 1 /\ j + u - 1 = j) \/ (u = 2 /\ j + u - 1 = j + 1)
    BY <1>1
  <2>7. 2 = len - j + 1
    BY <1>1, <1>4
  <2>8. \A u \in 1 .. Len(kinds) : Readings(Args(op)[j + u - 1], Sample(kinds[u])) # {}
    BY <2>1, <2>3, <2>5, <2>6, <1>2
  <2>9. <<s>> \in FurtherArguments
    BY FurtherKinds
  <2> QED
    BY <2>4, <2>5, <2>7, <2>8, <2>9, <1>1, <1>2
<1>5. CASE j + 2 = len
  <2>1. PICK b : b = Args(op)[j + 1]
    OBVIOUS
  <2>2. PICK c : c = Args(op)[j + 2]
    OBVIOUS
  <2>3. b \in Kind /\ c \in Kind
    BY <1>1, <1>5, <2>1, <2>2
  <2>4. PICK s \in Kinds : s = Stand(b) /\ s \in Kind /\ Readings(b, Sample(s)) # {}
    BY <2>3, Stands
  <2>5. PICK t \in Kinds : t = Stand(c) /\ t \in Kind /\ Readings(c, Sample(t)) # {}
    BY <2>3, Stands
  <2>6. PICK kinds : kinds = <<a>> \o <<s, t>>
    OBVIOUS
  <2>7. kinds \in Seq(Kind) /\ Len(kinds) = 3 /\ kinds[1] = a /\ kinds[2] = s /\ kinds[3] = t
    BY <2>4, <2>5, <2>6
  <2>8. \A u \in 1 .. 3 : \/ u = 1 /\ j + u - 1 = j
                          \/ u = 2 /\ j + u - 1 = j + 1
                          \/ u = 3 /\ j + u - 1 = j + 2
    BY <1>1
  <2>9. 3 = len - j + 1
    BY <1>1, <1>5
  <2>10. \A u \in 1 .. Len(kinds) : Readings(Args(op)[j + u - 1], Sample(kinds[u])) # {}
    BY <2>1, <2>2, <2>4, <2>5, <2>7, <2>8, <1>2
  <2>11. <<s, t>> \in FurtherArguments
    BY FurtherKinds
  <2> QED
    BY <2>6, <2>7, <2>9, <2>10, <2>11, <1>1, <1>2
<1>6. j = len \/ j + 1 = len \/ j + 2 = len
  BY <1>1
<1> QED
  BY <1>3, <1>4, <1>5, <1>6

LEMMA PlacesMatch ==
  ASSUME NEW b \in Int, NEW k \in Int, NEW u \in Int, NEW j \in Int, NEW n \in Int,
         b = k + 2 * j - 2, n = u - j + 1
  PROVE  b + 2 * n = k + 2 * u /\ b + 2 * n - 1 = k + 2 * u - 1 /\ j + n - 1 = u
OBVIOUS

\* The keyword at k stands alone, and its arguments before j parse.
ReadUpTo(line, k, op, j) ==
  /\ k = 2 <=> line[1] = Space
  /\ IsWord(line, k) /\ line[k].tag = op /\ line[k].rest = "none"
  /\ \A u \in 1 .. j - 1 : /\ IsWord(line, k + 2 * u) /\ line[k + 2 * u - 1] = Space
                          /\ Readings(Args(op)[u], line[k + 2 * u]) # {}

\* A keyword and its first arguments can be made an instruction by adding the others.
LEMMA GoesOn ==
  ASSUME NEW line, Lexed(line), NEW k \in {1, 2}, NEW op \in Keyword,
         NEW j \in 1 .. Len(Args(op)), ReadUpTo(line, k, op, j),
         NEW b, b = k + 2 * j - 2, NEW start, start = Items(line, 1, b)
  PROVE  \E more \in FurtherArguments : GoesOnWith(start, <<Args(op)[j]>> \o more)
<1>1. line \in Seq(Item) /\ Len(line) \in Nat
  BY LineItems
<1>0. /\ k = 2 <=> line[1] = Space
      /\ IsWord(line, k) /\ line[k].tag = op /\ line[k].rest = "none"
      /\ \A u \in 1 .. j - 1 : /\ IsWord(line, k + 2 * u) /\ line[k + 2 * u - 1] = Space
                              /\ Readings(Args(op)[u], line[k + 2 * u]) # {}
  BY DEF ReadUpTo
<1>2. PICK len \in 1 .. 3 : len = Len(Args(op))
  BY ArgsKinds
<1>3. Label # {}
  <2>1. line[k] \in Word
    BY <1>0 DEF IsWord
  <2> QED
    BY <2>1, ItemKinds
<1>4. PICK more \in FurtherArguments, kinds \in Seq(Kind) :
        /\ kinds = <<Args(op)[j]>> \o more /\ Len(kinds) = Len(Args(op)) - j + 1
        /\ \A u \in 1 .. Len(kinds) : Readings(Args(op)[j + u - 1], Sample(kinds[u])) # {}
  BY <1>3, Remaining
<1>5. b \in Nat \ {0} /\ b = k + 2 * j - 2
  BY <1>2
<1>6. b <= Len(line) /\ line[b] \in Word
  <2>1. CASE j = 1
    <3>1. b = k
      BY <2>1, <1>5
    <3> QED
      BY <3>1, <1>0 DEF IsWord
  <2>2. CASE j # 1
    <3>1. j - 1 \in 1 .. j - 1 /\ k + 2 * (j - 1) = b
      BY <2>2, <1>2, <1>5
    <3>2. IsWord(line, b)
      BY <3>1, <1>0
    <3> QED
      BY <3>2 DEF IsWord
  <2> QED
    BY <2>1, <2>2
<1>7. b \in 0 .. Len(line) /\ start = Items(line, 1, b)
  BY <1>1, <1>5, <1>6
<1>8. /\ Lexed(start) /\ Len(start) = b /\ \A u \in 1 .. b : start[u] = line[u]
  BY <1>7, Prefix, ZenonT(40)
<1>9. ASSUME NEW u \in 1 .. b PROVE start[u] # Comment
  <2>1. CASE u < Len(line)
    <3>1. u \in 1 .. Len(line) - 1
      BY <2>1, <1>1, <1>5
    <3> QED
      BY <3>1, <1>8, LineItems
  <2>2. CASE u = b
    BY <2>2, <1>6, <1>8, ItemKinds
  <2> QED
    BY <2>1, <2>2, <1>1, <1>5, <1>6
<1>10. start[b] # Space
  <2>1. start[b] = line[b]
    BY <1>5, <1>8
  <2> QED
    BY <2>1, <1>6, ItemKinds
<1>11. PICK ext : ext = start \o Added(kinds)
  OBVIOUS
<1>12. PICK m \in Nat \ {0} : m = Len(kinds) /\ m = len - j + 1
  BY <1>2, <1>4
<1>13. /\ Lexed(ext) /\ Len(ext) = b + 2 * m
       /\ \A u \in 1 .. b : ext[u] = start[u]
       /\ \A u \in 1 .. m : /\ ext[b + 2 * u - 1] = Space
                            /\ ext[b + 2 * u] = Sample(kinds[u])
  <2>1. /\ Len(start) >= 1 /\ start[Len(start)] # Space
        /\ \A u \in 1 .. Len(start) : start[u] # Comment
    BY <1>5, <1>8, <1>9, <1>10
  <2>2. Lexed(start) /\ b = Len(start) /\ m = Len(kinds)
    BY <1>8, <1>12
  <2>3. b \in Nat \ {0} /\ m \in Nat /\ kinds \in Seq(Kind)
    BY <1>4, <1>5, <1>12
  <2>4. IsExtension(ext, start, b, kinds, m)
    BY <2>1, <2>2, <2>3, <1>3, <1>11, Extended
  <2> QED
    BY <2>4 DEF IsExtension
<1>14. \A u \in 1 .. b : ext[u] = line[u]
  BY <1>8, <1>13
<1>15. Len(ext) = k + 2 * len
  BY <1>2, <1>5, <1>12, <1>13
<1>16. k \in 1 .. b /\ 1 \in 1 .. b
  BY <1>2, <1>5
<1>17. ext[k] = line[k] /\ ext[1] = line[1]
  BY <1>14, <1>16
<1>18. k = Skip(ext, 1)
  BY <1>0, <1>2, <1>15, <1>17 DEF Skip
<1>19. ASSUME NEW u \in 1 .. len
       PROVE  /\ ext[k + 2 * u] \in Word /\ ext[k + 2 * u - 1] = Space
              /\ Readings(Args(op)[u], ext[k + 2 * u]) # {}
  <2>1. CASE u < j
    <3>1. u \in 1 .. j - 1 /\ k + 2 * u \in 1 .. b /\ k + 2 * u - 1 \in 1 .. b
      BY <2>1, <1>2, <1>5
    <3>2. ext[k + 2 * u] = line[k + 2 * u] /\ ext[k + 2 * u - 1] = line[k + 2 * u - 1]
      BY <3>1, <1>14
    <3> QED
      BY <3>1, <3>2, <1>0 DEF IsWord
  <2>2. CASE u >= j
    <3>1. PICK n \in 1 .. m : n = u - j + 1
      BY <2>2, <1>2, <1>12
    <3>2. b + 2 * n = k + 2 * u /\ b + 2 * n - 1 = k + 2 * u - 1 /\ j + n - 1 = u
      <4>1. n \in Int /\ u \in Int /\ j \in Int /\ k \in Int
        BY <1>2, <1>12
      <4>2. b \in Int
        BY <1>5
      <4> QED
        BY <4>1, <4>2, <3>1, <1>5, PlacesMatch
    <3>3. ext[k + 2 * u - 1] = Space /\ ext[k + 2 * u] = Sample(kinds[n])
      BY <3>2, <1>13, ZenonT(40)
    <3>4. Readings(Args(op)[u], Sample(kinds[n])) # {}
      BY <3>2, <1>4, <1>12
    <3>5. kinds[n] \in Kind
      BY <1>12, ElementOfSeq
    <3>6. Sample(kinds[n]) \in Word
      BY <3>5, <1>3, Samples
    <3> QED
      BY <3>3, <3>4, <3>6
  <2> QED
    BY <2>1, <2>2, <1>2
<1>20. Laid(ext, k, len + 1)
  <2>1. ASSUME NEW u \in 1 .. len + 1 PROVE IsWord(ext, k + 2 * u - 2)
    <3>1. CASE u = 1
      <4>1. k + 2 * u - 2 = k /\ k <= Len(ext)
        BY <3>1, <1>2, <1>15
      <4>2. ext[k] \in Word
        BY <1>0, <1>17 DEF IsWord
      <4> QED
        BY <4>1, <4>2 DEF IsWord
    <3>2. CASE u # 1
      <4>1. u - 1 \in 1 .. len /\ k + 2 * (u - 1) = k + 2 * u - 2
        BY <3>2, <1>2
      <4>2. ext[k + 2 * (u - 1)] \in Word
        BY <4>1, <1>19
      <4>3. k + 2 * u - 2 <= Len(ext)
        BY <1>2, <1>15
      <4> QED
        BY <4>1, <4>2, <4>3 DEF IsWord
    <3> QED
      BY <3>1, <3>2
  <2>2. \A u \in 1 .. (len + 1) - 1 : ext[k + 2 * u - 1] = Space
    BY <1>2, <1>19
  <2> QED
    BY <2>1, <2>2 DEF Laid
<1>21. StmtTokenTerminator(ext, k + 2 * len) /\ Ends(ext, k + 2 * len + 1)
  <2>1. k + 2 * len = Len(ext) /\ k + 2 * len + 1 = Len(ext) + 1 /\ Len(ext) \in Nat
    BY <1>2, <1>15
  <2> QED
    BY <2>1 DEF StmtTokenTerminator, Ends, Skip
<1>22. IsWord(ext, k) /\ ext[k].tag = op /\ ext[k].rest = "none"
  <2>1. k <= Len(ext)
    BY <1>2, <1>15
  <2> QED
    BY <2>1, <1>0, <1>17 DEF IsWord
<1>23. \A u \in 1 .. len : Readings(Args(op)[u], ext[k + 2 * u]) # {}
  BY <1>19
<1>24. Instructs(ext, k)
  BY <1>2, <1>20, <1>21, <1>22, <1>23 DEF Instructs, Operands
<1>25. Grammatical(ext)
  BY <1>13, <1>18, <1>24, GrammarIsForm DEF IsStatement
<1>26. GoesOnWith(start, kinds)
  BY <1>11, <1>25, Zenon DEF GoesOnWith, Added
<1> QED
  BY <1>4, <1>26

\* A line that keeps an argument that does not parse is not a statement.
LEMMA GoesNowhere ==
  ASSUME NEW line, NEW ext, Lexed(ext), NEW k \in {1, 2}, k = 2 <=> line[1] = Space,
         NEW c \in Nat, k + 1 <= c, c <= Len(line), c <= Len(ext),
         \A u \in 1 .. c : ext[u] = line[u],
         IsWord(line, k), line[k].tag \in Keyword, ~ IsDeclaration(line, k),
         NEW j \in 1 .. Len(Args(line[k].tag)),
         \/ line[k].rest # "none"
         \/ Argument(ext, k, Args(line[k].tag)[j], j) = {}
  PROVE  ~ Grammatical(ext)
<1>1. ext \in Seq(Item) /\ Len(ext) \in Nat
  BY LineItems
<1>2. 1 \in 1 .. c /\ k \in 1 .. c /\ k + 1 \in 1 .. c
  OBVIOUS
<1>3. ext[1] = line[1] /\ ext[k] = line[k] /\ ext[k + 1] = line[k + 1]
  BY <1>2
<1>4. k = Skip(ext, 1)
  BY <1>1, <1>2, <1>3 DEF Skip
<1>5. ~ Declares(ext, k)
  <2> SUFFICES ASSUME IsDeclaration(ext, k) PROVE FALSE
    BY DEF Declares
  <2>1. AsLabel(line[k]) # {} /\ line[k + 1] = Colon
    BY <1>3 DEF IsDeclaration
  <2>2. Len(line) \in Int => k < Len(line)
    BY <1>2
  <2> QED
    BY <2>1, <2>2 DEF IsDeclaration
<1>6. ~ Instructs(ext, k)
  <2> SUFFICES ASSUME Operands(ext, k) PROVE FALSE
    BY DEF Instructs
  <2>1. k \in Nat \ {0}
    OBVIOUS
  <2>2. Unread(ext, k) = {}
    BY <2>1, OperandsAreRead
  <2>3. j \in DOMAIN Args(ext[k].tag)
    BY <1>3, ArgsKinds
  <2>4. j \in Unread(ext, k)
    BY <2>3, <1>3 DEF Unread
  <2> QED
    BY <2>2, <2>4
<1> QED
  BY <1>4, <1>5, <1>6, GrammarIsForm DEF IsStatement

-------------------------------------------------------------------------------
(* Where a fault is                                                             *)

\* FaultIsPlaced for one line.
Placed(line, expected, at) ==
  LET start == Unspaced(Items(line, 1, at.item - 1))
               \o (IF at.past_tag THEN <<[line[at.item] EXCEPT !.rest = "none"]>> ELSE <<>>)
      later == Unspaced(Items(line, 1, at.item + 2))
  IN  /\ expected = "statement" => Core(start) = <<>>
      /\ expected = EndOfStatement => Grammatical(start)
      /\ expected \notin {"statement", EndOfStatement} =>
           /\ \E more \in FurtherArguments : GoesOnWith(start, <<expected>> \o more)
           /\ at.item + 2 < Len(line) => \A more \in FurtherArguments : ~ GoesOnWith(later, more)

LEMMA Contexts ==
  ASSUME NEW n
  PROVE  /\ Before(n).item = n /\ Before(n).past_tag = FALSE
         /\ PastTag(n).item = n /\ PastTag(n).past_tag = TRUE
BY DEF Before, PastTag

LEMMA BeginningIsRead ==
  ASSUME NEW kind \in Kind, NEW w \in Word, Readings(kind, w) # {}
  PROVE  ReadsBeginning(kind, w)
<1> DEFINE Mixed == {"alphanumeric", "punctuated"}
<1>1. ReadsBeginning(kind, w) <=>
        \E rest \in {"none"} \cup (IF w.rest \in Mixed THEN {"digits"} ELSE {w.rest}) :
          rest # "symbols" /\ Readings(kind, [w EXCEPT !.rest = rest]) # {}
  BY Zenon DEF ReadsBeginning
<1>2. Mixed \cap {"none", "digits", "symbols"} = {}
  OBVIOUS
<1>3. [w EXCEPT !.rest = w.rest] = w
  BY DEF Word
<1>4. ASSUME w.rest \notin Mixed, w.rest # "symbols" PROVE ReadsBeginning(kind, w)
  BY <1>1, <1>3, <1>4
<1>5. AsRegister(w) # {} => w.rest \in {"none", "digits"}
  BY DEF AsRegister, Index
<1>6. Index("S", w) # {} => w.rest \in {"none", "digits"}
  BY DEF Index
<1>7. AsConst(w) # {} => w.rest \in {"none", "digits"}
  BY DEF AsConst
<1>8. kind # "label" => w.rest \in {"none", "digits"}
  <2>1. Readings("value", w) = {[kind |-> "Const", value |-> n] : n \in AsConst(w)}
                               \cup {[kind |-> "Register", reg |-> r] : r \in AsRegister(w)}
    BY DEF Readings
  <2>2. kind = "value" => AsConst(w) # {} \/ AsRegister(w) # {}
    BY <2>1
  <2>3. kind = AnyRegister => AsRegister(w) # {}
    BY ReadingsOf
  <2>4. kind = AnyStack => Index("S", w) # {}
    BY ReadingsOf
  <2> QED
    BY <2>2, <2>3, <2>4, <1>5, <1>6, <1>7 DEF Kind
<1>9. CASE kind # "label"
  BY <1>2, <1>4, <1>8, <1>9
<1>10. CASE kind = "label"
  <2>1. AsLabel(w) # {}
    BY <1>10, ReadingsOf
  <2>2. w.rest # "symbols" /\ w.tag \notin {"-", "symbols"}
    BY <2>1 DEF AsLabel
  <2>3. CASE w.rest \notin Mixed
    BY <2>2, <2>3, <1>4
  <2>4. CASE w.rest \in Mixed
    <3>1. PICK d : d = [w EXCEPT !.rest = "digits"]
      OBVIOUS
    <3>2. d.tag = w.tag /\ d.rest = "digits" /\ d.spelling = w.spelling
      BY <3>1 DEF Word
    <3>3. AsLabel(d) # {}
      BY <2>2, <3>2 DEF AsLabel
    <3>4. Readings(kind, d) # {}
      BY <3>3, <1>10, ReadingsOf
    <3>5. "digits" # "symbols" /\ "digits" \in {"none"} \cup (IF w.rest \in Mixed THEN {"digits"} ELSE {w.rest})
      BY <2>4
    <3> QED
      BY <3>1, <3>4, <3>5, <1>1
  <2> QED
    BY <2>3, <2>4
<1> QED
  BY <1>9, <1>10

\* Nothing is written before what is no statement.
LEMMA StatementIsPlaced ==
  ASSUME NEW line, Lexed(line), NEW k, k = Skip(line, 1)
  PROVE  /\ Unspaced(Items(line, 1, k - 1)) = <<>> /\ Core(<<>>) = <<>>
<1>1. line \in Seq(Item) /\ Len(line) \in Nat
  BY LineItems
<1>2. k \in {1, 2} /\ (k = 2 <=> Len(line) >= 1 /\ line[1] = Space)
  BY <1>1, StartOf
<1>3. PICK b \in 0 .. Len(line) : b = k - 1
  BY <1>1, <1>2
<1>4. Trim(line, b) = 0
  BY <1>1, <1>2, <1>3 DEF Trim
<1>5. Unspaced(Items(line, 1, b)) = Items(line, 1, 0)
  BY <1>4, UnspacedPrefix
<1>6. Items(line, 1, 0) = <<>>
  <2>1. PICK z \in 0 .. Len(line) : z = 0
    BY <1>1
  <2>2. PICK p : p = Items(line, 1, z)
    OBVIOUS
  <2>3. Lexed(p) /\ Len(p) = z
    BY <2>2, Prefix
  <2>4. p \in Seq(Item)
    BY <2>3, LineItems
  <2> QED
    BY <2>1, <2>2, <2>3, <2>4, EmptySeq
<1>7. Core(<<>>) = <<>>
  BY WhereEmpty DEF Core
<1> QED
  BY <1>3, <1>5, <1>6, <1>7

\* Argument len of the keyword at k is item d, and item e comes after it.
IsLast(k, len, d, e) == d = k + 2 * (len + 1) - 2 /\ e = k + 2 * len + 1

LEMMA LastMatches ==
  ASSUME NEW k \in {1, 2}, NEW len \in 1 .. 3, NEW d, NEW e, IsLast(k, len, d, e)
  PROVE  d = e - 1 /\ d >= k + 1 /\ e = d + 1 /\ e \in Nat /\ d \in Nat \ {0}
BY DEF IsLast

\* The statement at k is complete before item e.
Completes(line, k, e) ==
  \/ IsDeclaration(line, k) /\ e = k + 2
  \/ Operands(line, k) /\ e = k + 2 * Len(Args(line[k].tag)) + 1

\* What is before a surplus is a statement.
LEMMA EndIsPlaced ==
  ASSUME NEW line, Lexed(line), NEW k \in {1, 2}, k = Skip(line, 1),
         NEW e \in Nat, Completes(line, k, e)
  PROVE  /\ Grammatical(Unspaced(Items(line, 1, Skip(line, e) - 1)))
         /\ Unspaced(Items(line, 1, Skip(line, e) - 1)) \in Seq(Item)
<1>1. line \in Seq(Item) /\ Len(line) \in Nat
  BY LineItems
<1>2. k \in {1, 2} /\ (k = 2 <=> Len(line) >= 1 /\ line[1] = Space)
  BY <1>1, StartOf
<1>15. k \in {1, 2} /\ k \in Int
  BY <1>2
<1>3. PICK d \in 1 .. Len(line) :
        d = e - 1 /\ d >= k + 1 /\ line[d] # Space /\ e = d + 1 /\ e \in Nat
  <2>1. CASE IsDeclaration(line, k) /\ e = k + 2
    <3>1. IsWord(line, k) /\ k < Len(line) /\ line[k + 1] = Colon
      BY <2>1 DEF IsDeclaration
    <3>2. k + 1 \in 1 .. Len(line) /\ k + 1 = e - 1 /\ e = (k + 1) + 1 /\ e \in Nat
      BY <2>1, <3>1, <1>1, <1>2
    <3> QED
      BY <3>1, <3>2, ItemKinds
  <2>2. CASE Operands(line, k) /\ e = k + 2 * Len(Args(line[k].tag)) + 1
    <3>1. PICK len \in 1 .. 3 : len = Len(Args(line[k].tag))
      BY <2>2, ArgsKinds DEF Operands
    <3>2. len + 1 \in 1 .. len + 1 /\ Laid(line, k, len + 1)
      BY <2>2, <3>1 DEF Operands
    <3>3. IsWord(line, k + 2 * (len + 1) - 2)
      BY <3>2 DEF Laid
    <3>4. PICK d : d = k + 2 * (len + 1) - 2
      OBVIOUS
    <3>5. e = k + 2 * len + 1
      BY <2>2, <3>1
    <3>6. d = e - 1 /\ d >= k + 1 /\ e = d + 1 /\ e \in Nat /\ d \in Nat \ {0}
      <4>1. IsLast(k, len, d, e)
        BY <3>4, <3>5 DEF IsLast
      <4> QED
        BY <4>1, LastMatches
    <3>7. d <= Len(line) /\ line[d] \in Word
      BY <3>3, <3>4 DEF IsWord
    <3> QED
      BY <3>6, <3>7, <1>1, ItemKinds
  <2> QED
    BY <2>1, <2>2 DEF Completes
<1>16. PICK b : b = Skip(line, e) - 1
  OBVIOUS
<1>4. b \in 0 .. Len(line) /\ (b = d \/ (b = d + 1 /\ line[b] = Space))
  <2>1. \/ Skip(line, e) = e
        \/ Skip(line, e) = e + 1 /\ e <= Len(line) /\ line[e] = Space
    BY DEF Skip
  <2>2. CASE Skip(line, e) = e
    <3>1. b = d
      BY <2>2, <1>3, <1>16
    <3> QED
      BY <3>1, <1>1, <1>3
  <2>3. CASE Skip(line, e) = e + 1 /\ e <= Len(line) /\ line[e] = Space
    <3>1. b = e /\ e \in 0 .. Len(line) /\ e = d + 1
      BY <2>3, <1>1, <1>3, <1>16
    <3> QED
      BY <3>1, <2>3
  <2> QED
    BY <2>1, <2>2, <2>3
<1>5. Trim(line, b) = d
  BY <1>3, <1>4 DEF Trim
<1>6. PICK s : s = Items(line, 1, d)
  OBVIOUS
<1>7. Unspaced(Items(line, 1, b)) = s
  BY <1>4, <1>5, <1>6, UnspacedPrefix
<1>8. Lexed(s) /\ Len(s) = d /\ \A u \in 1 .. d : s[u] = line[u]
  <2>1. d \in 0 .. Len(line)
    BY <1>3
  <2> QED
    BY <2>1, <1>6, Prefix
<1>17. s \in Seq(Item)
  BY <1>8, LineItems
<1>9. 1 \in 1 .. d /\ k \in 1 .. d /\ k + 1 \in 1 .. d
  BY <1>2, <1>3
<1>10. s[1] = line[1] /\ s[k] = line[k] /\ s[k + 1] = line[k + 1]
  BY <1>8, <1>9
<1>11. k = Skip(s, 1)
  <2>1. Len(s) >= 1 /\ Len(line) >= 1
    BY <1>1, <1>8, <1>9
  <2> QED
    BY <2>1, <1>2, <1>10 DEF Skip
<1>12. Ends(s, e)
  <2>1. e = Len(s) + 1 /\ Len(s) \in Nat
    BY <1>3, <1>8
  <2> QED
    BY <2>1 DEF Ends, Skip
<1>13. CASE IsDeclaration(line, k) /\ e = k + 2
  <2>1. IsWord(line, k) /\ AsLabel(line[k]) # {} /\ line[k + 1] = Colon
    BY <1>13 DEF IsDeclaration
  <2>2. IsWord(s, k) /\ k < Len(s)
    <3>1. k <= Len(s) /\ k < Len(s)
      BY <1>2, <1>3, <1>8
    <3> QED
      BY <3>1, <2>1, <1>10 DEF IsWord
  <2>3. Declares(s, k)
    BY <2>1, <2>2, <1>10, <1>12, <1>13 DEF Declares, IsDeclaration
  <2> QED
    BY <2>3, <1>7, <1>8, <1>11, <1>16, <1>17, GrammarIsForm DEF IsStatement
<1>14. CASE Operands(line, k) /\ e = k + 2 * Len(Args(line[k].tag)) + 1
  <2>1. PICK op \in Keyword : op = line[k].tag
    BY <1>14 DEF Operands
  <2>2. PICK len \in 1 .. 3 : len = Len(Args(op)) /\ d = k + 2 * len /\ e = k + 2 * len + 1
    <3>1. PICK n \in 1 .. 3 : n = Len(Args(op))
      BY ArgsKinds
    <3>2. e = k + 2 * n + 1
      BY <2>1, <3>1, <1>14
    <3>3. d = k + 2 * n
      BY <3>1, <3>2, <1>2, <1>3
    <3> QED
      BY <3>1, <3>2, <3>3
  <2>3. /\ Laid(line, k, len + 1)
        /\ \A n \in 1 .. len : Readings(Args(op)[n], line[k + 2 * n]) # {}
        /\ IsWord(line, k) /\ line[k].rest = "none"
    BY <2>1, <2>2, <1>14 DEF Operands
  <2>4. \A u \in 1 .. len + 1 : k + 2 * u - 2 \in 1 .. d
    BY <2>2, <1>2, SMTT(30)
  <2>5. \A u \in 1 .. (len + 1) - 1 : k + 2 * u - 1 \in 1 .. d
    BY <2>2, <1>2
  <2>6. Laid(s, k, len + 1)
    <3>1. ASSUME NEW u \in 1 .. len + 1 PROVE IsWord(s, k + 2 * u - 2)
      <4>1. PICK x \in 1 .. d : x = k + 2 * u - 2
        BY <2>4
      <4>2. IsWord(line, x)
        BY <4>1, <2>3 DEF Laid
      <4>3. x <= Len(s) /\ s[x] = line[x]
        BY <1>8
      <4> QED
        BY <4>1, <4>2, <4>3 DEF IsWord
    <3>2. ASSUME NEW u \in 1 .. (len + 1) - 1 PROVE s[k + 2 * u - 1] = Space
      BY <2>3, <2>5, <1>8 DEF Laid
    <3> QED
      BY <3>1, <3>2 DEF Laid
  <2>7. ASSUME NEW n \in 1 .. len PROVE Readings(Args(op)[n], s[k + 2 * n]) # {}
    <3>1. k + 2 * n \in 1 .. d
      BY <2>2, <1>2, SMTT(30)
    <3> QED
      BY <3>1, <2>3, <1>8
  <2>8. StmtTokenTerminator(s, k + 2 * len)
    <3>1. k + 2 * len = Len(s)
      BY <2>2, <1>8
    <3> QED
      BY <3>1 DEF StmtTokenTerminator
  <2>9. IsWord(s, k)
    <3>1. k <= Len(s)
      BY <1>2, <1>3, <1>8
    <3> QED
      BY <3>1, <2>3, <1>10 DEF IsWord
  <2>10. s[k].tag = op /\ s[k].rest = "none"
    BY <2>1, <2>3, <1>10
  <2>11. Operands(s, k)
    BY <2>2, <2>6, <2>7, <2>8, <2>9, <2>10 DEF Operands
  <2>12. Instructs(s, k)
    BY <2>2, <2>10, <2>11, <1>12 DEF Instructs
  <2> QED
    BY <2>12, <1>7, <1>8, <1>11, <1>16, <1>17, GrammarIsForm DEF IsStatement
<1> QED
  BY <1>13, <1>14 DEF Completes

\* What is kept behind the fault stays: nothing that is added to it makes a statement.
LEMMA LaterGoesNowhere ==
  ASSUME NEW line, Lexed(line), NEW k \in {1, 2}, k = Skip(line, 1),
         IsWord(line, k), line[k].tag \in Keyword, ~ IsDeclaration(line, k),
         NEW j \in 1 .. Len(Args(line[k].tag)),
         NEW q \in Nat, q < Len(line), NEW c, c = Trim(line, q), k + 1 <= c,
         \A ext : Lexed(ext) /\ c <= Len(ext) /\ (\A u \in 1 .. c : ext[u] = line[u]) =>
                    \/ line[k].rest # "none"
                    \/ Argument(ext, k, Args(line[k].tag)[j], j) = {}
  PROVE  \A more \in FurtherArguments : ~ GoesOnWith(Unspaced(Items(line, 1, q)), more)
<1>1. line \in Seq(Item) /\ Len(line) \in Nat
  BY LineItems
<1>2. q \in 0 .. Len(line)
  BY <1>1
<1>3. /\ Unspaced(Items(line, 1, q)) = Items(line, 1, c) /\ c \in 0 .. q
      /\ c >= 1 => line[c] # Space
  BY <1>2, UnspacedPrefix
<1>4. PICK a \in Nat \ {0} : a = c /\ a \in 0 .. Len(line) /\ a < Len(line)
  BY <1>1, <1>3
<1>5. PICK later : later = Items(line, 1, a)
  OBVIOUS
<1>6. /\ Lexed(later) /\ Len(later) = a /\ \A u \in 1 .. a : later[u] = line[u]
      /\ \A u \in 1 .. a : later[u] # Comment
  BY <1>4, <1>5, Prefix
<1>7. Label # {}
  <2>1. line[k] \in Word
    BY DEF IsWord
  <2> QED
    BY <2>1, ItemKinds
<1>8. k = 2 <=> line[1] = Space
  <2>1. k <= Len(line)
    BY DEF IsWord
  <2> QED
    BY <2>1, <1>1, StartOf
<1>9. ASSUME NEW more \in FurtherArguments PROVE ~ GoesOnWith(later, more)
  <2>1. more \in Seq(Kind)
    BY FurtherKinds
  <2>2. PICK m \in Nat : m = Len(more)
    BY <2>1, LenProperties
  <2>3. PICK ext : ext = later \o Added(more)
    OBVIOUS
  <2>4. a = Len(later) /\ Len(later) >= 1 /\ later[Len(later)] # Space
    <3>1. a \in 1 .. a /\ later[a] = line[a] /\ line[a] # Space
      BY <1>3, <1>4, <1>6
    <3> QED
      BY <3>1, <1>6
  <2>5. \A u \in 1 .. Len(later) : later[u] # Comment
    BY <1>6
  <2>6. IsExtension(ext, later, a, more, m)
    BY <2>1, <2>2, <2>3, <2>4, <2>5, <1>6, <1>7, Extended
  <2>7. Lexed(ext) /\ Len(ext) = a + 2 * m /\ \A u \in 1 .. a : ext[u] = later[u]
    BY <2>6 DEF IsExtension
  <2>8. \A u \in 1 .. a : ext[u] = line[u]
    BY <2>7, <1>6
  <2>9. a <= Len(ext)
    BY <2>2, <2>7
  <2>10. \/ line[k].rest # "none"
         \/ Argument(ext, k, Args(line[k].tag)[j], j) = {}
    BY <2>7, <2>8, <2>9, <1>4
  <2>11. k + 1 <= a /\ a <= Len(line) /\ a \in Nat
    BY <1>1, <1>4
  <2>12. ~ Grammatical(ext)
    BY <2>7, <2>8, <2>9, <2>10, <2>11, <1>8, GoesNowhere
  <2> QED
    BY <2>3, <2>12, Zenon DEF GoesOnWith, Added
<1> QED
  BY <1>3, <1>4, <1>5, <1>9

\* A keyword that something sticks to, which nothing but the label of a jump looks at.
LEMMA TagIsPlaced ==
  ASSUME NEW line, Lexed(line), NEW k \in {1, 2}, k = Skip(line, 1),
         IsInstruction(line, k), ~ IsDeclaration(line, k), line[k].rest # "none",
         NEW j \in 1 .. Len(Args(line[k].tag)), NEW kind, kind = Args(line[k].tag)[j],
         NEW s, s = <<>>
  PROVE  /\ \E more \in FurtherArguments :
              GoesOnWith(s \o <<[line[k] EXCEPT !.rest = "none"]>>, <<kind>> \o more)
         /\ k + 2 < Len(line) =>
              \A more \in FurtherArguments : ~ GoesOnWith(Unspaced(Items(line, 1, k + 2)), more)
<1>1. line \in Seq(Item) /\ Len(line) \in Nat
  BY LineItems
<1>2. IsWord(line, k) /\ line[k].tag \in Keyword /\ line[k].tag = "Jmp" /\ line[k] \in Word
  BY DEF IsInstruction, IsWord
<1>3. j = 1
  <2>1. Len(Args(line[k].tag)) = 1
    BY <1>2, ArgsAre
  <2> QED
    BY <2>1
<1>4. PICK w : w = [line[k] EXCEPT !.rest = "none"]
  OBVIOUS
<1>5. w \in Word /\ w.tag = line[k].tag /\ w.rest = "none"
  <2>1. "none" \in Rest
    BY DEF Rest
  <2> QED
    BY <1>2, <1>4, <2>1 DEF Word
<1>6. PICK start : start = <<w>>
  OBVIOUS
<1>7. w \in Item /\ w # Space
  BY <1>5, ItemKinds DEF Item
<1>8. start \in Seq(Item) /\ Len(start) = 1 /\ start[1] = w
  BY <1>6, <1>7
<1>9. Lexed(start)
  BY <1>8 DEF Lexed
<1>10. start = Items(start, 1, 1)
  <2>1. PICK one \in 0 .. Len(start) : one = 1
    BY <1>8
  <2>2. PICK p : p = Items(start, 1, one)
    OBVIOUS
  <2>3. Lexed(p) /\ Len(p) = one /\ \A u \in 1 .. one : p[u] = start[u]
    BY <2>2, <1>9, Prefix
  <2>4. p \in Seq(Item)
    BY <2>3, LineItems
  <2>5. p = start
    BY <2>1, <2>3, <2>4, <1>8, SeqEqual
  <2> QED
    BY <2>1, <2>2, <2>5
<1>11. ReadUpTo(start, 1, line[k].tag, 1)
  <2>1. IsWord(start, 1) /\ start[1].tag = line[k].tag /\ start[1].rest = "none"
    BY <1>5, <1>8 DEF IsWord
  <2> QED
    BY <2>1, <1>7, <1>8 DEF ReadUpTo
<1>12. \E more \in FurtherArguments : GoesOnWith(start, <<kind>> \o more)
  <2>1. PICK one \in {1, 2} : one = 1
    OBVIOUS
  <2>2. one \in 1 .. Len(Args(line[k].tag)) /\ one = one + 2 * one - 2
    BY <2>1, <1>3
  <2>3. ReadUpTo(start, one, line[k].tag, one) /\ start = Items(start, 1, one)
    BY <2>1, <1>10, <1>11
  <2>4. kind = Args(line[k].tag)[one]
    BY <2>1, <1>3
  <2> QED
    BY <2>2, <2>3, <2>4, <1>2, <1>9, GoesOn
<1>13. s \o <<w>> = start
  BY <1>6
<1>14. ASSUME k + 2 < Len(line)
       PROVE \A more \in FurtherArguments : ~ GoesOnWith(Unspaced(Items(line, 1, k + 2)), more)
  <2>1. PICK q \in Nat : q = k + 2
    OBVIOUS
  <2>2. PICK c : c = Trim(line, q)
    OBVIOUS
  <2>3. q < Len(line) /\ k + 1 <= c
    BY <2>1, <2>2, <1>14 DEF Trim
  <2> QED
    BY <2>1, <2>2, <2>3, <1>2, LaterGoesNowhere
<1> QED
  BY <1>4, <1>12, <1>13, <1>14

\* The parser of the argument at item p fails on what it finds there.
Missing(line, p, kind) ==
  p - 1 <= Len(line) /\ line[p - 1] = Space
  /\ ~ (IsWord(line, p) /\ ReadsBeginning(kind, line[p]))

LEMMA ContextOf ==
  ASSUME NEW line, NEW k, NEW kind, NEW j, line[k].rest = "none", NEW p, p = k + 2 * j
  PROVE  ArgumentContext(line, k, kind, j) =
           (IF Missing(line, p, kind) THEN Before(p) ELSE Before(p - 1))
BY DEF ArgumentContext, Missing

LEMMA ArgumentAt ==
  ASSUME NEW line, NEW k, NEW kind, NEW j, NEW p, p = k + 2 * j
  PROVE  Argument(line, k, kind, j) =
           (IF IsWord(line, p) /\ line[p - 1] = Space /\ StmtTokenTerminator(line, p)
            THEN Readings(kind, line[p]) ELSE {})
BY DEF Argument

\* Where the parser stands that fails on item p.
FailsAt(line, p, kind) == IF Missing(line, p, kind) THEN p ELSE p - 1

\* Item p is an argument of this kind.
ReadAt(line, p, kind) ==
  /\ IsWord(line, p) /\ line[p - 1] = Space /\ StmtTokenTerminator(line, p)
  /\ Readings(kind, line[p]) # {}

Same(line, ext, c) == \A u \in 1 .. c : ext[u] = line[u]

\* An argument that does not parse does not with anything added two items further on.
LEMMA ArgumentStaysUnread ==
  ASSUME NEW line, NEW ext, NEW p \in Nat, NEW kind \in Kind, Len(line) \in Nat, Len(ext) \in Nat,
         NEW d \in Nat, d = FailsAt(line, p, kind), p - 1 >= 1,
         NEW c \in Nat, c = Trim(line, d + 2), d + 2 < Len(line), c <= Len(ext),
         Same(line, ext, c), ~ ReadAt(line, p, kind)
  PROVE  ~ ReadAt(ext, p, kind)
<1> SUFFICES ASSUME IsWord(ext, p), ext[p - 1] = Space, StmtTokenTerminator(ext, p),
                    Readings(kind, ext[p]) # {}
             PROVE  FALSE
  BY DEF ReadAt
<1>1. c >= d + 1 /\ c \in {d + 1, d + 2} /\ (line[d + 2] # Space => c = d + 2)
  BY DEF Trim
<1>2. d \in {p, p - 1}
  BY DEF FailsAt
<1>3. p \in 1 .. c /\ p - 1 \in 1 .. c /\ p <= Len(line) /\ p - 1 <= Len(line)
  BY <1>1, <1>2
<1>4. ext[p] = line[p] /\ ext[p - 1] = line[p - 1]
  BY <1>3 DEF Same
<1>5. IsWord(line, p) /\ line[p] \in Word /\ line[p - 1] = Space /\ Readings(kind, line[p]) # {}
  BY <1>3, <1>4 DEF IsWord
<1>6. ReadsBeginning(kind, line[p])
  BY <1>5, BeginningIsRead
<1>7. ~ Missing(line, p, kind)
  BY <1>5, <1>6 DEF Missing
<1>8. d = p - 1 /\ d + 2 = p + 1
  BY <1>7 DEF FailsAt
<1>9. ~ StmtTokenTerminator(line, p)
  BY <1>5 DEF ReadAt
<1>10. line[p + 1] # Space
  BY <1>9 DEF StmtTokenTerminator
<1>11. c = p + 1
  BY <1>1, <1>8, <1>10
<1>12. p + 1 \in 1 .. c /\ p # Len(ext)
  BY <1>11
<1>13. ext[p + 1] = line[p + 1]
  BY <1>12 DEF Same
<1> QED
  BY <1>10, <1>12, <1>13 DEF StmtTokenTerminator

\* Argument j of the keyword at k is item p, and the word before it is item b.
IsPlace(k, j, p, b) == p = k + 2 * j /\ b = k + 2 * j - 2

LEMMA PlaceOf ==
  ASSUME NEW k \in {1, 2}, NEW j \in 1 .. 3, NEW p, NEW b, IsPlace(k, j, p, b)
  PROVE  /\ p \in Nat /\ b \in Nat \ {0} /\ b = p - 2 /\ p >= k + 2 /\ p - 1 >= 1
         /\ j = 1 => b = k
         /\ j # 1 => j - 1 \in 1 .. j - 1 /\ k + 2 * (j - 1) = b
BY DEF IsPlace

LEMMA BeforeTheFault ==
  ASSUME NEW line, Lexed(line), Len(line) \in Nat, NEW kind, NEW p \in Nat, NEW b \in Nat \ {0},
         b = p - 2, b <= Len(line), line[b] # Space, NEW d, d = FailsAt(line, p, kind)
  PROVE  Unspaced(Items(line, 1, d - 1)) = Items(line, 1, b)
<1>1. PICK f : f = d - 1
  OBVIOUS
<1>2. CASE Missing(line, p, kind)
  <2>1. f = p - 1
    BY <1>1, <1>2 DEF FailsAt
  <2>2. f <= Len(line) /\ line[f] = Space
    BY <1>2, <2>1 DEF Missing
  <2>3. f \in 0 .. Len(line) /\ f >= 1 /\ f - 1 = b
    BY <2>1, <2>2
  <2>4. Trim(line, f) = b
    BY <2>2, <2>3 DEF Trim
  <2> QED
    BY <1>1, <2>3, <2>4, UnspacedPrefix
<1>3. CASE ~ Missing(line, p, kind)
  <2>1. f = b
    BY <1>1, <1>3 DEF FailsAt
  <2>2. b \in 0 .. Len(line) /\ Trim(line, b) = b
    BY DEF Trim
  <2> QED
    BY <1>1, <2>1, <2>2, UnspacedPrefix
<1> QED
  BY <1>2, <1>3

\* The first argument that does not parse is argument j.
FirstUnread(line, k, j) == j \in Unread(line, k) /\ \A n \in Unread(line, k) : j <= n

LEMMA ArgumentIsPlaced ==
  ASSUME NEW line, Lexed(line), NEW k \in {1, 2}, k = Skip(line, 1),
         IsInstruction(line, k), ~ IsDeclaration(line, k), line[k].rest = "none",
         NEW op \in Keyword, op = line[k].tag, NEW len \in 1 .. 3, len = Len(Args(op)),
         NEW j \in 1 .. len, NEW kind \in Kind, kind = Args(op)[j],
         FirstUnread(line, k, j), NEW p \in Nat, NEW b \in Nat \ {0}, IsPlace(k, j, p, b),
         NEW d, d = FailsAt(line, p, kind)
  PROVE  /\ ArgumentContext(line, k, kind, j) = Before(d)
         /\ \E more \in FurtherArguments :
              GoesOnWith(Unspaced(Items(line, 1, d - 1)) \o <<>>, <<kind>> \o more)
         /\ d + 2 < Len(line) =>
              \A more \in FurtherArguments : ~ GoesOnWith(Unspaced(Items(line, 1, d + 2)), more)
<1>1. line \in Seq(Item) /\ Len(line) \in Nat
  BY LineItems
<1>2. IsWord(line, k) /\ line[k].tag \in Keyword /\ line[k] \in Word /\ k <= Len(line)
  BY DEF IsInstruction, IsWord
<1>3. DOMAIN Args(op) = 1 .. len /\ j \in 1 .. Len(Args(op))
  BY ArgsKinds
<1>4. /\ b = p - 2 /\ p >= k + 2 /\ p - 1 >= 1
      /\ j = 1 => b = k
      /\ j # 1 => j - 1 \in 1 .. j - 1 /\ k + 2 * (j - 1) = b
  <2>1. j \in 1 .. 3
    OBVIOUS
  <2> QED
    BY <2>1, PlaceOf, SMTT(30)
<1>5. p = k + 2 * j /\ b = k + 2 * j - 2
  BY DEF IsPlace
<1>6. ArgumentContext(line, k, kind, j) = Before(d)
  BY <1>5, ContextOf, SMTT(30) DEF FailsAt
<1>8. \A n \in 1 .. len : n \in Unread(line, k) <=> Argument(line, k, Args(op)[n], n) = {}
  BY <1>3 DEF Unread
<1>9. Argument(line, k, kind, j) = {}
  BY <1>8 DEF FirstUnread
<1>10. ASSUME NEW u \in 1 .. j - 1
       PROVE  /\ IsWord(line, k + 2 * u) /\ line[k + 2 * u - 1] = Space
              /\ Readings(Args(op)[u], line[k + 2 * u]) # {}
  <2>1. u \in 1 .. len /\ ~ (j <= u)
    OBVIOUS
  <2>2. u \notin Unread(line, k)
    BY <2>1 DEF FirstUnread
  <2>3. Argument(line, k, Args(op)[u], u) # {}
    BY <2>1, <2>2, <1>8
  <2>4. PICK a : a = Args(op)[u]
    OBVIOUS
  <2>5. PICK at : at = k + 2 * u
    OBVIOUS
  <2>6. IsWord(line, at) /\ line[at - 1] = Space /\ Readings(a, line[at]) # {}
    BY <2>3, <2>4, <2>5, ArgumentAt
  <2> QED
    BY <2>4, <2>5, <2>6, SMTT(30)
<1>11. ReadUpTo(line, k, op, j)
  <2>1. k = 2 <=> line[1] = Space
    BY <1>1, <1>2, StartOf
  <2> QED
    BY <2>1, <1>2, <1>10, Zenon DEF ReadUpTo
<1>14. b <= Len(line) /\ line[b] \in Word
  <2>1. CASE j = 1
    <3>1. b = k
      BY <2>1, <1>4
    <3> QED
      BY <3>1, <1>2
  <2>2. CASE j # 1
    <3>1. j - 1 \in 1 .. j - 1 /\ k + 2 * (j - 1) = b
      BY <2>2, <1>4
    <3>2. IsWord(line, b)
      BY <3>1, <1>10
    <3> QED
      BY <3>2 DEF IsWord
  <2> QED
    BY <2>1, <2>2
<1>15. Unspaced(Items(line, 1, d - 1)) = Items(line, 1, b)
  <2>1. line[b] # Space
    BY <1>14, ItemKinds
  <2> QED
    BY <2>1, <1>1, <1>4, <1>14, BeforeTheFault
<1>16. PICK start : start = Items(line, 1, b)
  OBVIOUS
<1>17. start \o <<>> = start
  <2>1. b \in 0 .. Len(line)
    BY <1>1, <1>14
  <2>2. Lexed(start)
    BY <2>1, <1>16, Prefix
  <2>3. start \in Seq(Item)
    BY <2>2, LineItems
  <2> QED
    BY <2>3, ConcatEmptySeq
<1>18. \E more \in FurtherArguments : GoesOnWith(start, <<kind>> \o more)
  BY <1>3, <1>5, <1>11, <1>16, GoesOn, SMTT(30)
<1>19. ASSUME d + 2 < Len(line)
       PROVE \A more \in FurtherArguments : ~ GoesOnWith(Unspaced(Items(line, 1, d + 2)), more)
  <2>1. d \in Nat /\ d >= p - 1
    BY <1>4 DEF FailsAt
  <2>2. PICK q \in Nat : q = d + 2
    BY <2>1
  <2>7. q >= p + 1
    BY <2>1, <2>2
  <2>3. PICK c \in Nat : c = Trim(line, q) /\ c >= p
    BY <2>2, <2>7 DEF Trim
  <2>4. ASSUME NEW ext, Lexed(ext), c <= Len(ext), \A u \in 1 .. c : ext[u] = line[u]
        PROVE  Argument(ext, k, kind, j) = {}
    <3>1. Len(ext) \in Nat
      BY <2>4, LineItems
    <3>2. ~ ReadAt(line, p, kind)
      BY <1>5, <1>9, ArgumentAt DEF ReadAt
    <3>3. Same(line, ext, c)
      BY <2>4 DEF Same
    <3>4. d \in Nat /\ c = Trim(line, d + 2) /\ p - 1 >= 1
      BY <2>1, <2>2, <2>3, <1>4
    <3>5. ~ ReadAt(ext, p, kind)
      BY <3>1, <3>2, <3>3, <3>4, <2>4, <1>1, <1>19, ArgumentStaysUnread
    <3> QED
      BY <3>5, <1>5, ArgumentAt DEF ReadAt
  <2>5. q < Len(line) /\ k + 1 <= c
    BY <2>2, <2>3, <1>4, <1>19
  <2>6. \A ext : Lexed(ext) /\ c <= Len(ext) /\ (\A u \in 1 .. c : ext[u] = line[u]) =>
                   \/ line[k].rest # "none"
                   \/ Argument(ext, k, Args(line[k].tag)[j], j) = {}
    BY <2>4
  <2>8. j \in 1 .. Len(Args(line[k].tag))
    BY <1>3
  <2> QED
    BY <2>2, <2>3, <2>5, <2>6, <2>8, <1>2, LaterGoesNowhere, ZenonT(40)
<1> QED
  BY <1>6, <1>15, <1>16, <1>17, <1>18, <1>19

LEMMA LeastIsFirst ==
  ASSUME NEW S, S \subseteq 1 .. 3, S # {}
  PROVE  Least(S) \in S /\ \A n \in S : Least(S) <= n
<1>1. \E n \in S : \A m \in S : n <= m
  <2>1. CASE 1 \in S
    BY <2>1
  <2>2. CASE 1 \notin S /\ 2 \in S
    BY <2>2
  <2>3. CASE 1 \notin S /\ 2 \notin S
    <3>1. \A m \in S : m \in 1 .. 3 /\ m # 1 /\ m # 2
      BY <2>3
    <3>2. \A m \in S : m = 3
      BY <3>1
    <3>3. PICK n \in S : TRUE
      OBVIOUS
    <3>4. 3 \in S /\ \A m \in S : 3 <= m
      BY <3>2, <3>3
    <3> QED
      BY <3>4
  <2> QED
    BY <2>1, <2>2, <2>3
<1> QED
  BY <1>1 DEF Least

\* What is kept of a line before the fault, and what is kept with it.
Start(line, at) ==
  Unspaced(Items(line, 1, at.item - 1))
  \o (IF at.past_tag THEN <<[line[at.item] EXCEPT !.rest = "none"]>> ELSE <<>>)
Later(line, at) == Unspaced(Items(line, 1, at.item + 2))

LEMMA Parts ==
  ASSUME NEW line, NEW n
  PROVE  /\ Start(line, Before(n)) = Unspaced(Items(line, 1, n - 1)) \o <<>>
         /\ Later(line, Before(n)) = Unspaced(Items(line, 1, n + 2))
BY Contexts DEF Start, Later

LEMMA FirstParts ==
  ASSUME NEW line, NEW k \in {1, 2}, NEW s, s = Unspaced(Items(line, 1, k - 1))
  PROVE  /\ Start(line, Before(k)) = s \o <<>>
         /\ Start(line, PastTag(k)) = s \o <<[line[k] EXCEPT !.rest = "none"]>>
         /\ Later(line, PastTag(k)) = Unspaced(Items(line, 1, k + 2))
BY Contexts DEF Start, Later

LEMMA PlacedParts ==
  ASSUME NEW line, NEW expected, NEW at,
         expected = "statement" => Core(Start(line, at)) = <<>>,
         expected = EndOfStatement => Grammatical(Start(line, at)),
         expected \notin {"statement", EndOfStatement} =>
           /\ \E more \in FurtherArguments : GoesOnWith(Start(line, at), <<expected>> \o more)
           /\ at.item + 2 < Len(line) =>
                \A more \in FurtherArguments : ~ GoesOnWith(Later(line, at), more)
  PROVE  Placed(line, expected, at)
BY Zenon DEF Placed, Start, Later

\* What the parser says of a line that is no statement is so.
LEMMA FailureIsPlaced ==
  ASSUME NEW line, Lexed(line), NEW p, p = Parsed(line), p.expected # "none"
  PROVE  Placed(line, p.expected, p.at)
<1>1. line \in Seq(Item)
  BY LineItems
<1>2. PICK k \in {1, 2} : k = Skip(line, 1)
  BY <1>1, StartOf
<1>3. PICK op : op = line[k].tag
  OBVIOUS
<1>4. ASSUME NEW e \in Nat, Completes(line, k, e), p = Failure(EndOfStatement, Before(Skip(line, e)))
      PROVE  Placed(line, p.expected, p.at)
  <2>1. PICK n : n = Skip(line, e)
    OBVIOUS
  <2>2. p.expected = EndOfStatement /\ p.at = Before(n)
    BY <2>1, <1>4, Contents
  <2>3. PICK s : s = Unspaced(Items(line, 1, n - 1))
    OBVIOUS
  <2>4. s \in Seq(Item) /\ Grammatical(s)
    BY <2>1, <2>3, <1>2, <1>4, EndIsPlaced
  <2>5. s \o <<>> = s
    BY <2>4, ConcatEmptySeq
  <2>6. Grammatical(Start(line, p.at))
    BY <2>2, <2>3, <2>4, <2>5, Parts
  <2> QED
    BY <2>2, <2>6, Strings, PlacedParts
<1>5. CASE IsDeclaration(line, k)
  <2>1. PICK e \in Nat : e = k + 2
    OBVIOUS
  <2>2. Completes(line, k, e)
    BY <2>1, <1>5 DEF Completes
  <2>3. CASE Ends(line, e)
    <3>1. p = Success([op |-> "Label", label |-> line[k].spelling], k, e)
      BY <2>1, <2>3, <1>2, <1>3, <1>5, ParsedCases
    <3> QED
      BY <3>1, Contents
  <2>4. CASE ~ Ends(line, e)
    <3>1. p = Failure(EndOfStatement, Before(Skip(line, e)))
      BY <2>1, <2>4, <1>2, <1>3, <1>5, ParsedCases
    <3> QED
      BY <3>1, <2>2, <1>4
  <2> QED
    BY <2>3, <2>4
<1>6. CASE ~ IsDeclaration(line, k) /\ ~ IsInstruction(line, k)
  <2>1. p = Failure("statement", Before(k))
    BY <1>2, <1>3, <1>6, ParsedCases
  <2>2. p.expected = "statement" /\ p.at = Before(k)
    BY <2>1, Contents
  <2>3. Unspaced(Items(line, 1, k - 1)) = <<>> /\ Core(<<>>) = <<>>
    BY <1>2, StatementIsPlaced
  <2>4. PICK s : s = Unspaced(Items(line, 1, k - 1))
    OBVIOUS
  <2>6. s \in Seq(Item) /\ Core(s) = <<>>
    BY <2>3, <2>4, EmptySeq
  <2>7. Start(line, p.at) = s
    <3>1. Start(line, Before(k)) = s \o <<>>
      BY <2>4, FirstParts
    <3>2. s \o <<>> = s
      BY <2>6, ConcatEmptySeq
    <3> QED
      BY <3>1, <3>2, <2>2
  <2>5. Core(Start(line, p.at)) = <<>>
    BY <2>6, <2>7
  <2> QED
    BY <2>2, <2>5, Strings, PlacedParts
<1>7. CASE ~ IsDeclaration(line, k) /\ IsInstruction(line, k) /\ Unread(line, k) = {}
  <2>1. k \in Nat \ {0}
    OBVIOUS
  <2>2. Operands(line, k)
    BY <2>1, <1>7, OperandsAreRead
  <2>3. op \in Keyword
    BY <1>3, <1>7 DEF IsInstruction
  <2>4. PICK len \in 1 .. 3 : len = Len(Args(op))
    BY <2>3, ArgsKinds
  <2>5. PICK e \in Nat : e = k + 2 * len + 1
    OBVIOUS
  <2>6. Completes(line, k, e)
    BY <2>2, <2>4, <2>5, <1>3 DEF Completes
  <2>7. p = IF Ends(line, e) THEN Success(NodeOf(op, Values(line, k)), k, e)
            ELSE Failure(EndOfStatement, Before(Skip(line, e)))
    BY <2>4, <2>5, <1>2, <1>3, <1>7, ParsedCases, ZenonT(40)
  <2>8. p = Failure(EndOfStatement, Before(Skip(line, e)))
    BY <2>7, Contents
  <2> QED
    BY <2>6, <2>8, <1>4
<1>8. CASE ~ IsDeclaration(line, k) /\ IsInstruction(line, k) /\ Unread(line, k) # {}
  <2>1. op \in Keyword
    BY <1>3, <1>8 DEF IsInstruction
  <2>2. PICK len \in 1 .. 3 : len = Len(Args(op)) /\ DOMAIN Args(op) = 1 .. len
                              /\ \A n \in 1 .. len : Args(op)[n] \in Kind
    BY <2>1, ArgsKinds
  <2>3. Unread(line, k) \subseteq 1 .. len /\ Unread(line, k) \subseteq 1 .. 3
    BY <2>2, <1>3 DEF Unread
  <2>4. PICK j : j = Least(Unread(line, k))
    OBVIOUS
  <2>5. FirstUnread(line, k, j)
    BY <2>3, <2>4, <1>8, LeastIsFirst DEF FirstUnread
  <2>6. j \in 1 .. len
    BY <2>3, <2>5 DEF FirstUnread
  <2>7. PICK kind \in Kind : kind = Args(op)[j]
    BY <2>2, <2>6
  <2>8. PICK at : at = ArgumentContext(line, k, kind, j)
    OBVIOUS
  <2>9. p = Failure(kind, at)
    BY <2>4, <2>7, <2>8, <1>2, <1>3, <1>8, ParsedCases
  <2>10. p.expected = kind /\ p.at = at
    BY <2>9, Contents
  <2>11. kind \notin {"statement", EndOfStatement}
    BY Strings
  <2>12. CASE line[k].rest # "none"
    <3>1. at = PastTag(k)
      BY <2>8, <2>12 DEF ArgumentContext
    <3>2. PICK s : s = Unspaced(Items(line, 1, k - 1)) /\ s = <<>>
      BY <1>2, StatementIsPlaced
    <3>3. /\ Start(line, at) = s \o <<[line[k] EXCEPT !.rest = "none"]>>
          /\ Later(line, at) = Unspaced(Items(line, 1, k + 2)) /\ at.item = k
      <4>1. /\ Start(line, PastTag(k)) = s \o <<[line[k] EXCEPT !.rest = "none"]>>
            /\ Later(line, PastTag(k)) = Unspaced(Items(line, 1, k + 2))
        BY <3>2, FirstParts
      <4>2. PastTag(k).item = k
        BY Contexts
      <4> QED
        BY <4>1, <4>2, <3>1
    <3>4. /\ \E more \in FurtherArguments :
               GoesOnWith(s \o <<[line[k] EXCEPT !.rest = "none"]>>, <<kind>> \o more)
          /\ k + 2 < Len(line) =>
               \A more \in FurtherArguments : ~ GoesOnWith(Unspaced(Items(line, 1, k + 2)), more)
      BY <3>2, <2>2, <2>6, <2>7, <2>12, <1>2, <1>3, <1>8, TagIsPlaced
    <3> QED
      BY <3>3, <3>4, <2>10, <2>11, PlacedParts
  <2>13. CASE line[k].rest = "none"
    <3>1. PICK q : q = k + 2 * j
      OBVIOUS
    <3>2. PICK b : b = k + 2 * j - 2
      OBVIOUS
    <3>3. IsPlace(k, j, q, b) /\ j \in 1 .. 3
      BY <3>1, <3>2, <2>6 DEF IsPlace
    <3>4. q \in Nat /\ b \in Nat \ {0}
      BY <3>3, PlaceOf
    <3>5. PICK d : d = FailsAt(line, q, kind)
      OBVIOUS
    <3>6. /\ at = Before(d)
          /\ \E more \in FurtherArguments :
               GoesOnWith(Unspaced(Items(line, 1, d - 1)) \o <<>>, <<kind>> \o more)
          /\ d + 2 < Len(line) =>
               \A more \in FurtherArguments : ~ GoesOnWith(Unspaced(Items(line, 1, d + 2)), more)
      BY <3>3, <3>4, <3>5, <2>1, <2>2, <2>5, <2>6, <2>7, <2>8, <2>13, <1>2, <1>3, <1>8,
         ArgumentIsPlaced
    <3>7. /\ Start(line, at) = Unspaced(Items(line, 1, d - 1)) \o <<>>
          /\ Later(line, at) = Unspaced(Items(line, 1, d + 2)) /\ at.item = d
      BY <3>6, Parts, Contexts
    <3> QED
      BY <3>6, <3>7, <2>10, <2>11, PlacedParts
  <2> QED
    BY <2>12, <2>13
<1> QED
  BY <1>5, <1>6, <1>7, <1>8

LEMMA FaultsArePlaced == ParseInv => FaultIsPlaced
<1> SUFFICES ASSUME ParseInv PROVE FaultIsPlaced
  OBVIOUS
<1>1. Len(text) \in Nat /\ read \in 0 .. Len(text) /\ DOMAIN text = 1 .. Len(text)
      /\ \A n \in 1 .. Len(text) : Lexed(text[n])
  BY LinesAreLexed DEF ParseInv, ParseTypeOK
<1>2. ASSUME syntax \notin {"none", "parsed", "program"}
      PROVE  /\ fault.line \in 1 .. Len(text)
             /\ Placed(text[fault.line], syntax, fault.at)
  <2>1. /\ read < Len(text) /\ Parsed(text[read + 1]).expected = syntax
        /\ fault = [line |-> read + 1, at |-> Parsed(text[read + 1]).at]
    BY <1>2 DEF ParseInv, VerdictIsDue
  <2>2. fault.line = read + 1 /\ read + 1 \in 1 .. Len(text)
    BY <2>1, <1>1
  <2>3. PICK line : line = text[read + 1]
    OBVIOUS
  <2>4. PICK p : p = Parsed(line)
    OBVIOUS
  <2>5. Lexed(line)
    BY <2>2, <2>3, <1>1
  <2>6. p.expected = syntax /\ p.at = fault.at /\ p.expected # "none"
    BY <2>1, <2>3, <2>4, <1>2
  <2>7. Placed(line, p.expected, p.at)
    BY <2>4, <2>5, <2>6, FailureIsPlaced
  <2> QED
    BY <2>2, <2>3, <2>6, <2>7
<1>3. ASSUME syntax \notin {"none", "parsed"}, text # <<>>
      PROVE  /\ fault.line \in LinesShown(fault.line)
             /\ LinesShown(fault.line) \subseteq DOMAIN text
  <2>1. Len(text) >= 1
    <3>1. text \in Seq(Seq(Item))
      BY LinesAreLexed DEF ParseInv, ParseTypeOK
    <3> QED
      BY <3>1, <1>1, <1>3, EmptySeq
  <2>2. fault.line \in 1 .. Len(text)
    <3>1. CASE syntax = "program"
      BY <3>1, <2>1 DEF ParseInv, VerdictIsDue
    <3>2. CASE syntax # "program"
      BY <3>2, <1>2, <1>3
    <3> QED
      BY <3>1, <3>2
  <2> QED
    BY <2>2, <1>1 DEF LinesShown
<1>4. syntax \notin {"none", "parsed", "program"} => Placed(text[fault.line], syntax, fault.at)
  BY <1>2
<1> QED
  BY <1>3, <1>4, Zenon DEF FaultIsPlaced, Placed, Items, EndOfStatement

-------------------------------------------------------------------------------
(* Theorems                                                                     *)

\* The compiler as a whole parses as the parser does: what comes after leaves the
\* text, its tree and the verdict alone.
THEOREM FrontParses == FrontSpec => ParseSpec
<1>1. FrontInit => ParseInit
  BY DEF FrontInit
<1>2. [FrontNext]_frontVars => [ParseNext]_parseVars
  BY DEF FrontNext, ParseText, HandOver, CompileTree, frontVars, parseVars
<1> QED
  BY <1>1, <1>2, PTL DEF FrontSpec, ParseSpec

\* Every syntax tree is its text: one node per line with a statement, in order,
\* spelled by exactly the items that its span covers.
THEOREM TreesAreTheirTexts == FrontSpec => []ParsesWhatIsWritten
BY FrontParses, ParseKept, NodesAreWritten, PTL

\* A text is refused at its first line that is not a statement of the language, and
\* for nothing else: the parser and the grammar say the same of every line.
THEOREM FirstFaultsAreRefused == FrontSpec => []RefusesTheFirstFault
BY FrontParses, ParseKept, RefusalsAreRight, PTL

\* "Expected x at n:m" is true of every text: what is before that place can be made a
\* statement by an x there, and by nothing that keeps what is there; the lines shown
\* are lines of the text, the refused one among them.
THEOREM FaultsAreWhereTheyAreSaid == FrontSpec => []FaultIsPlaced
BY FrontParses, ParseKept, FaultsArePlaced, PTL

-------------------------------------------------------------------------------
(* The passes behind the parser                                                 *)

\* The text is being parsed, or is refused.
Waiting ==
  /\ hardware_spec \in HardwareSpec
  /\ stage = "parse" /\ i = 0
  /\ labels = EmptyMap /\ label_map = EmptyMap
  /\ errors = <<>> /\ instructions = <<>>

Passing == CInv /\ FInv /\ DInv

LEMMA UnstartedPasses == Unstarted => Passing
BY InitCInv, InitFInv, InitDInv DEF Passing

LEMMA NodesAreStatements ==
  ASSUME ParseInv
  PROVE  /\ parsed \in Seq(Entries) /\ Len(parsed) \in Nat /\ DOMAIN parsed = 1 .. Len(parsed)
         /\ \A k \in 1 .. Len(parsed) : parsed[k].value \in Statement
<1>1. parsed \in Seq(Entries) /\ Len(parsed) \in Nat /\ DOMAIN parsed = 1 .. Len(parsed)
  BY LenProperties DEF ParseInv, ParseTypeOK
<1>2. Len(text) \in Nat /\ read \in 0 .. Len(text) /\ \A n \in 1 .. Len(text) : Lexed(text[n])
  BY LinesAreLexed DEF ParseInv, ParseTypeOK
<1>3. ASSUME NEW k \in 1 .. Len(parsed) PROVE parsed[k].value \in Statement
  <2>1. PICK n \in 1 .. read : Taken(n) /\ parsed[k] = Entry(n)
    BY DEF ParseInv, ParsedIsRead
  <2>2. PICK line : line = text[n]
    OBVIOUS
  <2>3. PICK p : p = Parsed(line)
    OBVIOUS
  <2>4. Lexed(line)
    BY <1>2, <2>2
  <2>5. p.expected = "none" /\ parsed[k].value = p.node
    BY <2>1, <2>2, <2>3, EntryFields DEF Taken
  <2>6. PICK cut : cut = Items(line, p.from, p.to - 1)
    OBVIOUS
  <2>7. p.node \in Statement
    BY <2>3, <2>4, <2>5, <2>6, NodeIsWritten
  <2> QED
    BY <2>5, <2>7
<1> QED
  BY <1>1, <1>3

\* The passes start from a tree of statements that is not empty.
LEMMA HandsOver ==
  ASSUME ParseInv, Waiting, HandOver
  PROVE  Unstarted'
<1>1. parsed # <<>>
  BY DEF ParseInv, VerdictIsDue, HandOver
<1>2. PICK m \in Nat : m = Len(parsed) /\ DOMAIN parsed = 1 .. m
  BY NodesAreStatements
<1>3. m # 0
  BY <1>1, <1>2, NodesAreStatements, EmptySeq
<1>4. \A k \in 1 .. m : parsed[k].value \in Statement
  BY <1>2, NodesAreStatements
<1>5. body' = [k \in 1 .. m |-> parsed[k].value]
  BY <1>2 DEF HandOver
<1>6. body' \in Seq(Statement) \ {<<>>}
  <2>1. PICK b : b = [k \in 1 .. m |-> parsed[k].value]
    OBVIOUS
  <2>2. b \in [1 .. m -> Statement]
    BY <2>1, <1>4
  <2>3. b \in Seq(Statement) /\ Len(b) = m
    BY <2>2, LenProperties, SeqDef
  <2>4. b # <<>>
    BY <2>3, <1>3, EmptySeq
  <2> QED
    BY <2>1, <2>3, <2>4, <1>5
<1> QED
  BY <1>6 DEF HandOver, Waiting, Unstarted

LEMMA FrontSteps ==
  ParseInv /\ (Waiting \/ Passing) /\ [FrontNext]_frontVars => Waiting' \/ Unstarted' \/ Passing'
<1> SUFFICES ASSUME ParseInv, Waiting \/ Passing, [FrontNext]_frontVars
             PROVE  Waiting' \/ Unstarted' \/ Passing'
  OBVIOUS
<1>1. ASSUME Passing, [CompileNext]_compileVars PROVE Passing'
  BY <1>1, NextCInv, NextFInv, NextDInv DEF Passing
<1>2. ASSUME Waiting, UNCHANGED compileVars PROVE Waiting'
  BY <1>2 DEF Waiting, compileVars
<1>3. CASE ParseText \/ UNCHANGED frontVars
  <2>1. UNCHANGED compileVars
    BY <1>3 DEF ParseText, frontVars
  <2> QED
    BY <2>1, <1>1, <1>2
<1>4. CASE HandOver
  <2>1. CASE Waiting
    BY <1>4, <2>1, HandsOver
  <2>2. CASE Passing
    BY <1>4, <2>2 DEF HandOver, Passing, CInv, CompileTypeOK, Stages
  <2> QED
    BY <2>1, <2>2
<1>5. CASE CompileTree
  <2>1. CompileNext
    BY <1>5 DEF CompileTree
  <2>2. CASE Waiting
    <3>1. stage = "parse"
      BY <2>2 DEF Waiting
    <3> QED
      BY <2>1, <3>1 DEF CompileNext, CollectLabel, LabelsCollected, ValidateStatement, Reject,
         Accept, MapLabel, LabelsMapped, MapStatement, StatementsMapped, Iterate, NextStage
  <2>3. CASE Passing
    BY <2>1, <2>3, <1>1
  <2> QED
    BY <2>2, <2>3
<1> QED
  BY <1>3, <1>4, <1>5 DEF FrontNext

LEMMA PassesKept == FrontSpec => [](Waiting \/ Passing)
<1>1. FrontInit => Waiting
  BY CompileAssumption DEF FrontInit, Waiting
<1>2. FrontSpec => []ParseInv
  BY FrontParses, ParseKept, PTL
<1> QED
  BY <1>1, <1>2, UnstartedPasses, FrontSteps, PTL DEF FrontSpec

\* Until there is a tree there is no error of it and no instruction.
LEMMA WaitingIsRight ==
  ASSUME Waiting
  PROVE  ReportsEveryFault /\ DuplicatesNameTheFirst /\ JumpsReachTheirLabels
<1>1. DOMAIN errors = {} /\ stage = "parse"
  BY DEF Waiting
<1> QED
  BY <1>1 DEF ReportsEveryFault, DuplicatesNameTheFirst, JumpsReachTheirLabels

\* A text that parses gets errors at the positions and of the kinds of its faults, in
\* the editor's order and one for each extra declaration of a label, or compiles; a
\* text that does not parse gets none but the syntax error.
THEOREM TextsAreValidated == FrontSpec => []ReportsEveryFault
<1>1. Passing => ReportsEveryFault
  BY FaultsOfInvariant DEF Passing
<1>2. Waiting => ReportsEveryFault
  BY WaitingIsRight
<1> QED
  BY <1>1, <1>2, PassesKept, PTL

\* A redefinition in a text names the first declaration in that text.
THEOREM TextsNameTheFirst == FrontSpec => []DuplicatesNameTheFirst
<1>1. Passing => DuplicatesNameTheFirst
  BY DEF Passing, CInv
<1>2. Waiting => DuplicatesNameTheFirst
  BY WaitingIsRight
<1> QED
  BY <1>1, <1>2, PassesKept, PTL

\* The jumps of a text that compiles land where the text says.
THEOREM TextsJumpToTheirLabels == FrontSpec => []JumpsReachTheirLabels
<1>1. Passing => JumpsReachTheirLabels
  BY JumpsOfInvariant DEF Passing
<1>2. Waiting => JumpsReachTheirLabels
  BY WaitingIsRight
<1> QED
  BY <1>1, <1>2, PassesKept, PTL

\* The program of a text that compiles is one the machine can run: its operands
\* exist on the hardware that was asked for and its jumps stay inside it.
THEOREM TextsCompileToPrograms ==
  FrontSpec => [](stage = "compiled" => WellFormed(instructions, hardware_spec))
<1>1. Passing => (stage = "compiled" => WellFormed(instructions, hardware_spec))
  BY CompiledProgram DEF Passing
<1>2. Waiting => (stage = "compiled" => WellFormed(instructions, hardware_spec))
  BY DEF Waiting
<1> QED
  BY <1>1, <1>2, PassesKept, PTL
=================================
