--------------------------- MODULE CanSlaveProofs ---------------------------
(***************************************************************************)
(* Proofs about CanSlave for all sizes of queue, FIFO and specification    *)
(* sheet and all tables: replies reach the bus in order, and no address is *)
(* taken without the master's consent, however many frames are lost. While *)
(* none is, the slave is in step with the frames on their way: it takes a  *)
(* frame for the continuation of a table exactly when it is one, its list  *)
(* is a beginning of the table, and a list it has completed is free of the *)
(* reserved identifiers.                                                   *)
(***************************************************************************)
EXTENDS CanSlave, SequenceTheorems, FiniteSetTheorems, FunctionTheorems, TLAPS

Kinds == {"reqtable", "select", "spec", "data"}
Replies == [id : {Broadcast, Uninit, WishId}, kind : Kinds, part : Nat \ {0}]

\* b may be on the bus right after a.
Follows(a, b) == b.part = 1 \/ (b.part = a.part + 1 /\ b.kind = a.kind /\ b.id = a.id)

\* The driver uses one mailbox, and what it holds continues the bus and is
\* continued by the frames that are left.
DriverInv ==
  /\ tx \in Seq(Replies)
  /\ waiting \in BOOLEAN
  /\ \E f \in Replies \cup {Empty} : mbox = [m \in 0..2 |-> IF m = 0 THEN f ELSE Empty]
  /\ ~waiting => mbox[0] = Empty
  /\ mbox[0] # Empty => Follows(sent, mbox[0])
  /\ tx # <<>> => Follows(IF mbox[0] = Empty THEN sent ELSE mbox[0], tx[1])
  /\ \A j \in 1..(Len(tx) - 1) : Follows(tx[j], tx[j + 1])

\* A frame the slave would take for the acceptance of its address.
Accepts(f) ==
  f.dat[1] = CONFIRM /\ SubSeq(f.dat, 2, 7) = ChipId /\ f.dat[Len(f.dat)] = 0

\* A frame that looks like the first of a table has the bytes it would be read by.
Readable(f) ==
  f.dat[1] = SENDTABLE =>
    /\ Len(f.dat) >= 2
    /\ f.dat[2] > FirstIds => Len(f.dat) = FrameBytes
    /\ f.dat[2] <= FirstIds => Len(f.dat) >= 2 + f.dat[2]

\* Frames that may be on their way while the master has accepted (b) or not.
Frames(b) ==
  {f \in [id : {Broadcast, WishId}, dat : Seq(Byte), more : BOOLEAN] :
     /\ f.id = WishId => ~f.more /\ f.dat \in {<<REQSPEC>>, <<REQDATA, 1>>}
     /\ Accepts(f) => b
     /\ Readable(f)}

FrameInv ==
  /\ assigned \in BOOLEAN
  /\ queue \in Seq(Frames(assigned))
  /\ fifo \in Seq(Frames(assigned))
  /\ msend \in Seq(Frames(assigned))

\* Before Connect the slave is silent and has no address.
SleepInv ==
  /\ canid \in {Broadcast, WishId}
  /\ task = "sleep" => canid = Broadcast /\ tx = <<>> /\ ~waiting

\* The p-th frame of those that bring a table of which k entries have come.
RestFrame(t, k, p) ==
  Frame(Broadcast, SubSeq(t, k + FrameBytes * (p - 1) + 1, Least(k + FrameBytes * p, Len(t))), TRUE)

\* Right after the first j frames of str come these, and then no continuation.
Brings(str, t, k, j) ==
  LET n == Fragments(Len(t) - k)
  IN  /\ j + n <= Len(str)
      /\ \A p \in 1..n : str[j + p] = RestFrame(t, k, p)
      /\ j + n < Len(str) => ~str[j + n + 1].more

\* The frame begins a table.
IsHead(f) == f.id = Broadcast /\ f.dat[1] = SENDTABLE

\* A frame that is no continuation begins a message, and the message is whole.
Whole(str) ==
  \A j \in 1..Len(str) : ~str[j].more =>
    /\ IsHead(str[j]) =>
         \E t \in Tables : str[j] = TableHead(t) /\ Brings(str, t, Least(FirstIds, Len(t)), j)
    /\ ~IsHead(str[j]) => (j < Len(str) => ~str[j + 1].more)

\* The slave's members, the bounds of the queues and the frames lost.
SlaveTypes ==
  /\ extratable \in BOOLEAN /\ capacity \in 0..255 /\ idtable \in Seq(Byte)
  /\ task \in {"sleep", "loop"}
  /\ Len(queue) <= QueueLen /\ Len(fifo) <= FifoLen
  /\ todo \subseteq {"table", "confirm"} /\ lost \in BOOLEAN

\* The frames on their way to the slave, the next one first.
Stream == queue \o fifo \o msend

\* The slave has the beginning of a table whose rest is what comes next.
Incomplete ==
  \E t \in Tables :
    /\ Len(idtable) < Len(t) /\ idtable = SubSeq(t, 1, Len(idtable))
    /\ capacity = Len(t) - Len(idtable)
    /\ Brings(Stream, t, Len(idtable), 0)

\* Without a loss only whole messages come, after what the slave still awaits;
\* with an address it awaits nothing any more.
SyncInv ==
  /\ canid = WishId => ~extratable /\ (~lost => TableHasNoReserved)
  /\ ~lost /\ canid = Broadcast =>
       /\ Whole(Stream)
       /\ extratable => Incomplete
       /\ ~extratable => TableHasNoReserved /\ (Stream # <<>> => ~Stream[1].more)

SInv == DriverInv /\ FrameInv /\ SleepInv /\ SlaveTypes /\ SyncInv

-----------------------------------------------------------------------------
(* Sorting *)

\* std::sort puts every entry in a place of its own, and the places follow the
\* order of the entries.
LEMMA SortedFacts ==
  ASSUME NEW s \in Seq(Byte)
  PROVE  /\ Sorted(s) \in Seq(Byte) /\ Len(Sorted(s)) = Len(s)
         /\ \A m, n \in 1..Len(s) : m < n => Sorted(s)[m] <= Sorted(s)[n]
         /\ (\A j, k \in 1..Len(s) : s[j] = s[k] => j = k)
              => \A m, n \in 1..Len(s) : Sorted(s)[m] = Sorted(s)[n] => m = n
  <1> DEFINE L == Len(s)
             U == 1..L
             Below(j) == {k \in U : s[k] < s[j] \/ (s[k] = s[j] /\ k <= j)}
             Place(j) == Cardinality(Below(j))
             At(n) == CHOOSE j \in U : Place(j) = n
  <1>1. L \in Nat /\ \A j \in U : s[j] \in Nat /\ s[j] \in Byte
    <2>1. L \in Nat /\ \A j \in U : s[j] \in Byte
      BY LenProperties, ElementOfSeq
    <2>2. \A x \in Byte : x \in Nat
      BY DEF Byte
    <2> HIDE DEF L
    <2> QED BY <2>1, <2>2
  <1>2. IsFiniteSet(U) /\ Cardinality(U) = L
    <2>1. IsFiniteSet(1..L) /\ Cardinality(1..L) = IF 1 > L THEN 0 ELSE L - 1 + 1
      BY <1>1, FS_Interval
    <2> HIDE DEF L
    <2> QED BY <1>1, <2>1
  <1> HIDE DEF L
  <1>3. ASSUME NEW j \in U PROVE IsFiniteSet(Below(j)) /\ Place(j) \in U
    <2>1. Below(j) \subseteq U
      OBVIOUS
    <2>2. IsFiniteSet(Below(j)) /\ Place(j) <= L
      <3> HIDE DEF Below, U
      <3> QED BY <1>2, <2>1, FS_Subset
    <2>3. j \in Below(j)
      BY <1>1
    <2>4. Place(j) \in Nat /\ Place(j) # 0
      <3> HIDE DEF Below
      <3> QED BY <2>2, <2>3, FS_CardinalityType, FS_EmptySet
    <2> HIDE DEF Place
    <2> QED BY <1>1, <2>2, <2>4
  \* The place of an entry depends on its order with the others.
  <1>4. ASSUME NEW a \in U, NEW b \in U, s[a] < s[b] \/ (s[a] = s[b] /\ a < b)
        PROVE  Place(a) < Place(b)
    <2>1. Below(a) \subseteq Below(b)
      BY <1>1, <1>4
    <2>2. b \notin Below(a) /\ b \in Below(b)
      BY <1>1, <1>4
    <2>3. Place(a) \in U /\ Place(b) \in U /\ IsFiniteSet(Below(b))
      BY <1>3
    <2>4. Place(a) <= Place(b) /\ Place(a) # Place(b)
      <3> HIDE DEF Below
      <3> QED BY <2>1, <2>2, <2>3, FS_Subset
    <2> HIDE DEF Place
    <2> QED BY <1>1, <2>3, <2>4
  <1>5. ASSUME NEW a \in U, NEW b \in U, Place(a) = Place(b)
        PROVE  a = b
    <2>1. Place(a) \in Nat
      <3>1. Place(a) \in U
        BY <1>3
      <3> HIDE DEF Place
      <3> QED BY <1>1, <3>1
    <2>2. ~(Place(a) < Place(b)) /\ ~(Place(b) < Place(a))
      <3> HIDE DEF Place
      <3> QED BY <2>1, <1>5
    <2>3. ~(s[a] < s[b]) /\ ~(s[b] < s[a]) /\ (s[a] = s[b] => ~(a < b) /\ ~(b < a))
      <3> HIDE DEF Place
      <3> QED BY <1>4, <2>2
    <2> QED BY <1>1, <2>3
  <1>6. \A n \in U : \E j \in U : Place(j) = n
    <2> PICK f : f = [j \in U |-> Place(j)]
      OBVIOUS
    <2>1. f \in [U -> U]
      BY <1>3
    <2>2. \A a, b \in U : f[a] = f[b] => a = b
      BY <1>5
    <2> HIDE DEF Place, U
    <2>3. f \in Injection(U, U)
      BY <2>1, <2>2, Fun_IsInj
    <2>4. f \in Surjection(U, U)
      BY <1>2, <2>3, FS_Injection
    <2> QED BY <2>4, Fun_SurjectionProperties
  <1>7. \A n \in U : At(n) \in U /\ Place(At(n)) = n
    <2> HIDE DEF Place, U
    <2> QED BY <1>6
  <1>8. Sorted(s) = [n \in U |-> s[At(n)]]
    BY DEF Sorted, L
  <1> HIDE DEF At, Place
  <1>9. Sorted(s) \in Seq(Byte) /\ Len(Sorted(s)) = L /\ \A n \in U : Sorted(s)[n] = s[At(n)]
    <2> DEFINE e(n) == s[At(n)]
    <2>1. \A n \in U : e(n) \in Byte
      BY <1>1, <1>7
    <2>2. Sorted(s) = [n \in U |-> e(n)]
      BY <1>8
    <2>3. \A n \in U : Sorted(s)[n] = e(n)
      BY <2>2
    <2> HIDE DEF e
    <2>4. Sorted(s) \in Seq(Byte) /\ Len(Sorted(s)) = L
      BY <1>1, <2>1, <2>2
    <2> QED BY <2>3, <2>4 DEF e
  <1>10. ASSUME NEW m \in U, NEW n \in U, m < n
         PROVE  Sorted(s)[m] <= Sorted(s)[n]
    <2>1. At(m) \in U /\ At(n) \in U /\ Place(At(m)) = m /\ Place(At(n)) = n
      BY <1>7
    <2>2. ~(Place(At(n)) < Place(At(m)))
      BY <1>1, <1>10, <2>1
    <2>3. ~(s[At(n)] < s[At(m)])
      BY <1>4, <2>1, <2>2
    <2>4. s[At(m)] \in Nat /\ s[At(n)] \in Nat
      BY <1>1, <2>1
    <2> QED BY <1>9, <2>3, <2>4
  <1>11. ASSUME \A j, k \in U : s[j] = s[k] => j = k,
                NEW m \in U, NEW n \in U, Sorted(s)[m] = Sorted(s)[n]
         PROVE  m = n
    <2>1. At(m) = At(n)
      BY <1>7, <1>9, <1>11, SMTT(30)
    <2> QED BY <1>7, <2>1
  <1> QED BY <1>9, <1>10, <1>11 DEF L

\* TableTrim drops the two smallest of a table, which hold the reserved ones.
LEMMA TrimFacts ==
  ASSUME NEW s \in Seq(Byte)
  PROVE  /\ TableTrim(s) \in Seq(Byte)
         /\ (\A j, k \in 1..Len(s) : s[j] = s[k] => j = k)
              => \A j \in 1..Len(TableTrim(s)) : TableTrim(s)[j] \notin {Broadcast, Uninit}
  <1> DEFINE q == Sorted(s)
             d == TableTrim(s)
  <1>1. /\ q \in Seq(Byte) /\ Len(q) = Len(s) /\ Len(s) \in Nat
        /\ \A m, n \in 1..Len(s) : m < n => q[m] <= q[n]
    BY SortedFacts, LenProperties
  <1>2. \A j \in 1..Len(s) : q[j] \in Byte
    BY <1>1, ElementOfSeq
  <1> HIDE DEF q
  <1>3. /\ d \in Seq(Byte) /\ Len(d) = (IF 3 <= Len(s) THEN Len(s) - 3 + 1 ELSE 0)
        /\ \A j \in 1..(Len(s) - 3 + 1) : d[j] = q[3 + j - 1]
    <2>1. \A j \in 3..Len(s) : q[j] \in Byte
      BY <1>1, <1>2
    <2>2. d = SubSeq(q, 3, Len(s))
      BY DEF TableTrim, q
    <2> HIDE DEF d
    <2> QED BY <1>1, <2>1, <2>2, SubSeqProperties
  <1> HIDE DEF d
  <1>4. ASSUME \A j, k \in 1..Len(s) : s[j] = s[k] => j = k, NEW j \in 1..Len(d)
        PROVE  d[j] \notin {Broadcast, Uninit}
    <2>1. Len(s) >= 3 /\ j \in 1..(Len(s) - 2) /\ j + 2 \in 3..Len(s)
          /\ 1 \in 1..Len(s) /\ 2 \in 1..Len(s) /\ j + 2 \in 1..Len(s)
      BY <1>1, <1>3
    <2>2. \A m, n \in 1..Len(s) : q[m] = q[n] => m = n
      BY <1>4, SortedFacts DEF q
    <2>3. q[1] <= q[2] /\ q[2] <= q[j + 2] /\ q[1] # q[2] /\ q[2] # q[j + 2]
      BY <1>1, <2>1, <2>2
    <2>4. q[1] \in Nat /\ q[2] \in Nat /\ q[j + 2] \in Nat
      <3>1. q[1] \in Byte /\ q[2] \in Byte /\ q[j + 2] \in Byte
        BY <1>2, <2>1
      <3>2. \A x \in Byte : x \in Nat
        BY DEF Byte
      <3> QED BY <3>1, <3>2
    <2>5. d[j] = q[j + 2]
      <3>1. d[j] = q[3 + j - 1] /\ 3 + j - 1 = j + 2
        BY <1>3, <2>1
      <3> QED BY <3>1
    <2> QED BY <2>3, <2>4, <2>5 DEF Broadcast, Uninit
  <1> QED BY <1>3, <1>4 DEF d

-----------------------------------------------------------------------------
(* Tables on the bus *)

\* A message is cut into the least number of frames that holds it.
LEMMA FragmentsFacts ==
  \A m \in Nat : Fragments(m) \in Nat /\ m <= 8 * Fragments(m) /\ 8 * Fragments(m) < m + 8
  BY DEF Fragments, FrameBytes

\* The frames that bring the rest of a table, and those that are left when one
\* of them has come.
LEMMA RestFacts ==
  ASSUME NEW t \in Seq(Byte), NEW k \in 0..Len(t)
  PROVE  LET n == Fragments(Len(t) - k)
             l == Least(k + FrameBytes, Len(t))
         IN  /\ n \in Nat /\ (k < Len(t) => n >= 1)
             /\ RestOfTable(t, k) = [p \in 1..n |-> RestFrame(t, k, p)]
             /\ \A p \in 1..n : k + FrameBytes * (p - 1) < Len(t)
             /\ k < Len(t) =>
                  /\ l \in (k + 1)..Len(t) /\ Fragments(Len(t) - l) = n - 1
                  /\ RestFrame(t, k, 1) = Frame(Broadcast, SubSeq(t, k + 1, l), TRUE)
                  /\ \A p \in 1..(n - 1) : RestFrame(t, l, p) = RestFrame(t, k, p + 1)
  <1> DEFINE L == Len(t)
             n == Fragments(L - k)
             l == Least(k + FrameBytes, L)
  <1>1. L \in Nat /\ k \in Nat /\ k <= L /\ L - k \in Nat
    <2>1. L \in Nat
      BY LenProperties
    <2> HIDE DEF L
    <2> QED BY <2>1 DEF L
  <1>2. RestOfTable(t, k) = [p \in 1..n |-> RestFrame(t, k, p)]
    BY DEF RestOfTable, RestFrame
  <1> HIDE DEF L
  <1>3. n \in Nat /\ L - k <= 8 * n /\ 8 * n < L - k + 8
    BY <1>1, FragmentsFacts
  <1> HIDE DEF n
  <1>4. (k < L => n >= 1) /\ \A p \in 1..n : k + FrameBytes * (p - 1) < L
    BY <1>1, <1>3 DEF FrameBytes
  <1>5. ASSUME k < L
        PROVE  /\ l \in (k + 1)..L /\ Fragments(L - l) = n - 1
               /\ RestFrame(t, k, 1) = Frame(Broadcast, SubSeq(t, k + 1, l), TRUE)
               /\ \A p \in 1..(n - 1) : RestFrame(t, l, p) = RestFrame(t, k, p + 1)
    <2>1. l \in (k + 1)..L /\ L - l \in Nat /\ l = (IF k + 8 < L THEN k + 8 ELSE L)
      BY <1>1, <1>5 DEF Least, FrameBytes
    <2>2. Fragments(L - l) = n - 1
      <3>1. Fragments(L - l) \in Nat /\ L - l <= 8 * Fragments(L - l) /\ 8 * Fragments(L - l) < L - l + 8
        BY <2>1, FragmentsFacts
      <3> PICK m : m = Fragments(L - l)
        OBVIOUS
      <3>2. m \in Nat /\ L - l <= 8 * m /\ 8 * m < L - l + 8
        BY <3>1
      <3> HIDE DEF l
      <3>3. CASE k + 8 < L
        <4>1. l = k + 8
          BY <2>1, <3>3
        <4>2. m = n - 1
          BY <1>1, <1>3, <3>2, <4>1
        <4> QED BY <4>2
      <3>4. CASE ~(k + 8 < L)
        <4>1. l = L
          BY <2>1, <3>4
        <4>2. m = 0 /\ n = 1
          BY <1>1, <1>3, <1>5, <3>2, <3>4, <4>1
        <4> QED BY <4>2
      <3> QED BY <3>3, <3>4
    <2>3. RestFrame(t, k, 1) = Frame(Broadcast, SubSeq(t, k + 1, l), TRUE)
      <3>1. k + FrameBytes * (1 - 1) + 1 = k + 1 /\ k + FrameBytes * 1 = k + FrameBytes
        BY <1>1 DEF FrameBytes
      <3> QED BY <3>1 DEF RestFrame, L
    <2>4. ASSUME NEW p \in 1..(n - 1)
          PROVE  RestFrame(t, l, p) = RestFrame(t, k, p + 1)
      <3>1. l = k + 8
        BY <1>1, <1>3, <2>1
      <3>2. /\ l + FrameBytes * (p - 1) + 1 = k + FrameBytes * ((p + 1) - 1) + 1
            /\ l + FrameBytes * p = k + FrameBytes * (p + 1)
        BY <1>1, <1>3, <3>1 DEF FrameBytes
      <3> HIDE DEF l
      <3> QED BY <3>2 DEF RestFrame
    <2> QED BY <2>1, <2>2, <2>3, <2>4
  <1> QED BY <1>2, <1>3, <1>4, <1>5 DEF L, n

\* A sequence that begins with h.
LEMMA FirstOf ==
  ASSUME NEW S, NEW r \in Seq(S), NEW h \in S
  PROVE  /\ <<h>> \o r \in Seq(S) /\ Len(<<h>> \o r) = Len(r) + 1 /\ Len(r) \in Nat
         /\ (<<h>> \o r)[1] = h
         /\ \A j \in 1..Len(r) : (<<h>> \o r)[j + 1] = r[j]
  <1> DEFINE o == <<h>>
  <1>1. o \in Seq(S) /\ Len(o) = 1 /\ o[1] = h /\ Len(r) \in Nat
    BY LenProperties
  <1> HIDE DEF o
  <1>2. /\ o \o r \in Seq(S) /\ Len(o \o r) = Len(o) + Len(r)
        /\ \A j \in 1..(Len(o) + Len(r)) : (o \o r)[j] = IF j <= Len(o) THEN o[j] ELSE r[j - Len(o)]
    BY <1>1, ConcatProperties
  <1> QED BY <1>1, <1>2 DEF o

\* Dropping the frame in front of the stream moves the others one place forward.
LEMMA BringsFirst ==
  ASSUME NEW S, NEW r \in Seq(S), NEW h \in S, NEW t, NEW k, NEW j \in Nat,
         Fragments(Len(t) - k) \in Nat, Brings(<<h>> \o r, t, k, j + 1)
  PROVE  Brings(r, t, k, j)
  <1> DEFINE n == Fragments(Len(t) - k)
             str == <<h>> \o r
  <1>1. Len(str) = Len(r) + 1 /\ Len(r) \in Nat /\ \A i \in 1..Len(r) : str[i + 1] = r[i]
    BY FirstOf
  <1>2. /\ j + 1 + n <= Len(str)
        /\ \A p \in 1..n : str[j + 1 + p] = RestFrame(t, k, p)
        /\ j + 1 + n < Len(str) => ~str[j + 1 + n + 1].more
    BY DEF Brings
  <1>3. n \in Nat
    OBVIOUS
  <1> HIDE DEF n, str
  <1>4. j + n <= Len(r)
    BY <1>1, <1>2, <1>3
  <1>5. ASSUME NEW p \in 1..n PROVE r[j + p] = RestFrame(t, k, p)
    <2>1. j + p \in 1..Len(r) /\ j + p + 1 = j + 1 + p
      BY <1>1, <1>3, <1>4
    <2> QED BY <1>1, <1>2, <2>1
  <1>6. ASSUME j + n < Len(r) PROVE ~r[j + n + 1].more
    <2>1. j + n + 1 \in 1..Len(r) /\ (j + n + 1) + 1 = j + 1 + n + 1 /\ j + 1 + n < Len(str)
      BY <1>1, <1>3, <1>6
    <2> QED BY <1>1, <1>2, <2>1
  <1> QED BY <1>4, <1>5, <1>6 DEF Brings, n

\* A message put behind or in front of the stream leaves what it brings.
LEMMA BringsMore ==
  ASSUME NEW S, NEW a \in Seq(S), NEW b \in Seq(S), NEW t, NEW k, NEW j \in Nat,
         Fragments(Len(t) - k) \in Nat
  PROVE  /\ Brings(a, t, k, j) /\ (b # <<>> => ~b[1].more) => Brings(a \o b, t, k, j)
         /\ Brings(b, t, k, j) => Brings(a \o b, t, k, Len(a) + j)
  <1> DEFINE n == Fragments(Len(t) - k)
             str == a \o b
  <1>1. /\ Len(a) \in Nat /\ Len(b) \in Nat /\ Len(str) = Len(a) + Len(b)
        /\ \A i \in 1..(Len(a) + Len(b)) : str[i] = IF i <= Len(a) THEN a[i] ELSE b[i - Len(a)]
        /\ (b # <<>> <=> Len(b) > 0)
    BY LenProperties, ConcatProperties, EmptySeq
  <1>2. n \in Nat
    OBVIOUS
  <1> HIDE DEF n, str
  <1>3. /\ \A i \in 1..Len(a) : str[i] = a[i]
        /\ \A i \in 1..Len(b) : str[Len(a) + i] = b[i]
    <2>1. ASSUME NEW i \in 1..Len(b) PROVE str[Len(a) + i] = b[i]
      <3>1. Len(a) + i \in 1..(Len(a) + Len(b)) /\ ~(Len(a) + i <= Len(a)) /\ (Len(a) + i) - Len(a) = i
        BY <1>1
      <3> QED BY <1>1, <3>1
    <2>2. \A i \in 1..Len(a) : str[i] = a[i]
      BY <1>1
    <2> QED BY <2>1, <2>2
  <1>4. ASSUME Brings(a, t, k, j), b # <<>> => ~b[1].more
        PROVE  Brings(str, t, k, j)
    <2>1. /\ j + n <= Len(a)
          /\ \A p \in 1..n : a[j + p] = RestFrame(t, k, p)
          /\ j + n < Len(a) => ~a[j + n + 1].more
      BY <1>4 DEF Brings, n
    <2>2. j + n <= Len(str)
      BY <1>1, <1>2, <2>1
    <2>3. ASSUME NEW p \in 1..n PROVE str[j + p] = RestFrame(t, k, p)
      <3>1. j + p \in 1..Len(a)
        BY <1>1, <1>2, <2>1
      <3> QED BY <1>3, <2>1, <3>1
    <2>4. ASSUME j + n < Len(str) PROVE ~str[j + n + 1].more
      <3>1. CASE j + n < Len(a)
        <4>1. j + n + 1 \in 1..Len(a)
          BY <1>1, <1>2, <3>1
        <4> QED BY <1>3, <2>1, <3>1, <4>1
      <3>2. CASE ~(j + n < Len(a))
        <4>1. j + n + 1 = Len(a) + 1 /\ Len(b) > 0 /\ 1 \in 1..Len(b)
          BY <1>1, <1>2, <2>1, <2>4, <3>2
        <4>2. str[Len(a) + 1] = b[1] /\ ~b[1].more
          BY <1>1, <1>3, <1>4, <4>1
        <4> QED BY <4>1, <4>2
      <3> QED BY <3>1, <3>2
    <2> QED BY <2>2, <2>3, <2>4 DEF Brings, n
  <1>5. ASSUME Brings(b, t, k, j)
        PROVE  Brings(str, t, k, Len(a) + j)
    <2>1. /\ j + n <= Len(b)
          /\ \A p \in 1..n : b[j + p] = RestFrame(t, k, p)
          /\ j + n < Len(b) => ~b[j + n + 1].more
      BY <1>5 DEF Brings, n
    <2>2. Len(a) + j + n <= Len(str)
      BY <1>1, <1>2, <2>1
    <2>3. ASSUME NEW p \in 1..n PROVE str[Len(a) + j + p] = RestFrame(t, k, p)
      <3>1. j + p \in 1..Len(b) /\ Len(a) + j + p = Len(a) + (j + p)
        BY <1>1, <1>2, <2>1
      <3> QED BY <1>3, <2>1, <3>1
    <2>4. ASSUME Len(a) + j + n < Len(str) PROVE ~str[Len(a) + j + n + 1].more
      <3>1. j + n + 1 \in 1..Len(b) /\ Len(a) + j + n + 1 = Len(a) + (j + n + 1) /\ j + n < Len(b)
        BY <1>1, <1>2, <2>4
      <3> QED BY <1>3, <2>1, <3>1
    <2> QED BY <2>2, <2>3, <2>4 DEF Brings, n
  <1> QED BY <1>4, <1>5 DEF str

\* What the first frame of a table leaves is a whole number of frames.
LEMMA TableFragments ==
  ASSUME NEW t \in Tables
  PROVE  /\ t \in Seq(Byte) /\ Len(t) \in Nat /\ Least(FirstIds, Len(t)) \in 0..Len(t)
         /\ Fragments(Len(t) - Least(FirstIds, Len(t))) \in Nat
  <1>1. t \in Seq(Byte) /\ Len(t) \in Nat
    BY TablesAssumption, LenProperties
  <1>2. Least(FirstIds, Len(t)) \in 0..Len(t)
    BY <1>1 DEF Least, FirstIds
  <1> QED BY <1>1, <1>2, RestFacts

\* The first frame of a sequence of messages goes; the rest are whole.
LEMMA WholeFirst ==
  ASSUME NEW S, NEW r \in Seq(S), NEW h \in S, Whole(<<h>> \o r)
  PROVE  Whole(r)
  <1> DEFINE str == <<h>> \o r
  <1>1. Len(str) = Len(r) + 1 /\ Len(r) \in Nat /\ \A i \in 1..Len(r) : str[i + 1] = r[i]
    BY FirstOf
  <1> SUFFICES ASSUME NEW j \in 1..Len(r), ~r[j].more
               PROVE  /\ IsHead(r[j]) =>
                           \E t \in Tables : /\ r[j] = TableHead(t)
                                             /\ Brings(r, t, Least(FirstIds, Len(t)), j)
                      /\ ~IsHead(r[j]) => (j < Len(r) => ~r[j + 1].more)
    BY DEF Whole
  <1> HIDE DEF str
  <1>2. j \in Nat /\ j + 1 \in 1..Len(str) /\ str[j + 1] = r[j]
    BY <1>1
  <1>3. /\ IsHead(str[j + 1]) =>
             \E t \in Tables : /\ str[j + 1] = TableHead(t)
                               /\ Brings(str, t, Least(FirstIds, Len(t)), j + 1)
        /\ ~IsHead(str[j + 1]) => (j + 1 < Len(str) => ~str[j + 1 + 1].more)
    BY <1>2 DEF Whole, str
  <1>4. ASSUME IsHead(r[j])
        PROVE  \E t \in Tables : r[j] = TableHead(t) /\ Brings(r, t, Least(FirstIds, Len(t)), j)
    <2>1. PICK t \in Tables : str[j + 1] = TableHead(t) /\ Brings(str, t, Least(FirstIds, Len(t)), j + 1)
      BY <1>2, <1>3, <1>4
    <2>2. Brings(r, t, Least(FirstIds, Len(t)), j)
      BY <1>2, <2>1, TableFragments, BringsFirst DEF str
    <2> QED BY <1>2, <2>1, <2>2
  <1>5. ASSUME ~IsHead(r[j]), j < Len(r)
        PROVE  ~r[j + 1].more
    <2>1. j + 1 < Len(str) /\ j + 1 \in 1..Len(r) /\ str[(j + 1) + 1] = r[j + 1]
      BY <1>1, <1>2, <1>5
    <2> QED BY <1>2, <1>3, <1>5, <2>1
  <1> QED BY <1>4, <1>5

\* Messages after messages.
LEMMA WholeConcat ==
  ASSUME NEW S, NEW a \in Seq(S), NEW b \in Seq(S), Whole(a), Whole(b),
         b # <<>> => ~b[1].more
  PROVE  Whole(a \o b)
  <1> DEFINE str == a \o b
  <1>1. /\ Len(a) \in Nat /\ Len(b) \in Nat /\ Len(str) = Len(a) + Len(b)
        /\ \A i \in 1..(Len(a) + Len(b)) : str[i] = IF i <= Len(a) THEN a[i] ELSE b[i - Len(a)]
        /\ (b # <<>> <=> Len(b) > 0)
    BY LenProperties, ConcatProperties, EmptySeq
  <1> SUFFICES ASSUME NEW j \in 1..Len(str), ~str[j].more
               PROVE  /\ IsHead(str[j]) =>
                           \E t \in Tables : /\ str[j] = TableHead(t)
                                             /\ Brings(str, t, Least(FirstIds, Len(t)), j)
                      /\ ~IsHead(str[j]) => (j < Len(str) => ~str[j + 1].more)
    BY DEF Whole
  <1> HIDE DEF str
  <1>2. CASE j \in 1..Len(a)
    <2>1. str[j] = a[j] /\ j \in Nat
      BY <1>1, <1>2
    <2>2. ASSUME IsHead(a[j])
          PROVE  \E t \in Tables : a[j] = TableHead(t) /\ Brings(str, t, Least(FirstIds, Len(t)), j)
      <3>1. PICK t \in Tables : a[j] = TableHead(t) /\ Brings(a, t, Least(FirstIds, Len(t)), j)
        BY <1>2, <2>1, <2>2 DEF Whole
      <3>2. Brings(str, t, Least(FirstIds, Len(t)), j)
        BY <2>1, <3>1, TableFragments, BringsMore DEF str
      <3> QED BY <3>1, <3>2
    <2>3. ASSUME ~IsHead(a[j]), j < Len(str)
          PROVE  ~str[j + 1].more
      <3>1. CASE j < Len(a)
        <4>1. ~a[j + 1].more
          BY <1>2, <2>1, <2>3, <3>1 DEF Whole
        <4>2. str[j + 1] = a[j + 1]
          BY <1>1, <2>1, <3>1
        <4> QED BY <4>1, <4>2
      <3>2. CASE ~(j < Len(a))
        <4>1. j = Len(a) /\ Len(b) > 0 /\ (j + 1) - Len(a) = 1 /\ j + 1 \in 1..(Len(a) + Len(b))
              /\ ~(j + 1 <= Len(a))
          BY <1>1, <1>2, <2>3, <3>2
        <4>2. str[j + 1] = b[1]
          BY <1>1, <4>1
        <4> QED BY <1>1, <4>1, <4>2
      <3> QED BY <3>1, <3>2
    <2> QED BY <2>1, <2>2, <2>3
  <1>3. CASE j \notin 1..Len(a)
    <2> DEFINE i == j - Len(a)
    <2>1. i \in 1..Len(b) /\ i \in Nat /\ j = Len(a) + i /\ str[j] = b[i]
      BY <1>1, <1>3
    <2> HIDE DEF i
    <2>2. ASSUME IsHead(b[i])
          PROVE  \E t \in Tables : b[i] = TableHead(t) /\ Brings(str, t, Least(FirstIds, Len(t)), j)
      <3>1. PICK t \in Tables : b[i] = TableHead(t) /\ Brings(b, t, Least(FirstIds, Len(t)), i)
        BY <2>1, <2>2 DEF Whole
      <3>2. Brings(str, t, Least(FirstIds, Len(t)), j)
        BY <2>1, <3>1, TableFragments, BringsMore DEF str
      <3> QED BY <3>1, <3>2
    <2>3. ASSUME ~IsHead(b[i]), j < Len(str)
          PROVE  ~str[j + 1].more
      <3>1. i < Len(b) /\ (j + 1) - Len(a) = i + 1 /\ j + 1 \in 1..(Len(a) + Len(b))
            /\ ~(j + 1 <= Len(a))
        BY <1>1, <2>1, <2>3
      <3>2. ~b[i + 1].more
        BY <2>1, <2>3, <3>1 DEF Whole
      <3>3. str[j + 1] = b[i + 1]
        BY <1>1, <3>1
      <3> QED BY <3>2, <3>3
    <2> QED BY <2>1, <2>2, <2>3
  <1> QED BY <1>2, <1>3

\* A table is sent whole.
LEMMA TableWhole ==
  ASSUME NEW t \in Tables, NEW S, TableFrames(t) \in Seq(S)
  PROVE  /\ Whole(TableFrames(t)) /\ TableFrames(t) # <<>> /\ ~TableFrames(t)[1].more
  <1> DEFINE k == Least(FirstIds, Len(t))
             n == Fragments(Len(t) - k)
             str == TableFrames(t)
             rest == RestOfTable(t, k)
             o == <<TableHead(t)>>
  <1>1. n \in Nat /\ rest = [p \in 1..n |-> RestFrame(t, k, p)] /\ t \in Seq(Byte)
    BY TableFragments, RestFacts
  <1>2. Len(rest) = n /\ \A p \in 1..n : rest[p] = RestFrame(t, k, p)
    <2> HIDE DEF n, rest, k
    <2> QED BY <1>1
  <1>3. Len(str) = n + 1 /\ str[1] = TableHead(t) /\ \A p \in 1..n : str[1 + p] = RestFrame(t, k, p)
    <2>1. str = [i \in 1..(1 + n) |-> IF i <= 1 THEN o[i] ELSE rest[i - 1]]
      <3>1. Len(o) = 1
        OBVIOUS
      <3> HIDE DEF n, rest, k, o
      <3> QED BY <1>1, <1>2, <3>1 DEF TableFrames, o, rest, k
    <2>2. o[1] = TableHead(t)
      OBVIOUS
    <2> HIDE DEF n, rest, o, str
    <2> QED BY <1>1, <1>2, <2>1, <2>2
  <1>4. ~str[1].more /\ IsHead(str[1])
    <2> DEFINE c == <<SENDTABLE, Len(t)>>
               d == SubSeq(t, 1, k)
    <2>1. str[1] = [id |-> Broadcast, dat |-> c \o d, more |-> FALSE]
      BY <1>3 DEF TableHead, Frame
    <2>2. (c \o d)[1] = SENDTABLE
      <3>1. c \in Seq(Nat) /\ Len(c) = 2 /\ c[1] = SENDTABLE
        BY TableFragments DEF SENDTABLE
      <3>2. d \in Seq(Nat) /\ Len(d) \in Nat
        <4>2. k \in 0..Len(t) /\ Len(t) \in Nat /\ k \in Int
          BY TableFragments
        <4> HIDE DEF k
        <4>4. \A i \in 1..k : i \in 1..Len(t)
          BY <4>2
        <4>5. \A i \in 1..Len(t) : t[i] \in Byte
          BY TableFragments, ElementOfSeq
        <4>6. \A x \in Byte : x \in Nat
          BY DEF Byte
        <4>1. \A i \in 1..k : t[i] \in Nat
          BY <4>4, <4>5, <4>6
        <4>3. d \in Seq(Nat)
          BY <4>1, <4>2, SubSeqProperties
        <4> HIDE DEF d
        <4> QED BY <4>3, LenProperties
      <3> HIDE DEF c, d
      <3>3. \A i \in 1..(Len(c) + Len(d)) : (c \o d)[i] = IF i <= Len(c) THEN c[i] ELSE d[i - Len(c)]
        BY <3>1, <3>2, ConcatProperties
      <3>4. 1 \in 1..(Len(c) + Len(d))
        BY <3>1, <3>2
      <3> DEFINE v == c \o d
      <3>5. v[1] = IF 1 <= Len(c) THEN c[1] ELSE d[1 - Len(c)]
        BY <3>3, <3>4, Zenon
      <3> HIDE DEF v
      <3>6. v[1] = SENDTABLE
        BY <3>1, <3>5
      <3> QED BY <3>6 DEF v
    <2> DEFINE w == c \o d
    <2>3. str[1] = [id |-> Broadcast, dat |-> w, more |-> FALSE] /\ w[1] = SENDTABLE
      BY <2>1, <2>2
    <2> HIDE DEF w, str
    <2> QED BY <2>3 DEF IsHead
  <1>5. str # <<>>
    <2> HIDE DEF str, n
    <2> QED BY <1>1, <1>3
  <1>6. Brings(str, t, k, 1)
    <2>1. 1 + n <= Len(str) /\ ~(1 + n < Len(str))
      <3> HIDE DEF str, n
      <3> QED BY <1>1, <1>3
    <2> QED BY <1>3, <2>1 DEF Brings
  <1>7. ASSUME NEW j \in 1..Len(str), ~str[j].more
        PROVE  j = 1
    <2>1. CASE j # 1
      <3>1. j - 1 \in 1..n /\ j = 1 + (j - 1)
        <4> HIDE DEF str, n
        <4> QED BY <1>1, <1>3, <2>1
      <3>2. str[j] = RestFrame(t, k, j - 1)
        <4> HIDE DEF str, n, k
        <4> QED BY <1>3, <3>1
      <3> QED BY <1>7, <3>2 DEF RestFrame, Frame
    <2> QED BY <2>1
  <1> HIDE DEF str, k, n
  <1>8. Whole(str)
    BY <1>3, <1>4, <1>6, <1>7 DEF Whole, k
  <1> QED BY <1>4, <1>5, <1>8 DEF str

\* A message of one frame that begins no table.
LEMMA SingleWhole ==
  ASSUME NEW f, ~f.more, ~IsHead(f)
  PROVE  Whole(<<f>>) /\ <<f>> # <<>> /\ ~(<<f>>)[1].more
  <1> DEFINE o == <<f>>
  <1>1. Len(o) = 1 /\ o[1] = f /\ o # <<>>
    OBVIOUS
  <1> HIDE DEF o
  <1> QED BY <1>1 DEF Whole, o

\* A frame that passes from one queue to the next leaves the stream as it is.
LEMMA StreamFacts ==
  ASSUME NEW S, NEW q \in Seq(S), NEW f \in Seq(S), NEW m \in Seq(S)
  PROVE  /\ m # <<>> => q \o Append(f, Head(m)) \o Tail(m) = q \o f \o m
         /\ f # <<>> => Append(q, Head(f)) \o Tail(f) \o m = q \o f \o m
         /\ q # <<>> => q \o f \o m = <<Head(q)>> \o (Tail(q) \o f \o m)
         /\ q \o f \o m \in Seq(S)
  <1>0. \A a, b, c \in Seq(S) : (a \o b) \o c = a \o (b \o c)
    BY ConcatAssociative, SMTT(30)
  <1>1. ASSUME NEW s \in Seq(S), s # <<>>
        PROVE  /\ Head(s) \in S /\ <<Head(s)>> \in Seq(S) /\ Tail(s) \in Seq(S)
               /\ s = <<Head(s)>> \o Tail(s)
    <2> DEFINE h == Head(s)
               r == Tail(s)
               c == <<h>> \o r
    <2>1. h \in S /\ r \in Seq(S) /\ Len(r) = Len(s) - 1 /\ Len(s) \in Nat
          /\ \A i \in 1..Len(r) : r[i] = s[i + 1]
      BY <1>1, HeadTailProperties, LenProperties
    <2>2. h = s[1] /\ <<h>> \in Seq(S)
      BY <1>1, <2>1
    <2> HIDE DEF h, r
    <2>3. c \in Seq(S) /\ Len(c) = Len(r) + 1 /\ c[1] = h /\ \A j \in 1..Len(r) : c[j + 1] = r[j]
      BY <2>1, FirstOf
    <2> HIDE DEF c
    <2>4. ASSUME NEW i \in 1..Len(s) PROVE s[i] = c[i]
      <3>1. CASE i = 1
        BY <2>2, <2>3, <3>1
      <3>2. CASE i # 1
        <4>1. i - 1 \in 1..Len(r) /\ (i - 1) + 1 = i
          BY <2>1, <3>2
        <4> QED BY <2>1, <2>3, <4>1
      <3> QED BY <3>1, <3>2
    <2>5. Len(s) = Len(c)
      BY <2>1, <2>3
    <2>6. s = c
      BY <2>3, <2>4, <2>5, SeqEqual
    <2> QED BY <2>1, <2>2, <2>6 DEF c, h, r
  <1>2. q \o f \in Seq(S) /\ q \o f \o m \in Seq(S)
    BY ConcatProperties
  <1>3. ASSUME m # <<>>
        PROVE  q \o Append(f, Head(m)) \o Tail(m) = q \o f \o m
    <2> DEFINE h == Head(m)
               o == <<h>>
               r == Tail(m)
    <2>1. h \in S /\ o \in Seq(S) /\ r \in Seq(S) /\ m = o \o r
      BY <1>1, <1>3
    <2>2. Append(f, h) = f \o o
      BY <2>1, AppendIsConcat
    <2> HIDE DEF h, o, r
    <2>3. q \o (f \o o) = (q \o f) \o o
      BY <1>0, <2>1, SMTT(30)
    <2>4. ((q \o f) \o o) \o r = (q \o f) \o (o \o r)
      BY <1>0, <1>2, <2>1, SMTT(30)
    <2> QED BY <2>1, <2>2, <2>3, <2>4 DEF h, r
  <1>4. ASSUME f # <<>>
        PROVE  Append(q, Head(f)) \o Tail(f) \o m = q \o f \o m
    <2> DEFINE h == Head(f)
               o == <<h>>
               r == Tail(f)
    <2>1. h \in S /\ o \in Seq(S) /\ r \in Seq(S) /\ f = o \o r
      BY <1>1, <1>4
    <2>2. Append(q, h) = q \o o
      BY <2>1, AppendIsConcat
    <2> HIDE DEF h, o, r
    <2>3. (q \o o) \o r = q \o (o \o r)
      BY <1>0, <2>1
    <2> QED BY <2>1, <2>2, <2>3 DEF h, r
  <1>5. ASSUME q # <<>>
        PROVE  q \o f \o m = <<Head(q)>> \o (Tail(q) \o f \o m)
    <2> DEFINE o == <<Head(q)>>
               r == Tail(q)
    <2>1. o \in Seq(S) /\ r \in Seq(S) /\ q = o \o r
      BY <1>1, <1>5
    <2> HIDE DEF o, r
    <2>2. (o \o r) \o f = o \o (r \o f) /\ r \o f \in Seq(S)
      BY <1>0, <2>1, ConcatProperties
    <2>3. (o \o (r \o f)) \o m = o \o ((r \o f) \o m)
      <3> DEFINE u == r \o f
      <3>1. u \in Seq(S)
        BY <2>2
      <3> HIDE DEF u
      <3>2. (o \o u) \o m = o \o (u \o m)
        BY <1>0, <2>1, <3>1, SMTT(30)
      <3> QED BY <3>2 DEF u
    <2> QED BY <2>1, <2>2, <2>3 DEF o, r
  <1> QED BY <1>2, <1>3, <1>4, <1>5

\* When the first frame of what is left of a table has come.
LEMMA BringsNext ==
  ASSUME NEW S, NEW r \in Seq(S), NEW h \in S, NEW t \in Tables, NEW k \in 0..Len(t),
         k < Len(t), Brings(<<h>> \o r, t, k, 0)
  PROVE  LET l == Least(k + FrameBytes, Len(t))
         IN  /\ l \in (k + 1)..Len(t)
             /\ h = Frame(Broadcast, SubSeq(t, k + 1, l), TRUE)
             /\ Brings(r, t, l, 0)
  <1> DEFINE l == Least(k + FrameBytes, Len(t))
             n == Fragments(Len(t) - k)
             m == Fragments(Len(t) - l)
             str == <<h>> \o r
  <1>1. t \in Seq(Byte) /\ Len(t) \in Nat
    BY TablesAssumption, LenProperties
  <1>2. /\ n \in Nat /\ n >= 1 /\ l \in (k + 1)..Len(t) /\ m = n - 1
        /\ RestFrame(t, k, 1) = Frame(Broadcast, SubSeq(t, k + 1, l), TRUE)
        /\ \A p \in 1..(n - 1) : RestFrame(t, l, p) = RestFrame(t, k, p + 1)
    BY <1>1, RestFacts
  <1>3. /\ Len(str) = Len(r) + 1 /\ Len(r) \in Nat /\ str[1] = h
        /\ \A j \in 1..Len(r) : str[j + 1] = r[j]
    BY FirstOf
  <1>4. /\ 0 + n <= Len(str)
        /\ \A p \in 1..n : str[0 + p] = RestFrame(t, k, p)
        /\ 0 + n < Len(str) => ~str[0 + n + 1].more
    BY DEF Brings
  <1> HIDE DEF l, m, n, str
  <1>5. h = RestFrame(t, k, 1)
    <2>1. 1 \in 1..n /\ 0 + 1 = 1
      BY <1>2
    <2> QED BY <1>3, <1>4, <2>1
  <1>6. 0 + m <= Len(r)
    BY <1>2, <1>3, <1>4
  <1>7. ASSUME NEW p \in 1..m PROVE r[0 + p] = RestFrame(t, l, p)
    <2>1. p \in 1..(n - 1) /\ 0 + p = p /\ p \in 1..Len(r) /\ p + 1 \in 1..n /\ 0 + (p + 1) = p + 1
      BY <1>2, <1>3, <1>6
    <2> QED BY <1>2, <1>3, <1>4, <2>1
  <1>8. ASSUME 0 + m < Len(r) PROVE ~r[0 + m + 1].more
    <2>1. 0 + n < Len(str) /\ n \in 1..Len(r) /\ 0 + n + 1 = n + 1 /\ 0 + m + 1 = n
      BY <1>2, <1>3, <1>8
    <2> QED BY <1>3, <1>4, <2>1
  <1>9. Brings(r, t, l, 0)
    BY <1>6, <1>7, <1>8 DEF Brings, m
  <1> QED BY <1>2, <1>5, <1>9 DEF l

\* Nothing is left of a table that has come completely.
LEMMA BringsNothing ==
  ASSUME NEW S, NEW r \in Seq(S), NEW t \in Tables, Brings(r, t, Len(t), 0), r # <<>>
  PROVE  ~r[1].more
  <1>1. Len(t) - Len(t) = 0
    BY TableFragments
  <1>2. Fragments(0) = 0
    <2>1. Fragments(0) \in Nat /\ 8 * Fragments(0) < 0 + 8
      BY FragmentsFacts
    <2> PICK m : m = Fragments(0)
      OBVIOUS
    <2> QED BY <2>1
  <1>3. Len(r) > 0
    BY EmptySeq
  <1> QED BY <1>1, <1>2, <1>3 DEF Brings

-----------------------------------------------------------------------------
\* A message begins with part 1 and goes on part by part, under one identifier.
LEMMA MessageFacts ==
  ASSUME NEW id \in {Broadcast, Uninit, WishId}, NEW kind \in Kinds, WriteMessage(id, kind)
  PROVE  /\ tx' \in Seq(Replies)
         /\ tx' # <<>> => tx'[1].part = 1 /\ tx'[1].id = id
         /\ \A j \in 1..(Len(tx') - 1) : Follows(tx'[j], tx'[j + 1])
  <1> DEFINE n == Fragments(Sizes[kind])
  <1>1. n \in Nat
    <2>1. Sizes[kind] \in Nat
      BY SlaveAssumption DEF Sizes, Kinds
    <2> QED
      BY <2>1, FragmentsFacts
  <1>2. tx' = [p \in 1..n |-> [id |-> id, kind |-> kind, part |-> p]]
    BY DEF WriteMessage
  <1> HIDE DEF n
  <1>3. tx' \in Seq(Replies) /\ Len(tx') = n
    BY <1>1, <1>2 DEF Replies
  <1> QED
    BY <1>1, <1>2, <1>3 DEF Follows

-----------------------------------------------------------------------------
\* The driver's part, step by step.
LEMMA DriverStep ==
  ASSUME SInv, [Next]_vars
  PROVE  DriverInv'
  <1>0. PICK f \in Replies \cup {Empty} : mbox = [m \in 0..2 |-> IF m = 0 THEN f ELSE Empty]
    BY DEF SInv, DriverInv
  <1>a. /\ mbox[0] = f /\ mbox[1] = Empty /\ mbox[2] = Empty
        /\ DriverInv
    BY <1>0 DEF SInv
  <1>b. \A r \in Replies : r # Empty
    BY DEF Replies, Empty
  <1>s. ASSUME tx = <<>>, ~waiting, UNCHANGED <<waiting, mbox, sent>>,
               UNCHANGED tx \/ \E id \in {Broadcast, Uninit, WishId}, kind \in Kinds :
                                 WriteMessage(id, kind)
        PROVE  DriverInv'
    <2>1. CASE UNCHANGED tx
      BY <1>s, <2>1, <1>a DEF DriverInv
    <2>2. ASSUME NEW id \in {Broadcast, Uninit, WishId}, NEW kind \in Kinds,
                 WriteMessage(id, kind)
          PROVE  DriverInv'
      BY <1>s, <2>2, <1>a, MessageFacts DEF DriverInv, Follows
    <2> QED
      BY <1>s, <2>1, <2>2
  <1>1. CASE Transmit
    <2>1. tx # <<>> /\ ~waiting /\ tx' = Tail(tx) /\ waiting' = TRUE /\ sent' = sent
      BY <1>1 DEF Transmit
    <2>2. mbox[0] = Empty
      BY <2>1, <1>a DEF DriverInv
    <2>3. {m \in 0..2 : mbox[m] = Empty} = 0..2
      BY <2>2, <1>a
    <2>4. mbox' = [mbox EXCEPT ![0] = Head(tx)]
      <3>1. (CHOOSE m \in 0..2 : \A o \in 0..2 : m <= o) = 0
        OBVIOUS
      <3>2. 0..2 # {}
        OBVIOUS
      <3> QED
        BY <1>1, <2>3, <3>1, <3>2 DEF Transmit
    <2>5. Head(tx) = tx[1] /\ tx[1] \in Replies /\ Tail(tx) \in Seq(Replies)
          /\ Len(Tail(tx)) = Len(tx) - 1 /\ Len(tx) \in Nat \ {0}
          /\ \A j \in 1..(Len(tx) - 1) : Tail(tx)[j] = tx[j + 1]
      BY <2>1, <1>a DEF DriverInv
    <2>6. mbox' = [m \in 0..2 |-> IF m = 0 THEN tx[1] ELSE Empty] /\ mbox'[0] = tx[1]
      BY <2>4, <2>5, <1>0, SMTT(30)
    <2>7. Follows(sent, tx[1]) /\ \A j \in 1..(Len(tx) - 1) : Follows(tx[j], tx[j + 1])
      BY <1>a, <2>1, <2>2 DEF DriverInv
    <2>8. tx' # <<>> => Follows(tx[1], tx'[1])
      BY <2>1, <2>5, <2>7
    <2>9. \A j \in 1..(Len(tx') - 1) : Follows(tx'[j], tx'[j + 1])
      BY <2>1, <2>5, <2>7
    <2> QED
      BY <2>1, <2>5, <2>6, <2>7, <2>8, <2>9, <1>b DEF DriverInv
  <1>2. CASE TransmitDone
    BY <1>2, <1>a DEF TransmitDone, DriverInv
  <1>3. CASE BusSend
    <2>1. PICK m \in {o \in 0..2 : mbox[o] # Empty} :
            mbox' = [mbox EXCEPT ![m] = Empty] /\ sent' = mbox[m]
      BY <1>3 DEF BusSend
    <2>2. m = 0 /\ f # Empty
      BY <2>1, <1>a
    <2>3. mbox' = [o \in 0..2 |-> IF o = 0 THEN Empty ELSE Empty] /\ mbox'[0] = Empty
      BY <2>1, <2>2, <1>0
    <2>4. sent' = f /\ UNCHANGED <<tx, waiting>>
      BY <1>3, <2>1, <2>2, <1>a DEF BusSend
    <2> QED
      BY <2>2, <2>3, <2>4, <1>a DEF DriverInv
  <1>4. CASE RxData
    <2>1. tx = <<>> /\ ~waiting /\ UNCHANGED <<waiting, mbox, sent>>
      BY <1>4 DEF RxData, Ready
    <2>2. UNCHANGED tx \/ \E id \in {Broadcast, Uninit, WishId}, kind \in Kinds :
                            WriteMessage(id, kind)
      BY <1>4 DEF RxData, ReceiveExtraSlaveTable, ReceiveSlaveTable, ReceiveAddressConfirm,
                  SendSpecSheet, SendChannelData, NoCommand, SInv, SleepInv, Kinds
    <2> QED
      BY <1>s, <2>1, <2>2
  <1>5. CASE Connect
    BY <1>5, <1>s DEF Connect, SInv, SleepInv, Kinds
  <1>6. CASE UNCHANGED txVars
    BY <1>6, <1>a DEF DriverInv, txVars
  <1> QED
    BY <1>1, <1>2, <1>3, <1>4, <1>5, <1>6
       DEF Next, BusReceive, RxInterrupt, MasterTable, MasterConfirm, MasterRequest, vars

-----------------------------------------------------------------------------
\* What the master has not accepted stays unaccepted in fewer states, so a
\* sequence of harmless frames remains one.
LEMMA FramesGrow ==
  ASSUME NEW a \in BOOLEAN, NEW b \in BOOLEAN, a => b, NEW s \in Seq(Frames(a))
  PROVE  s \in Seq(Frames(b))
  <1>1. Frames(a) \subseteq Frames(b)
    BY DEF Frames
  <1> QED
    BY <1>1, SeqMonotonic

\* The first frame of a table begins with its command and has its first entries.
LEMMA HeadFacts ==
  ASSUME NEW t \in Tables
  PROVE  LET l == Least(FirstIds, Len(t))
             e == TableHead(t).dat
         IN  /\ e \in Seq(Byte) /\ Len(e) = 2 + l /\ e[1] = SENDTABLE /\ e[2] = Len(t)
             /\ SubSeq(e, 3, 2 + l) = SubSeq(t, 1, l)
             /\ TableHead(t) = [id |-> Broadcast, dat |-> e, more |-> FALSE]
  <1> DEFINE l == Least(FirstIds, Len(t))
             c == <<SENDTABLE, Len(t)>>
             d == SubSeq(t, 1, l)
             e == c \o d
             u == SubSeq(e, 3, 2 + l)
  <1>1. c \in Seq(Byte) /\ Len(c) = 2 /\ c[1] = SENDTABLE /\ c[2] = Len(t)
    <2>1. SENDTABLE \in Byte /\ Len(t) \in Byte
      BY TablesAssumption DEF SENDTABLE, Byte
    <2> QED
      BY <2>1
  <1>2. d \in Seq(Byte) /\ Len(d) = l /\ l \in Nat
    <2>1. t \in Seq(Byte) /\ Len(t) \in Nat /\ l \in 0..Len(t)
      BY TableFragments
    <2> HIDE DEF l
    <2>2. \A i \in 1..l : t[i] \in Byte
      <3>1. \A i \in 1..l : i \in 1..Len(t)
        BY <2>1
      <3> QED
        BY <2>1, <3>1, ElementOfSeq
    <2>3. l \in Int /\ l \in Nat /\ (IF 1 <= l THEN l - 1 + 1 ELSE 0) = l
      BY <2>1
    <2> QED
      BY <2>2, <2>3, SubSeqProperties
  <1> HIDE DEF c, d, l
  <1>3. /\ e \in Seq(Byte) /\ Len(e) = 2 + l /\ e[1] = SENDTABLE /\ e[2] = Len(t)
        /\ \A i \in 1..l : e[i + 2] = d[i]
    <2>1. /\ e \in Seq(Byte) /\ Len(e) = Len(c) + Len(d)
          /\ \A i \in 1..(Len(c) + Len(d)) :
               e[i] = IF i <= Len(c) THEN c[i] ELSE d[i - Len(c)]
      <3>1. c \in Seq(Byte) /\ d \in Seq(Byte)
        BY <1>1, <1>2
      <3> QED
        BY <3>1, ConcatProperties
    <2> HIDE DEF e
    <2>2. 1 \in 1..(2 + l) /\ 2 \in 1..(2 + l) /\ e[1] = c[1] /\ e[2] = c[2]
      BY <1>1, <1>2, <2>1
    <2>3. ASSUME NEW i \in 1..l PROVE e[i + 2] = d[i]
      <3>1. i + 2 \in 1..(2 + l) /\ ~(i + 2 <= 2) /\ (i + 2) - 2 = i
        BY <1>2
      <3> QED
        BY <1>1, <1>2, <2>1, <3>1
    <2> QED
      BY <1>1, <1>2, <2>1, <2>2, <2>3
  <1> HIDE DEF e
  <1>4. u = d
    <2>1. \A i \in 3..(2 + l) : e[i] \in Byte
      <3>1. \A i \in 3..(2 + l) : i \in 1..Len(e)
        BY <1>2, <1>3
      <3> QED
        BY <1>3, <3>1, ElementOfSeq
    <2>2. 3 \in Int /\ 2 + l \in Int /\ (2 + l) - 3 + 1 = l /\ (3 <= 2 + l => (2 + l) - 3 + 1 = l)
          /\ (~(3 <= 2 + l) => l = 0)
      BY <1>2
    <2>3. /\ u \in Seq(Byte) /\ Len(u) = l
          /\ \A i \in 1..l : u[i] = e[3 + i - 1]
      BY <2>1, <2>2, SubSeqProperties
    <2> HIDE DEF u
    <2>4. ASSUME NEW i \in 1..Len(u) PROVE u[i] = d[i]
      <3>1. i \in 1..l /\ 3 + i - 1 = i + 2
        BY <1>2, <2>3
      <3> QED
        BY <1>3, <2>3, <3>1
    <2> QED
      BY <1>2, <2>3, <2>4, SeqEqual
  <1>5. TableHead(t) = [id |-> Broadcast, dat |-> e, more |-> FALSE]
    BY DEF TableHead, Frame, e, c, d, l
  <1>6. TableHead(t).dat = e
    BY <1>5
  <1> HIDE DEF u
  <1>7. /\ e \in Seq(Byte) /\ Len(e) = 2 + l /\ e[1] = SENDTABLE /\ e[2] = Len(t)
        /\ u = d /\ TableHead(t) = [id |-> Broadcast, dat |-> e, more |-> FALSE]
    BY <1>3, <1>4, <1>5
  <1> QED
    BY <1>6, <1>7, Zenon DEF u, d, l

\* It is none of the frames that accept an address.
LEMMA HeadHarmless ==
  ASSUME NEW t \in Tables, NEW b \in BOOLEAN
  PROVE  TableHead(t) \in Frames(b)
  <1> PICK e : e = TableHead(t).dat
    OBVIOUS
  <1>1. /\ e \in Seq(Byte) /\ Len(e) = 2 + Least(FirstIds, Len(t))
        /\ e[1] = SENDTABLE /\ e[2] = Len(t)
        /\ TableHead(t) = [id |-> Broadcast, dat |-> e, more |-> FALSE]
    BY HeadFacts
  <1>2. Len(t) \in Nat
    BY TableFragments
  <1>3. /\ Len(e) >= 2 /\ (Len(t) > FirstIds => Len(e) = FrameBytes)
        /\ (Len(t) <= FirstIds => Len(e) >= 2 + Len(t))
    BY <1>1, <1>2 DEF Least, FirstIds, FrameBytes
  <1>4. e[1] # CONFIRM
    BY <1>1 DEF SENDTABLE, CONFIRM
  <1> QED
    BY <1>1, <1>3, <1>4 DEF Frames, Accepts, Readable, Broadcast, WishId

\* A continuation frame is not taken for an acceptance: the identifiers of a
\* table differ, and this module's chip id has a byte three times.
LEMMA RestHarmless ==
  ASSUME NEW t \in Tables, NEW j \in (FirstIds + 1)..Len(t), NEW k \in j..Len(t),
         (j - FirstIds - 1) % FrameBytes = 0,
         k = j + FrameBytes - 1 \/ (k < j + FrameBytes - 1 /\ k = Len(t)),
         NEW b \in BOOLEAN
  PROVE  Frame(Broadcast, SubSeq(t, j, k), TRUE) \in Frames(b)
  <1> DEFINE d == SubSeq(t, j, k)
  <1>1. /\ t \in Seq(Byte) /\ Len(t) \in Nat
        /\ \A i, m \in 1..Len(t) : t[i] = t[m] => i = m
        /\ t[j] = CONFIRM => j + FrameBytes - 2 <= Len(t)
        /\ t[j] = SENDTABLE => j + FrameBytes - 1 <= Len(t) /\ t[j + 1] >= 2
        /\ j \in 1..Len(t) /\ k \in 1..Len(t) /\ k >= j
    BY TablesAssumption DEF FirstIds
  <1>2. /\ d \in Seq(Byte) /\ Len(d) = k - j + 1
        /\ \A i \in 1..(k - j + 1) : d[i] = t[j + i - 1]
    <2>1. \A i \in j..k : t[i] \in Byte
      BY <1>1
    <2> QED
      BY <2>1, <1>1, SubSeqProperties
  <1> HIDE DEF d
  <1>3. ASSUME d[1] = CONFIRM, SubSeq(d, 2, 7) = ChipId
        PROVE  FALSE
    <2>1. k >= j + 6
      <3>1. d[1] = t[j]
        BY <1>1, <1>2
      <3>2. j + FrameBytes - 2 <= Len(t)
        BY <3>1, <1>1, <1>3
      <3>3. /\ j \in Nat /\ k \in Nat /\ Len(t) \in Nat
            /\ j + 8 - 2 <= Len(t)
            /\ k = j + 8 - 1 \/ (k < j + 8 - 1 /\ k = Len(t))
        BY <3>2, <1>1 DEF FrameBytes
      <3> QED
        BY <3>3
    <2>2. d[5] = SubSeq(d, 2, 7)[4] /\ d[6] = SubSeq(d, 2, 7)[5]
      <3>1. \A i \in 2..7 : d[i] \in Byte
        BY <1>1, <1>2, <2>1
      <3> QED
        BY <3>1, SubSeqProperties
    <2>3. ChipId[4] = 0 /\ ChipId[5] = 0
      BY DEF ChipId
    <2>4. d[5] = t[j + 4] /\ d[6] = t[j + 5]
      BY <2>1, <1>1, <1>2
    <2>5. t[j + 4] = t[j + 5]
      BY <2>2, <2>3, <2>4, <1>3
    <2>6. j + 4 \in 1..Len(t) /\ j + 5 \in 1..Len(t) /\ j + 4 # j + 5
      BY <2>1, <1>1
    <2> QED
      BY <2>5, <2>6, <1>1
  <1>5. ASSUME d[1] = SENDTABLE
        PROVE  Len(d) = 8 /\ d[2] \in Nat
    <2>1. d[1] = t[j]
      BY <1>1, <1>2
    <2>2. j + 8 - 1 <= Len(t)
      BY <1>1, <1>5, <2>1 DEF FrameBytes
    <2>3. k = j + 7
      BY <1>1, <2>2 DEF FrameBytes
    <2>4. Len(d) = 8
      BY <1>1, <1>2, <2>3
    <2>5. 2 \in 1..Len(d)
      BY <2>4
    <2>6. d[2] \in Byte
      BY <1>2, <2>5, ElementOfSeq
    <2>7. \A x \in Byte : x \in Nat
      BY DEF Byte
    <2> QED
      BY <2>4, <2>6, <2>7
  <1>4. Frame(Broadcast, d, TRUE) \in Frames(b)
    <2>1. d[1] = SENDTABLE => /\ Len(d) >= 2 /\ (d[2] > FirstIds => Len(d) = FrameBytes)
                              /\ (d[2] <= FirstIds => Len(d) >= 2 + d[2])
      <3>1. \A l, x : l = 8 /\ x \in Nat => /\ l >= 2 /\ (x > FirstIds => l = FrameBytes)
                                            /\ (x <= FirstIds => l >= 2 + x)
        BY DEF FirstIds, FrameBytes
      <3> QED
        BY <1>5, <3>1
    <2> QED
      BY <1>2, <1>3, <2>1 DEF Frame, Frames, Accepts, Readable, Broadcast, WishId
  <1> QED
    BY <1>4 DEF d

\* The frames of a table are harmless.
LEMMA TableHarmless ==
  ASSUME NEW t \in Tables, NEW b \in BOOLEAN
  PROVE  TableFrames(t) \in Seq(Frames(b))
  <1> DEFINE i == Least(FirstIds, Len(t))
             n == Fragments(Len(t) - i)
             rest == RestOfTable(t, i)
             head == TableHead(t)
  <1>1. /\ t \in Seq(Byte) /\ Len(t) \in Nat /\ i \in 0..Len(t) /\ n \in Nat
        /\ rest = [p \in 1..n |-> RestFrame(t, i, p)]
        /\ \A p \in 1..n : i + FrameBytes * (p - 1) < Len(t)
    BY TableFragments, RestFacts
  <1>2. i = (IF Len(t) <= FirstIds THEN Len(t) ELSE FirstIds)
    BY <1>1 DEF Least, FirstIds
  <1>3. head \in Frames(b)
    BY HeadHarmless
  <1> HIDE DEF head, i, n, rest
  <1>4. ASSUME NEW p \in 1..n
        PROVE  RestFrame(t, i, p) \in Frames(b)
    <2> DEFINE j == i + FrameBytes * (p - 1) + 1
               k == Least(i + FrameBytes * p, Len(t))
    <2>1. /\ i = FirstIds /\ p \in Nat /\ p >= 1 /\ i + FrameBytes * (p - 1) < Len(t)
      <3>1. p \in Nat /\ p >= 1 /\ FrameBytes * (p - 1) \in Nat
        BY <1>1 DEF FrameBytes
      <3>2. i + FrameBytes * (p - 1) < Len(t)
        BY <1>1
      <3> DEFINE z == FrameBytes * (p - 1)
      <3>3. z \in Nat /\ i + z < Len(t)
        BY <3>1, <3>2
      <3> HIDE DEF z
      <3>4. ~(Len(t) <= FirstIds)
        BY <1>1, <1>2, <3>3 DEF FirstIds
      <3> QED
        BY <1>2, <3>1, <3>2, <3>4
    <2>2. /\ j \in (FirstIds + 1)..Len(t) /\ k \in j..Len(t)
          /\ (j - FirstIds - 1) % FrameBytes = 0
          /\ k = j + FrameBytes - 1 \/ (k < j + FrameBytes - 1 /\ k = Len(t))
      BY <1>1, <2>1 DEF FirstIds, FrameBytes, Least
    <2>3. RestFrame(t, i, p) = Frame(Broadcast, SubSeq(t, j, k), TRUE)
      BY DEF RestFrame
    <2> HIDE DEF j, k
    <2> QED
      BY <2>2, <2>3, RestHarmless
  <1>5. rest \in Seq(Frames(b))
    <2> DEFINE r(p) == RestFrame(t, i, p)
    <2>1. rest = [p \in 1..n |-> r(p)] /\ \A p \in 1..n : r(p) \in Frames(b)
      BY <1>1, <1>4
    <2> HIDE DEF r
    <2> QED
      BY <1>1, <2>1
  <1>6. TableFrames(t) = <<head>> \o rest
    BY DEF TableFrames, head, rest, i
  <1>7. <<head>> \in Seq(Frames(b))
    BY <1>3
  <1> QED
    BY <1>5, <1>6, <1>7, ConcatProperties

\* Of the confirmations only the acceptance of this chip is taken for one.
LEMMA ConfirmationOf ==
  ASSUME NEW chip \in Seq(Byte), Len(chip) = 6, NEW ack \in Byte,
         NEW b \in BOOLEAN, b \/ chip # ChipId \/ ack # 0
  PROVE  Confirmation(chip, ack) \in Frames(b)
  <1> DEFINE c == <<CONFIRM>> \o chip
             d == c \o <<ack>>
  <1>0. CONFIRM \in Byte
    BY DEF CONFIRM, Byte
  <1>1. <<CONFIRM>> \in Seq(Byte) /\ Len(<<CONFIRM>>) = 1
        /\ <<ack>> \in Seq(Byte) /\ Len(<<ack>>) = 1 /\ <<ack>>[1] = ack
    BY <1>0
  <1>2. /\ c \in Seq(Byte) /\ Len(c) = 7 /\ c[1] = CONFIRM
        /\ \A i \in 1..6 : c[i + 1] = chip[i]
    <2>1. /\ c \in Seq(Byte) /\ Len(c) = Len(<<CONFIRM>>) + Len(chip)
          /\ \A i \in 1..(Len(<<CONFIRM>>) + Len(chip)) :
               c[i] = IF i <= Len(<<CONFIRM>>) THEN <<CONFIRM>>[i] ELSE chip[i - Len(<<CONFIRM>>)]
      BY <1>1, ConcatProperties, Zenon
    <2> HIDE DEF c
    <2> QED
      BY <2>1, <1>1
  <1> HIDE DEF c
  <1>3. /\ d \in Seq(Byte) /\ Len(d) = 8 /\ d[8] = ack /\ d[1] = CONFIRM
        /\ \A i \in 1..6 : d[i + 1] = chip[i]
    <2>1. /\ d \in Seq(Byte) /\ Len(d) = Len(c) + Len(<<ack>>)
          /\ \A i \in 1..(Len(c) + Len(<<ack>>)) :
               d[i] = IF i <= Len(c) THEN c[i] ELSE <<ack>>[i - Len(c)]
      BY <1>1, <1>2, ConcatProperties, ZenonT(30)
    <2> HIDE DEF d
    <2> QED
      BY <2>1, <1>1, <1>2
  <1> HIDE DEF d
  <1>4. SubSeq(d, 2, 7) = chip
    <2>1. \A i \in 2..7 : d[i] \in Byte
      <3>1. \A i \in 1..Len(d) : d[i] \in Byte
        BY <1>3, ElementOfSeq
      <3> QED
        BY <3>1, <1>3
    <2>2. /\ SubSeq(d, 2, 7) \in Seq(Byte) /\ Len(SubSeq(d, 2, 7)) = 6
          /\ \A i \in 1..6 : SubSeq(d, 2, 7)[i] = d[2 + i - 1]
      BY <2>1, SubSeqProperties
    <2>3. \A i \in 1..6 : SubSeq(d, 2, 7)[i] = chip[i]
      BY <2>2, <1>3
    <2> QED
      BY <2>2, <2>3, SeqEqual
  <1>5. Confirmation(chip, ack) = [id |-> Broadcast, dat |-> d, more |-> FALSE]
    BY DEF Confirmation, Frame, c, d
  <1>6. Accepts(Confirmation(chip, ack)) => chip = ChipId /\ ack = 0
    <2>1. Confirmation(chip, ack).dat = d /\ d[Len(d)] = ack
      BY <1>3, <1>5
    <2> QED
      BY <1>4, <2>1, Zenon DEF Accepts
  <1>7. /\ Confirmation(chip, ack) \in [id : {Broadcast, WishId}, dat : Seq(Byte), more : BOOLEAN]
        /\ Confirmation(chip, ack).id # WishId /\ Readable(Confirmation(chip, ack))
    BY <1>3, <1>5 DEF Broadcast, WishId, Readable, CONFIRM, SENDTABLE
  <1> QED
    BY <1>6, <1>7 DEF Frames

\* The confirmations the master sends.
LEMMA ConfirmHarmless ==
  ASSUME NEW b \in BOOLEAN
  PROVE  /\ b => Confirmation(ChipId, 0) \in Frames(b)
         /\ Confirmation(ChipId, 255) \in Frames(b)
         /\ Confirmation(OtherChip, 0) \in Frames(b)
  <1>1. \A x \in {0, 1, 2, 3, 4, 5, 6, 69, 158, 184, 255} : x \in Byte
    BY DEF Byte
  <1>2. ChipId \in Seq(Byte) /\ Len(ChipId) = 6 /\ ChipId[1] = 158
    BY <1>1 DEF ChipId
  <1>3. OtherChip \in Seq(Byte) /\ Len(OtherChip) = 6 /\ OtherChip[1] = 1
    BY <1>1 DEF OtherChip
  <1>4. OtherChip # ChipId /\ 255 # 0 /\ 255 \in Byte /\ 0 \in Byte
    BY <1>1, <1>2, <1>3
  <1>5. ASSUME b
        PROVE  Confirmation(ChipId, 0) \in Frames(b)
    <2>1. ASSUME NEW ack \in Byte
          PROVE  Confirmation(ChipId, ack) \in Frames(b)
      BY <1>2, <1>5, ConfirmationOf
    <2> QED
      BY <2>1, <1>4
  <1>6. Confirmation(ChipId, 255) \in Frames(b)
    BY <1>2, <1>4, ConfirmationOf
  <1>7. Confirmation(OtherChip, 0) \in Frames(b)
    BY <1>3, <1>4, ConfirmationOf
  <1> QED
    BY <1>5, <1>6, <1>7

\* A request is none either.
LEMMA RequestHarmless ==
  ASSUME NEW b \in BOOLEAN, NEW dat \in {<<REQSPEC>>, <<REQDATA, 1>>}
  PROVE  Frame(WishId, dat, FALSE) \in Frames(b)
  <1>1. dat \in Seq(Byte)
    <2>1. REQSPEC \in Byte /\ REQDATA \in Byte /\ 1 \in Byte
      BY DEF REQSPEC, REQDATA, Byte
    <2>2. <<REQSPEC>> \in Seq(Byte)
      BY <2>1
    <2>3. <<REQDATA, 1>> \in Seq(Byte)
      BY <2>1
    <2> QED
      BY <2>2, <2>3
  <1>2. dat[1] # CONFIRM /\ dat[1] # SENDTABLE
    BY DEF REQSPEC, REQDATA, CONFIRM, SENDTABLE
  <1> QED
    BY <1>1, <1>2 DEF Frame, Frames, Accepts, Readable

-----------------------------------------------------------------------------
\* The frames on their way, step by step.
LEMMA FrameStep ==
  ASSUME SInv, [Next]_vars
  PROVE  FrameInv'
  <1>0. FrameInv
    BY DEF SInv
  <1>s. ASSUME assigned' \in BOOLEAN, assigned => assigned',
               UNCHANGED <<queue, fifo>>, msend' \in Seq(Frames(assigned'))
        PROVE  FrameInv'
    BY <1>s, <1>0, FramesGrow DEF FrameInv
  <1>1. CASE BusReceive
    <2> DEFINE F == Frames(assigned)
    <2>1. /\ msend \in Seq(F) /\ msend # <<>> /\ fifo \in Seq(F) /\ queue \in Seq(F)
          /\ UNCHANGED <<queue, assigned>> /\ assigned \in BOOLEAN
          /\ msend' = Tail(msend)
          /\ fifo' = IF Len(fifo) < FifoLen THEN Append(fifo, Head(msend))
                     ELSE [fifo EXCEPT ![FifoLen] = Head(msend)]
      BY <1>1, <1>0 DEF BusReceive, FrameInv
    <2> HIDE DEF F
    <2>2. Head(msend) \in F /\ Tail(msend) \in Seq(F)
      BY <2>1, HeadTailProperties
    <2>3. fifo' \in Seq(F)
      <3>1. CASE Len(fifo) < FifoLen
        BY <2>1, <2>2, <3>1
      <3>2. CASE ~(Len(fifo) < FifoLen)
        <4>1. FifoLen \in 1..Len(fifo)
          BY <2>1, <3>2, LenProperties, SlaveAssumption
        <4> QED
          BY <2>1, <2>2, <3>2, <4>1, ExceptSeq
      <3> QED
        BY <3>1, <3>2
    <2>4. F' = F
      BY <2>1 DEF F
    <2> QED
      BY <2>1, <2>2, <2>3 DEF FrameInv, F
  <1>2. CASE RxInterrupt
    <2> DEFINE F == Frames(assigned)
    <2>1. /\ msend \in Seq(F) /\ fifo # <<>> /\ fifo \in Seq(F) /\ queue \in Seq(F)
          /\ UNCHANGED <<msend, assigned>> /\ assigned \in BOOLEAN
          /\ fifo' = Tail(fifo)
          /\ queue' = IF Len(queue) < QueueLen THEN Append(queue, Head(fifo)) ELSE queue
      BY <1>2, <1>0 DEF RxInterrupt, FrameInv, masterVars
    <2> HIDE DEF F
    <2>2. fifo' \in Seq(F) /\ queue' \in Seq(F)
      BY <2>1, HeadTailProperties
    <2> QED
      BY <2>1, <2>2 DEF FrameInv, F
  <1>3. CASE RxData
    <2>1. queue # <<>> /\ queue' = Tail(queue) /\ UNCHANGED <<fifo, msend, assigned>>
      BY <1>3 DEF RxData, masterVars
    <2>2. queue' \in Seq(Frames(assigned))
      BY <2>1, <1>0, HeadTailProperties DEF FrameInv
    <2> QED
      BY <1>0, <2>1, <2>2 DEF FrameInv
  <1>4. CASE MasterTable
    <2>1. PICK t \in Tables : msend' = TableFrames(t)
      BY <1>4 DEF MasterTable
    <2>2. UNCHANGED <<queue, fifo, assigned>>
      BY <1>4 DEF MasterTable, rxVars
    <2> QED
      BY <1>0, <1>s, <2>1, <2>2, TableHarmless DEF FrameInv
  <1>5. CASE MasterConfirm
    <2>1. /\ UNCHANGED <<queue, fifo>>
          /\ \/ msend' = <<Confirmation(ChipId, 0)>> /\ assigned' = TRUE
             \/ msend' = <<Confirmation(ChipId, 255)>> /\ UNCHANGED assigned
             \/ msend' = <<Confirmation(OtherChip, 0)>> /\ UNCHANGED assigned
      BY <1>5 DEF MasterConfirm, rxVars
    <2>2. assigned' \in BOOLEAN /\ (assigned => assigned')
      BY <2>1, <1>0 DEF FrameInv
    <2>3. PICK f \in Frames(assigned') : msend' = <<f>>
      BY <2>1, <2>2, ConfirmHarmless
    <2>4. msend' \in Seq(Frames(assigned'))
      BY <2>3
    <2> QED
      BY <1>s, <2>1, <2>2, <2>4
  <1>6. CASE MasterRequest
    <2>1. PICK dat \in {<<REQSPEC>>, <<REQDATA, 1>>} : msend' = <<Frame(WishId, dat, FALSE)>>
      BY <1>6 DEF MasterRequest
    <2>2. UNCHANGED <<queue, fifo, assigned>> /\ assigned \in BOOLEAN
      BY <1>6, <1>0 DEF MasterRequest, rxVars, FrameInv
    <2>3. Frame(WishId, dat, FALSE) \in Frames(assigned')
      BY <2>2, RequestHarmless
    <2>4. msend' \in Seq(Frames(assigned'))
      <3>1. PICK f \in Frames(assigned') : msend' = <<f>>
        BY <2>1, <2>3
      <3> QED
        BY <3>1
    <2> QED
      BY <1>s, <2>2, <2>4
  <1>7. CASE UNCHANGED <<queue, fifo, msend, assigned>>
    BY <1>0, <1>7 DEF FrameInv
  <1> QED
    BY <1>1, <1>2, <1>3, <1>4, <1>5, <1>6, <1>7
       DEF Next, Transmit, TransmitDone, BusSend, Connect, rxVars, masterVars, vars

-----------------------------------------------------------------------------
\* The address and the sleeping task, step by step.
LEMMA SleepStep ==
  ASSUME SInv, [Next]_vars
  PROVE  SleepInv'
  <1>0. SleepInv
    BY DEF SInv
  <1>1. CASE RxData
    <2>1. task = "loop" /\ task' = task
      BY <1>1 DEF RxData, Ready
    <2>2. canid' \in {Broadcast, WishId}
      BY <1>0, <1>1 DEF SleepInv, RxData, ReceiveExtraSlaveTable, ReceiveSlaveTable,
           ReceiveAddressConfirm, SendSpecSheet, SendChannelData, NoCommand, slaveVars
    <2> QED
      BY <2>1, <2>2 DEF SleepInv
  <1>2. CASE Connect
    BY <1>0, <1>2 DEF SleepInv, Connect, slaveVars
  <1>3. CASE Transmit
    BY <1>0, <1>3 DEF SleepInv, Transmit, slaveVars
  <1>4. CASE TransmitDone
    BY <1>0, <1>4 DEF SleepInv, TransmitDone, slaveVars
  <1>5. CASE BusSend
    BY <1>0, <1>5 DEF SleepInv, BusSend, slaveVars
  <1>6. CASE UNCHANGED <<canid, task, tx, waiting>>
    BY <1>0, <1>6 DEF SleepInv
  <1> QED
    BY <1>1, <1>2, <1>3, <1>4, <1>5, <1>6
       DEF Next, BusReceive, RxInterrupt, MasterTable, MasterConfirm, MasterRequest,
           slaveVars, txVars, vars

-----------------------------------------------------------------------------
(* The slave and the frames on their way *)

\* The first frame in the queue.
LEMMA HeadFrame ==
  ASSUME SInv, RxData
  PROVE  LET f == Head(queue)
         IN  /\ f \in Frames(assigned)
             /\ f = [id |-> f.id, dat |-> Dat, more |-> f.more]
             /\ Dat \in Seq(Byte) /\ Len(Dat) \in Nat /\ Readable(f) /\ f.more \in BOOLEAN
             /\ f.id \in {Broadcast, WishId}
             /\ f.id = WishId => ~f.more /\ Dat \in {<<REQSPEC>>, <<REQDATA, 1>>}
  <1> DEFINE f == Head(queue)
  <1>1. f \in Frames(assigned)
    BY HeadTailProperties DEF SInv, FrameInv, RxData
  <1>2. Dat = f.dat
    BY DEF Dat
  <1> HIDE DEF f
  <1>3. Dat \in Seq(Byte)
    BY <1>1, <1>2 DEF Frames
  <1>4. /\ f = [id |-> f.id, dat |-> f.dat, more |-> f.more] /\ Readable(f)
        /\ f.more \in BOOLEAN /\ f.id \in {Broadcast, WishId}
        /\ f.id = WishId => ~f.more /\ f.dat \in {<<REQSPEC>>, <<REQDATA, 1>>}
    BY <1>1 DEF Frames
  <1>5. Len(Dat) \in Nat
    BY <1>3, LenProperties
  <1> HIDE DEF Dat
  <1> QED
    BY <1>1, <1>2, <1>3, <1>4, <1>5 DEF f

\* Numbers the slave counts with stay bytes, and so do the entries of its table.
LEMMA SlaveStep ==
  ASSUME SInv, RxData
  PROVE  extratable' \in BOOLEAN /\ capacity' \in 0..255 /\ idtable' \in Seq(Byte)
  <1>1. extratable \in BOOLEAN /\ capacity \in 0..255 /\ idtable \in Seq(Byte)
    BY DEF SInv, SlaveTypes
  <1>2. Dat \in Seq(Byte) /\ Len(Dat) \in Nat /\ Readable(Head(queue)) /\ Head(queue).dat = Dat
    BY HeadFrame DEF Dat
  <1>3. ASSUME ReceiveExtraSlaveTable
        PROVE  extratable' \in BOOLEAN /\ capacity' \in 0..255 /\ idtable' \in Seq(Byte)
    <2> DEFINE left == (capacity - Len(Dat)) % 256
               all == idtable \o Dat
    <2>1. left \in 0..255
      <3>1. \A c \in 0..255, l \in Nat : (c - l) % 256 \in 0..255
        OBVIOUS
      <3> QED
        BY <1>1, <1>2, <3>1, Zenon
    <2>2. all \in Seq(Byte)
      BY <1>1, <1>2, ConcatProperties
    <2>3. /\ capacity' = left /\ extratable' = (left > 0)
          /\ idtable' = IF left > 0 THEN all ELSE TableTrim(all)
      BY <1>3 DEF ReceiveExtraSlaveTable
    <2> HIDE DEF left, all
    <2> QED
      BY <2>1, <2>2, <2>3, TrimFacts
  <1>4. ASSUME ReceiveSlaveTable
        PROVE  extratable' \in BOOLEAN /\ capacity' \in 0..255 /\ idtable' \in Seq(Byte)
    <2> PICK d, size : d = Dat /\ size = Dat[2]
      OBVIOUS
    <2>1. /\ d \in Seq(Byte) /\ Len(d) >= 2 /\ Len(d) \in Nat
          /\ size > FirstIds => Len(d) = FrameBytes
          /\ size <= FirstIds => Len(d) >= 2 + size
      BY <1>2, <1>4 DEF ReceiveSlaveTable, Readable
    <2>2. size \in 0..255
      <3>1. 2 \in 1..Len(d)
        BY <2>1
      <3>2. d[2] \in Byte
        BY <2>1, <3>1, ElementOfSeq
      <3> QED
        BY <3>2 DEF Byte
    <2>3. /\ extratable' = (size > FirstIds)
          /\ size > FirstIds => capacity' = size - FirstIds /\ idtable' = SubSeq(d, 3, FrameBytes)
          /\ ~(size > FirstIds) => capacity' = 0 /\ idtable' = TableTrim(SubSeq(d, 3, 2 + size))
      <3>1. size <= FirstIds <=> ~(size > FirstIds)
        BY <2>2 DEF FirstIds
      <3> QED
        BY <1>4, <3>1 DEF ReceiveSlaveTable
    <2>4. ASSUME NEW n \in Nat, n <= Len(d)
          PROVE  SubSeq(d, 3, n) \in Seq(Byte)
      <3>1. \A i \in 3..n : i \in 1..Len(d)
        BY <2>1, <2>4
      <3>2. \A i \in 3..n : d[i] \in Byte
        BY <2>1, <3>1, ElementOfSeq
      <3> QED
        BY <3>2, SubSeqProperties
    <2>5. CASE size > FirstIds
      <3>1. capacity' \in 0..255
        <4>1. \A s \in 0..255 : s > FirstIds => s - FirstIds \in 0..255
          BY DEF FirstIds
        <4> QED
          BY <2>2, <2>3, <2>5, <4>1, Zenon
      <3>2. SubSeq(d, 3, FrameBytes) \in Seq(Byte)
        BY <2>1, <2>4, <2>5 DEF FrameBytes
      <3> QED
        BY <2>3, <2>5, <3>1, <3>2
    <2>6. CASE ~(size > FirstIds)
      <3>1. 2 + size \in Nat /\ 2 + size <= Len(d)
        <4>1. \A s \in 0..255, l \in Nat :
                ~(s > FirstIds) /\ (s <= FirstIds => l >= 2 + s) => 2 + s \in Nat /\ 2 + s <= l
          BY DEF FirstIds
        <4> QED
          BY <2>1, <2>2, <2>6, <4>1, Zenon
      <3>2. TableTrim(SubSeq(d, 3, 2 + size)) \in Seq(Byte)
        BY <2>4, <3>1, TrimFacts
      <3> QED
        BY <2>3, <2>6, <3>2
    <2> QED
      BY <2>5, <2>6
  <1>5. CASE UNCHANGED <<extratable, capacity, idtable>>
    BY <1>1, <1>5
  <1> QED
    BY <1>3, <1>4, <1>5 DEF RxData, ReceiveAddressConfirm, SendSpecSheet, SendChannelData,
         NoCommand, slaveVars

\* The types, step by step.
LEMMA TypesStep ==
  ASSUME SInv, [Next]_vars
  PROVE  SlaveTypes'
  <1>0. SlaveTypes
    BY DEF SInv
  <1>a. QueueLen \in Nat /\ FifoLen \in Nat
    BY SlaveAssumption
  <1>b. /\ queue \in Seq(Frames(assigned)) /\ fifo \in Seq(Frames(assigned))
        /\ msend \in Seq(Frames(assigned))
    BY DEF SInv, FrameInv
  <1> DEFINE F == Frames(assigned)
  <1> HIDE DEF F
  <1>1. CASE BusReceive
    <2>1. /\ msend # <<>>
          /\ fifo' = IF Len(fifo) < FifoLen THEN Append(fifo, Head(msend))
                     ELSE [fifo EXCEPT ![FifoLen] = Head(msend)]
          /\ lost' = (lost \/ Len(fifo) = FifoLen)
          /\ UNCHANGED <<extratable, capacity, idtable, task, queue, todo>>
      BY <1>1 DEF BusReceive, slaveVars
    <2>2. fifo \in Seq(F) /\ Head(msend) \in F /\ Len(fifo) \in Nat
      BY <1>b, <2>1, HeadTailProperties, LenProperties DEF F
    <2>3. Len(fifo') <= FifoLen
      <3>1. CASE Len(fifo) < FifoLen
        <4>1. Len(fifo') = Len(fifo) + 1
          BY <2>1, <2>2, <3>1, AppendProperties
        <4> QED
          BY <1>a, <2>2, <3>1, <4>1
      <3>2. CASE ~(Len(fifo) < FifoLen)
        <4>1. FifoLen \in 1..Len(fifo)
          BY <2>2, <3>2, SlaveAssumption
        <4>2. Len(fifo') = Len(fifo)
          BY <2>1, <2>2, <3>2, <4>1, ExceptSeq
        <4> QED
          BY <1>0, <4>2 DEF SlaveTypes
      <3> QED
        BY <3>1, <3>2
    <2> QED
      BY <1>0, <2>1, <2>3 DEF SlaveTypes
  <1>2. CASE RxInterrupt
    <2>1. /\ fifo # <<>> /\ fifo' = Tail(fifo)
          /\ queue' = IF Len(queue) < QueueLen THEN Append(queue, Head(fifo)) ELSE queue
          /\ lost' = (lost \/ Len(queue) = QueueLen)
          /\ UNCHANGED <<extratable, capacity, idtable, task, todo>>
      BY <1>2 DEF RxInterrupt, slaveVars, masterVars
    <2>2. /\ queue \in Seq(F) /\ Head(fifo) \in F /\ Len(queue) \in Nat /\ Len(fifo) \in Nat
          /\ Len(Tail(fifo)) = Len(fifo) - 1
      BY <1>b, <2>1, HeadTailProperties, LenProperties DEF F
    <2>3. Len(fifo') <= FifoLen
      BY <1>0, <1>a, <2>1, <2>2 DEF SlaveTypes
    <2>4. Len(queue') <= QueueLen
      <3>1. CASE Len(queue) < QueueLen
        <4>1. Len(queue') = Len(queue) + 1
          BY <2>1, <2>2, <3>1, AppendProperties
        <4> QED
          BY <1>a, <2>2, <3>1, <4>1
      <3>2. CASE ~(Len(queue) < QueueLen)
        BY <1>0, <2>1, <3>2 DEF SlaveTypes
      <3> QED
        BY <3>1, <3>2
    <2> QED
      BY <1>0, <2>1, <2>3, <2>4 DEF SlaveTypes
  <1>3. CASE RxData
    <2>1. /\ queue # <<>> /\ queue' = Tail(queue) /\ UNCHANGED <<task, fifo, lost, todo>>
      BY <1>3 DEF RxData, masterVars
    <2>2. Len(queue) \in Nat /\ Len(Tail(queue)) = Len(queue) - 1
      BY <1>b, <2>1, HeadTailProperties, LenProperties DEF F
    <2>3. Len(queue') <= QueueLen
      BY <1>0, <1>a, <2>1, <2>2 DEF SlaveTypes
    <2> QED
      BY <1>0, <1>3, <2>1, <2>3, SlaveStep DEF SlaveTypes
  <1>4. CASE BusSend
    <2>1. PICK m \in 0..2 :
            todo' = todo \cup (CASE mbox[m].kind = "reqtable" -> {"table"}
                                 [] mbox[m].kind = "select" -> {"confirm"}
                                 [] OTHER -> {})
      BY <1>4 DEF BusSend
    <2>2. todo' \subseteq {"table", "confirm"}
      BY <1>0, <2>1 DEF SlaveTypes
    <2> QED
      BY <1>0, <1>4, <2>2 DEF SlaveTypes, BusSend, slaveVars, rxVars
  <1>5. CASE MasterTable \/ MasterConfirm \/ MasterRequest
    <2>1. todo' \subseteq todo
      BY <1>5 DEF MasterTable, MasterConfirm, MasterRequest
    <2>2. UNCHANGED <<slaveVars, task, rxVars>>
      BY <1>5 DEF MasterTable, MasterConfirm, MasterRequest
    <2> QED
      BY <1>0, <2>1, <2>2 DEF SlaveTypes, slaveVars, rxVars
  <1>6. CASE Connect
    BY <1>0, <1>6 DEF SlaveTypes, Connect, slaveVars, rxVars, masterVars
  <1>7. CASE UNCHANGED <<slaveVars, task, rxVars, todo>>
    BY <1>0, <1>7 DEF SlaveTypes, slaveVars, rxVars
  <1> QED
    BY <1>1, <1>2, <1>3, <1>4, <1>5, <1>6, <1>7
       DEF Next, Transmit, TransmitDone, masterVars, vars

\* The stream loses its first frame when the slave reads it.
LEMMA StreamRead ==
  ASSUME SInv, RxData
  PROVE  /\ Stream = <<Head(queue)>> \o Stream' /\ Stream' \in Seq(Frames(assigned))
         /\ Head(queue) \in Frames(assigned)
         /\ Stream # <<>> /\ Stream[1] = Head(queue)
  <1> DEFINE F == Frames(assigned)
             h == Head(queue)
             r == Tail(queue) \o fifo \o msend
  <1>1. /\ queue \in Seq(F) /\ fifo \in Seq(F) /\ msend \in Seq(F) /\ queue # <<>>
        /\ Stream' = r
    BY DEF SInv, FrameInv, RxData, Stream, masterVars
  <1> HIDE DEF F
  <1>2. h \in F /\ Tail(queue) \in Seq(F)
    BY <1>1, HeadTailProperties
  <1>3. Stream = <<h>> \o r /\ r \in Seq(F)
    BY <1>1, <1>2, StreamFacts DEF Stream
  <1> HIDE DEF h, r
  <1>4. Len(<<h>> \o r) = Len(r) + 1 /\ Len(r) \in Nat /\ (<<h>> \o r)[1] = h
    BY <1>2, <1>3, FirstOf
  <1>5. Stream # <<>>
    <2> DEFINE s == <<h>> \o r
    <2>1. Len(s) # 0
      BY <1>4
    <2> HIDE DEF s
    <2>2. s # <<>>
      BY <2>1
    <2> QED
      BY <1>3, <2>2 DEF s
  <1> QED
    BY <1>1, <1>2, <1>3, <1>4, <1>5 DEF F, h

\* A continuation: the slave's list grows by what the frame brings, and when
\* it is complete the two reserved identifiers go.
LEMMA ReadExtra ==
  ASSUME SInv, RxData, ~lost, canid = Broadcast, extratable
  PROVE  /\ canid' = canid
         /\ extratable' => Incomplete'
         /\ ~extratable' => TableHasNoReserved' /\ (Stream' # <<>> => ~Stream'[1].more)
  <1> DEFINE k == Len(idtable)
  <1>1. PICK t \in Tables : /\ k < Len(t) /\ idtable = SubSeq(t, 1, k)
                            /\ capacity = Len(t) - k /\ Brings(Stream, t, k, 0)
    BY DEF SInv, SyncInv, Incomplete
  <1>2. t \in Seq(Byte) /\ Len(t) \in 0..255 /\ k \in 0..Len(t) /\ idtable \in Seq(Byte)
        /\ \A i, j \in 1..Len(t) : t[i] = t[j] => i = j
    <2>1. t \in Seq(Byte) /\ Len(t) \in 0..255
          /\ \A i, j \in 1..Len(t) : t[i] = t[j] => i = j
      BY TablesAssumption DEF Byte
    <2>2. idtable \in Seq(Byte) /\ k \in Nat
      BY LenProperties DEF SInv, SlaveTypes
    <2> HIDE DEF k
    <2>3. k < Len(t)
      BY <1>1
    <2>4. \A n \in 0..255 : k < n => k \in 0..n
      BY <2>2
    <2> QED
      BY <2>1, <2>2, <2>3, <2>4
  <1> DEFINE l == Least(k + FrameBytes, Len(t))
             d == SubSeq(t, k + 1, l)
             h == Head(queue)
             F == Frames(assigned)
             r == Stream'
  <1>3. l \in (k + 1)..Len(t) /\ h = Frame(Broadcast, d, TRUE) /\ Brings(r, t, l, 0)
    <2>1. Brings(<<h>> \o r, t, k, 0) /\ r \in Seq(F) /\ h \in F
      BY <1>1, StreamRead
    <2> HIDE DEF r, h, F, k
    <2>2. k < Len(t) /\ k \in 0..Len(t)
      BY <1>1, <1>2
    <2> QED
      <3>1. LET i == Least(k + FrameBytes, Len(t))
            IN  /\ i \in (k + 1)..Len(t)
                /\ h = Frame(Broadcast, SubSeq(t, k + 1, i), TRUE)
                /\ Brings(r, t, i, 0)
        BY <2>1, <2>2, BringsNext
      <3> QED
        BY <3>1, Zenon
  <1>4. ReceiveExtraSlaveTable /\ Dat = d
    <2>1. h.id = canid /\ h.dat = d
      BY <1>3 DEF Frame
    <2> QED
      BY <2>1 DEF RxData, Dat, ReceiveExtraSlaveTable, ReceiveSlaveTable, ReceiveAddressConfirm,
           SendSpecSheet, SendChannelData, NoCommand
  <1> HIDE DEF k, l, h, F, r
  <1>5. Len(d) = l - k /\ idtable \o d = SubSeq(t, 1, l)
    <2>1. \A i \in (k + 1)..l : i \in 1..Len(t)
      BY <1>2, <1>3, SMTT(30)
    <2>2. \A i \in (k + 1)..l : t[i] \in Byte
      BY <1>2, <2>1, ElementOfSeq
    <2>3. k + 1 \in Int /\ l \in Int /\ k + 1 <= l /\ l - (k + 1) + 1 = l - k
      BY <1>2, <1>3
    <2>4. Len(d) = l - k
      BY <2>2, <2>3, SubSeqProperties
    <2>5. 1 \in 1..(Len(t) + 1) /\ k \in (1 - 1)..Len(t) /\ l \in k..Len(t)
      BY <1>2, <1>3
    <2>6. SubSeq(t, 1, k) \o SubSeq(t, k + 1, l) = SubSeq(t, 1, l)
      BY <1>2, <2>5, ConcatAdjacentSubSeq
    <2> QED
      BY <1>1, <2>4, <2>6
  <1> HIDE DEF d
  <1>6. /\ (capacity - Len(d)) % 256 = Len(t) - l
        /\ Len(t) - l > 0 <=> l < Len(t)
        /\ ~(l < Len(t)) => l = Len(t)
    <2>1. \A n \in 0..255 : \A i \in 0..n : \A j \in (i + 1)..n :
            /\ ((n - i) - (j - i)) % 256 = n - j
            /\ n - j > 0 <=> j < n
            /\ ~(j < n) => j = n
      OBVIOUS
    <2>2. Len(t) \in 0..255 /\ k \in 0..Len(t) /\ l \in (k + 1)..Len(t)
      BY <1>2, <1>3
    <2>3. capacity = Len(t) - k /\ Len(d) = l - k
      BY <1>1, <1>5
    <2>4. /\ ((Len(t) - k) - (l - k)) % 256 = Len(t) - l
          /\ Len(t) - l > 0 <=> l < Len(t)
          /\ ~(l < Len(t)) => l = Len(t)
      BY <2>1, <2>2, Zenon
    <2> QED
      BY <2>3, <2>4, Zenon
  <1>7. /\ canid' = canid /\ capacity' = Len(t) - l /\ extratable' = (l < Len(t))
        /\ idtable' = IF l < Len(t) THEN SubSeq(t, 1, l) ELSE TableTrim(SubSeq(t, 1, l))
    BY <1>4, <1>5, <1>6 DEF ReceiveExtraSlaveTable
  <1>8. ASSUME l < Len(t)
        PROVE  Incomplete'
    <2>1. Len(SubSeq(t, 1, l)) = l
      <3>1. \A i \in 1..l : i \in 1..Len(t)
        BY <1>2, <1>3, SMTT(30)
      <3>2. \A i \in 1..l : t[i] \in Byte
        BY <1>2, <3>1, ElementOfSeq
      <3>3. l \in Int /\ 1 <= l /\ l - 1 + 1 = l
        BY <1>2, <1>3
      <3> QED
        BY <3>2, <3>3, SubSeqProperties
    <2>2. idtable' = SubSeq(t, 1, l) /\ Len(idtable') = l
      BY <1>7, <1>8, <2>1
    <2>3. /\ Len(idtable') < Len(t) /\ idtable' = SubSeq(t, 1, Len(idtable'))
          /\ capacity' = Len(t) - Len(idtable') /\ Brings(Stream', t, Len(idtable'), 0)
      BY <1>3, <1>7, <1>8, <2>2 DEF r
    <2> QED
      BY <2>3 DEF Incomplete
  <1>9. ASSUME ~(l < Len(t))
        PROVE  TableHasNoReserved' /\ (Stream' # <<>> => ~Stream'[1].more)
    <2>1. l = Len(t) /\ SubSeq(t, 1, l) = t
      BY <1>2, <1>6, <1>9, SubSeqFull
    <2>2. idtable' = TableTrim(t)
      BY <1>7, <1>9, <2>1
    <2>3. \A j \in 1..Len(TableTrim(t)) : TableTrim(t)[j] \notin {Broadcast, Uninit}
      BY <1>2, TrimFacts
    <2>4. r # <<>> => ~r[1].more
      BY <1>3, <2>1, StreamRead, BringsNothing DEF r
    <2> QED
      BY <2>2, <2>3, <2>4 DEF TableHasNoReserved, r
  <1> QED
    BY <1>7, <1>8, <1>9

\* The first frame of a table: its continuations follow.
LEMMA ReadHead ==
  ASSUME SInv, RxData, ~lost, canid = Broadcast, ~extratable, IsHead(Head(queue))
  PROVE  /\ canid' = canid
         /\ extratable' => Incomplete'
         /\ ~extratable' => TableHasNoReserved' /\ (Stream' # <<>> => ~Stream'[1].more)
  <1> DEFINE h == Head(queue)
             F == Frames(assigned)
             r == Stream'
             o == <<h>> \o r
  <1>1. r \in Seq(F) /\ h \in F /\ Stream = o /\ o[1] = h /\ Len(o) = Len(r) + 1 /\ Len(r) \in Nat
    <2>1. r \in Seq(F) /\ h \in F /\ Stream = o
      BY StreamRead
    <2> HIDE DEF r, h, F
    <2> QED
      BY <2>1, FirstOf
  <1>2. Whole(o) /\ ~o[1].more
    <2>1. Whole(Stream) /\ (Stream # <<>> => ~Stream[1].more)
      BY DEF SInv, SyncInv
    <2> QED
      BY <1>1, <2>1, StreamRead
  <1> HIDE DEF r, F, o
  <1>3. PICK t \in Tables : h = TableHead(t) /\ Brings(o, t, Least(FirstIds, Len(t)), 1)
    <2>1. 1 \in 1..Len(o) /\ IsHead(o[1])
      BY <1>1
    <2> QED
      BY <1>1, <1>2, <2>1 DEF Whole
  <1> HIDE DEF h
  <1> DEFINE l == Least(FirstIds, Len(t))
  <1>4. /\ t \in Seq(Byte) /\ Len(t) \in Nat /\ l \in 0..Len(t) /\ Fragments(Len(t) - l) \in Nat
        /\ \A i, j \in 1..Len(t) : t[i] = t[j] => i = j
    BY TableFragments, TablesAssumption
  <1>5. Brings(r, t, l, 0)
    <2>1. Brings(<<h>> \o r, t, l, 0 + 1)
      BY <1>3 DEF o
    <2> HIDE DEF l
    <2> QED
      BY <1>1, <1>4, <2>1, BringsFirst
  <1>6. Dat[1] = SENDTABLE /\ Dat[2] = Len(t) /\ SubSeq(Dat, 3, 2 + l) = SubSeq(t, 1, l)
    BY <1>3, HeadFacts DEF Dat, h
  <1>7. ReceiveSlaveTable
    <2>1. h.id = canid
      BY <1>3, HeadFacts
    <2> QED
      BY <1>6, <2>1 DEF RxData, h, ReceiveExtraSlaveTable, ReceiveAddressConfirm, SendSpecSheet,
           SendChannelData, NoCommand, SENDTABLE, CONFIRM, REQSPEC, REQDATA
  <1>8. CASE Len(t) > FirstIds
    <2>1. l = FirstIds /\ 2 + l = FrameBytes /\ l < Len(t)
      BY <1>4, <1>8 DEF Least, FirstIds, FrameBytes
    <2>2. /\ canid' = canid /\ extratable' = TRUE /\ capacity' = Len(t) - l
          /\ idtable' = SubSeq(t, 1, l)
      <3>1. ~(Len(t) <= FirstIds)
        BY <1>4, <1>8 DEF FirstIds
      <3>2. /\ canid' = canid /\ extratable' = TRUE /\ capacity' = Len(t) - FirstIds
            /\ idtable' = SubSeq(Dat, 3, FrameBytes)
        BY <1>6, <1>7, <1>8, <3>1 DEF ReceiveSlaveTable
      <3> HIDE DEF l
      <3> QED
        BY <1>6, <2>1, <3>2
    <2> HIDE DEF l
    <2>3. Len(SubSeq(t, 1, l)) = l
      <3>1. \A i \in 1..l : i \in 1..Len(t)
        BY <1>4
      <3>2. \A i \in 1..l : t[i] \in Byte
        BY <1>4, <3>1, ElementOfSeq
      <3>3. l \in Int /\ 1 <= l /\ l - 1 + 1 = l
        BY <1>4, <2>1 DEF FirstIds
      <3> QED
        BY <3>2, <3>3, SubSeqProperties
    <2>4. /\ Len(idtable') < Len(t) /\ idtable' = SubSeq(t, 1, Len(idtable'))
          /\ capacity' = Len(t) - Len(idtable') /\ Brings(Stream', t, Len(idtable'), 0)
      BY <1>5, <2>1, <2>2, <2>3 DEF r
    <2> QED
      BY <2>2, <2>4 DEF Incomplete
  <1>9. CASE ~(Len(t) > FirstIds)
    <2>1. l = Len(t) /\ Len(t) <= FirstIds
      BY <1>4, <1>9 DEF Least, FirstIds
    <2>2. /\ canid' = canid /\ ~extratable'
          /\ idtable' = TableTrim(SubSeq(Dat, 3, 2 + Len(t)))
      <3> PICK d, n : d = Dat /\ n = Len(t)
        OBVIOUS
      <3>1. /\ canid' = canid /\ extratable' = (n > FirstIds)
            /\ n <= FirstIds => idtable' = TableTrim(SubSeq(d, 3, 2 + n))
        BY <1>6, <1>7 DEF ReceiveSlaveTable
      <3>2. n <= FirstIds /\ ~(n > FirstIds)
        BY <1>9, <2>1
      <3>3. ~extratable'
        BY <3>1, <3>2, Zenon
      <3> QED
        BY <3>1, <3>2, <3>3, Zenon
    <2>3. SubSeq(Dat, 3, 2 + Len(t)) = t
      BY <1>4, <1>6, <2>1, SubSeqFull
    <2>4. \A j \in 1..Len(TableTrim(t)) : TableTrim(t)[j] \notin {Broadcast, Uninit}
      BY <1>4, TrimFacts
    <2>5. r # <<>> => ~r[1].more
      BY <1>1, <1>5, <2>1, BringsNothing
    <2> QED
      BY <2>2, <2>3, <2>4, <2>5 DEF TableHasNoReserved, r
  <1> QED
    BY <1>8, <1>9

\* Any other frame leaves the list as it is.
LEMMA ReadOther ==
  ASSUME SInv, RxData, ~lost, canid = Broadcast, ~extratable, ~IsHead(Head(queue))
  PROVE  ~extratable' /\ TableHasNoReserved' /\ (Stream' # <<>> => ~Stream'[1].more)
  <1> DEFINE h == Head(queue)
             F == Frames(assigned)
             r == Stream'
             o == <<h>> \o r
  <1>1. /\ r \in Seq(F) /\ h \in F /\ Stream = o /\ o[1] = h /\ Len(o) = Len(r) + 1
        /\ Len(r) \in Nat /\ \A j \in 1..Len(r) : o[j + 1] = r[j]
    <2>1. r \in Seq(F) /\ h \in F /\ Stream = o
      BY StreamRead
    <2> HIDE DEF r, h, F
    <2> QED
      BY <2>1, FirstOf
  <1>2. Whole(o) /\ ~o[1].more /\ TableHasNoReserved
    <2>1. Whole(Stream) /\ (Stream # <<>> => ~Stream[1].more) /\ TableHasNoReserved
      BY DEF SInv, SyncInv
    <2> QED
      BY <1>1, <2>1, StreamRead
  <1>3. UNCHANGED <<extratable, idtable>>
    <2>1. ~(h.id = canid /\ ReceiveSlaveTable)
      BY DEF IsHead, ReceiveSlaveTable, Dat
    <2> QED
      BY <2>1 DEF RxData, ReceiveExtraSlaveTable, ReceiveAddressConfirm, SendSpecSheet,
           SendChannelData, NoCommand, slaveVars
  <1> HIDE DEF r, F, o
  <1>4. ASSUME r # <<>>
        PROVE  ~r[1].more
    <2>1. Len(r) > 0
      BY <1>1, <1>4, EmptySeq
    <2>2. 1 \in 1..Len(o) /\ 1 < Len(o) /\ 1 \in 1..Len(r)
      BY <1>1, <2>1
    <2>3. ~o[1 + 1].more
      BY <1>1, <1>2, <2>2 DEF Whole, h
    <2> QED
      BY <1>1, <2>2, <2>3
  <1> QED
    BY <1>2, <1>3, <1>4 DEF TableHasNoReserved, r

\* A step that leaves slave and stream alone, or loses a frame.
LEMMA Undisturbed ==
  ASSUME SInv, UNCHANGED slaveVars, ~lost' => ~lost /\ Stream' = Stream
  PROVE  SyncInv'
  <1>1. SyncInv /\ UNCHANGED <<canid, extratable, capacity, idtable>>
    BY DEF SInv, slaveVars
  <1>2. TableHasNoReserved' <=> TableHasNoReserved
    BY <1>1 DEF TableHasNoReserved
  <1>3. ASSUME ~lost', canid' = Broadcast
        PROVE  /\ Whole(Stream')
               /\ extratable' => Incomplete'
               /\ ~extratable' => TableHasNoReserved' /\ (Stream' # <<>> => ~Stream'[1].more)
    <2>1. /\ Whole(Stream)
          /\ extratable => Incomplete
          /\ ~extratable => TableHasNoReserved /\ (Stream # <<>> => ~Stream[1].more)
      BY <1>1, <1>3 DEF SyncInv
    <2>2. Incomplete => Incomplete'
      BY <1>1, <1>3 DEF Incomplete
    <2> QED
      BY <1>1, <1>2, <1>3, <2>1, <2>2
  <1>4. canid' = WishId => ~extratable' /\ (~lost' => TableHasNoReserved')
    BY <1>1, <1>2 DEF SyncInv
  <1> QED
    BY <1>3, <1>4 DEF SyncInv

\* The master sends another message.
LEMMA MessageAdded ==
  ASSUME SInv, FrameInv', msend = <<>>, UNCHANGED <<slaveVars, queue, fifo, lost>>,
         assigned => assigned',
         Whole(msend'), msend' # <<>>, ~msend'[1].more
  PROVE  SyncInv'
  <1> DEFINE F == Frames(assigned')
             a == Stream
             b == msend'
  <1>1. a \in Seq(F) /\ b \in Seq(F) /\ Stream' = a \o b
    <2>1. assigned \in BOOLEAN /\ assigned' \in BOOLEAN
      BY DEF SInv, FrameInv
    <2>2. queue \in Seq(F) /\ fifo \in Seq(F) /\ b \in Seq(F)
      BY DEF FrameInv
    <2> HIDE DEF F, b
    <2>3. queue \o fifo \in Seq(F)
      BY <2>2, ConcatProperties
    <2>4. a = queue \o fifo
      BY <2>3, ConcatEmptySeq DEF Stream
    <2>5. Stream' = queue \o fifo \o b
      BY DEF Stream, b
    <2> QED
      BY <2>2, <2>3, <2>4, <2>5
  <1>2. SyncInv /\ UNCHANGED <<canid, extratable, capacity, idtable, lost>>
    BY DEF SInv, slaveVars
  <1>3. TableHasNoReserved' <=> TableHasNoReserved
    BY <1>2 DEF TableHasNoReserved
  <1> HIDE DEF F, a, b
  <1>4. Whole(b) /\ b # <<>> /\ ~b[1].more
    BY DEF b
  <1>5. ASSUME ~lost, canid = Broadcast
        PROVE  /\ Whole(Stream')
               /\ extratable' => Incomplete'
               /\ ~extratable' => TableHasNoReserved' /\ (Stream' # <<>> => ~Stream'[1].more)
    <2>1. /\ Whole(a)
          /\ extratable => Incomplete
          /\ ~extratable => TableHasNoReserved /\ (a # <<>> => ~a[1].more)
      BY <1>2, <1>5 DEF SyncInv, a
    <2>2. Whole(a \o b)
      BY <1>1, <1>4, <2>1, WholeConcat
    <2>3. ASSUME extratable
          PROVE  Incomplete'
      <3> DEFINE k == Len(idtable)
      <3>1. PICK t \in Tables : /\ k < Len(t) /\ idtable = SubSeq(t, 1, k)
                                /\ capacity = Len(t) - k /\ Brings(a, t, k, 0)
        BY <2>1, <2>3 DEF Incomplete, a
      <3>2. Fragments(Len(t) - k) \in Nat
        <4>1. k \in Nat /\ Len(t) \in Nat
          BY LenProperties, TableFragments DEF SInv, SlaveTypes
        <4>2. \A n, i \in Nat : i < n => n - i \in Nat
          OBVIOUS
        <4>3. Len(t) - k \in Nat
          BY <3>1, <4>1, <4>2, Zenon
        <4> QED
          BY <4>3, FragmentsFacts
      <3> HIDE DEF k
      <3>3. Brings(a \o b, t, k, 0)
        BY <1>1, <1>4, <3>1, <3>2, BringsMore
      <3> QED
        BY <1>1, <1>2, <3>1, <3>3 DEF Incomplete, k
    <2>4. ASSUME ~extratable
          PROVE  ~(a \o b)[1].more
      <3>1. /\ Len(a) \in Nat /\ Len(b) \in Nat /\ Len(b) > 0 /\ (a # <<>> <=> Len(a) > 0)
            /\ \A i \in 1..(Len(a) + Len(b)) : (a \o b)[i] = IF i <= Len(a) THEN a[i] ELSE b[i - Len(a)]
        BY <1>1, <1>4, LenProperties, EmptySeq, ConcatProperties
      <3> DEFINE c == a \o b
      <3>2. \A i \in 1..(Len(a) + Len(b)) : c[i] = IF i <= Len(a) THEN a[i] ELSE b[i - Len(a)]
        BY <3>1
      <3> HIDE DEF c
      <3>3. CASE Len(a) > 0
        <4>1. c[1] = a[1]
          BY <3>1, <3>2, <3>3
        <4> QED
          BY <2>1, <2>4, <3>1, <3>3, <4>1 DEF c
      <3>4. CASE ~(Len(a) > 0)
        <4>1. Len(a) = 0 /\ 1 \in 1..(Len(a) + Len(b)) /\ ~(1 <= Len(a)) /\ 1 - Len(a) = 1
          BY <3>1, <3>4
        <4>2. c[1] = b[1]
          BY <3>2, <4>1
        <4> QED
          BY <1>4, <4>2 DEF c
      <3> QED
        BY <3>3, <3>4
    <2> QED
      BY <1>1, <1>2, <1>3, <2>1, <2>2, <2>3, <2>4
  <1>6. canid' = WishId => ~extratable' /\ (~lost' => TableHasNoReserved')
    BY <1>2, <1>3 DEF SyncInv
  <1> QED
    BY <1>2, <1>5, <1>6 DEF SyncInv

\* A confirmation begins no table.
LEMMA ConfirmNoHead ==
  ASSUME NEW chip \in {ChipId, OtherChip}, NEW ack \in {0, 255}
  PROVE  ~Confirmation(chip, ack).more /\ ~IsHead(Confirmation(chip, ack))
  <1> DEFINE a == <<CONFIRM>>
             b == <<ack>>
             d == a \o chip \o b
  <1>1. chip \in Seq(Nat) /\ a \in Seq(Nat) /\ b \in Seq(Nat) /\ Len(a) = 1 /\ a[1] = CONFIRM
        /\ Len(chip) \in Nat /\ Len(b) \in Nat
    <2>1. ChipId \in Seq(Nat) /\ Len(ChipId) \in Nat
      BY DEF ChipId
    <2>2. OtherChip \in Seq(Nat) /\ Len(OtherChip) \in Nat
      BY DEF OtherChip
    <2>3. a \in Seq(Nat) /\ Len(a) = 1 /\ a[1] = CONFIRM
      BY DEF CONFIRM
    <2>4. b \in Seq(Nat) /\ Len(b) \in Nat
      OBVIOUS
    <2> QED
      BY <2>1, <2>2, <2>3, <2>4
  <1> HIDE DEF a, b
  <1>2. a \o chip \in Seq(Nat) /\ Len(a \o chip) = Len(a) + Len(chip)
        /\ \A i \in 1..(Len(a) + Len(chip)) :
             (a \o chip)[i] = IF i <= Len(a) THEN a[i] ELSE chip[i - Len(a)]
    <2>1. a \in Seq(Nat) /\ chip \in Seq(Nat)
      BY <1>1
    <2> QED
      BY <2>1, ConcatProperties
  <1> DEFINE c == a \o chip
  <1>3. c \in Seq(Nat) /\ Len(c) = 1 + Len(chip) /\ c[1] = CONFIRM
    BY <1>1, <1>2
  <1> HIDE DEF c
  <1>4. \A i \in 1..(Len(c) + Len(b)) : (c \o b)[i] = IF i <= Len(c) THEN c[i] ELSE b[i - Len(c)]
    BY <1>1, <1>3, ConcatProperties
  <1> DEFINE e == c \o b
  <1>5. e[1] = CONFIRM
    <2>1. \A i \in 1..(Len(c) + Len(b)) : e[i] = IF i <= Len(c) THEN c[i] ELSE b[i - Len(c)]
      BY <1>4
    <2> HIDE DEF e
    <2>2. 1 \in 1..(Len(c) + Len(b)) /\ 1 <= Len(c)
      BY <1>1, <1>3
    <2> QED
      BY <1>3, <2>1, <2>2
  <1>6. Confirmation(chip, ack) = [id |-> Broadcast, dat |-> e, more |-> FALSE]
    BY DEF Confirmation, Frame, a, b, c, e
  <1> HIDE DEF e
  <1> QED
    BY <1>5, <1>6 DEF IsHead, CONFIRM, SENDTABLE

\* The slave reads a frame.
LEMMA Read ==
  ASSUME SInv, RxData
  PROVE  SyncInv'
  <1>1. /\ SyncInv /\ lost' = lost
        /\ Head(queue).id = WishId => Dat \in {<<REQSPEC>>, <<REQDATA, 1>>}
        /\ canid \in {Broadcast, WishId} /\ canid' \in {canid, WishId}
    <2>1. SyncInv /\ canid \in {Broadcast, WishId} /\ lost' = lost
      BY DEF SInv, SleepInv, RxData
    <2>2. canid' \in {canid, WishId}
      BY DEF RxData, ReceiveExtraSlaveTable, ReceiveSlaveTable, ReceiveAddressConfirm,
         SendSpecSheet, SendChannelData, NoCommand, slaveVars
    <2> QED
      BY <2>1, <2>2, HeadFrame
  <1>2. CASE canid = WishId
    <2>1. ~extratable /\ (~lost => TableHasNoReserved)
      BY <1>1, <1>2 DEF SyncInv
    <2>2. Head(queue).id = canid => Dat[1] = REQSPEC \/ Dat[1] = REQDATA
      <3> HIDE DEF Dat
      <3>1. \A d \in {<<REQSPEC>>, <<REQDATA, 1>>} : d[1] = REQSPEC \/ d[1] = REQDATA
        OBVIOUS
      <3> QED
        BY <1>1, <1>2, <3>1
    <2>3. UNCHANGED <<canid, extratable, idtable>>
      BY <2>1, <2>2 DEF RxData, ReceiveExtraSlaveTable, ReceiveSlaveTable, ReceiveAddressConfirm,
         SendSpecSheet, SendChannelData, NoCommand, slaveVars, SENDTABLE, CONFIRM, REQSPEC, REQDATA
    <2>4. TableHasNoReserved => TableHasNoReserved'
      BY <2>3 DEF TableHasNoReserved
    <2> QED
      BY <1>1, <1>2, <2>1, <2>3, <2>4 DEF SyncInv, Broadcast, WishId
  <1>3. CASE canid = Broadcast /\ lost
    <2>1. canid' = WishId => ~extratable'
      <3> SUFFICES ASSUME canid' = WishId PROVE ~extratable'
        OBVIOUS
      <3>1. ReceiveAddressConfirm
        BY <1>3 DEF RxData, ReceiveExtraSlaveTable, ReceiveSlaveTable,
           SendSpecSheet, SendChannelData, NoCommand, slaveVars, Broadcast, WishId
      <3> QED
        BY <3>1 DEF ReceiveAddressConfirm
    <2> QED
      BY <1>1, <1>3, <2>1 DEF SyncInv
  <1>4. CASE canid = Broadcast /\ ~lost
    <2>1. Whole(Stream')
      <3> DEFINE r == Stream'
                 h == Head(queue)
                 F == Frames(assigned)
      <3>1. r \in Seq(F) /\ h \in F /\ Stream = <<h>> \o r
        BY StreamRead
      <3>2. Whole(Stream)
        BY <1>1, <1>4 DEF SyncInv
      <3> HIDE DEF h, F, r
      <3>3. Whole(r)
        BY <3>1, <3>2, WholeFirst
      <3> QED
        BY <3>3 DEF r
    <2>2. /\ extratable' => Incomplete' /\ canid' = Broadcast
          /\ ~extratable' => TableHasNoReserved' /\ (Stream' # <<>> => ~Stream'[1].more)
      BY <1>4, ReadExtra, ReadHead, ReadOther
    <2>3. Broadcast # WishId
      BY DEF Broadcast, WishId
    <2> QED
      BY <1>1, <1>4, <2>1, <2>2, <2>3 DEF SyncInv
  <1> QED
    BY <1>1, <1>2, <1>3, <1>4

\* The slave stays in step with the frames on their way, step by step.
LEMMA SyncStep ==
  ASSUME SInv, [Next]_vars, FrameInv'
  PROVE  SyncInv'
  <1> DEFINE F == Frames(assigned)
  <1>0. /\ queue \in Seq(F) /\ fifo \in Seq(F) /\ msend \in Seq(F)
        /\ assigned \in BOOLEAN /\ Len(fifo) <= FifoLen /\ Len(queue) <= QueueLen
        /\ Len(fifo) \in Nat /\ Len(queue) \in Nat /\ FifoLen \in Nat /\ QueueLen \in Nat
    BY LenProperties, SlaveAssumption DEF SInv, FrameInv, SlaveTypes
  <1> HIDE DEF F
  <1>1. CASE BusReceive
    <2>1. /\ msend # <<>> /\ msend' = Tail(msend) /\ UNCHANGED <<slaveVars, queue>>
          /\ fifo' = IF Len(fifo) < FifoLen THEN Append(fifo, Head(msend))
                     ELSE [fifo EXCEPT ![FifoLen] = Head(msend)]
          /\ lost' = (lost \/ Len(fifo) = FifoLen)
      BY <1>1 DEF BusReceive
    <2>2. ASSUME ~lost'
          PROVE  ~lost /\ Stream' = Stream
      <3>1. ~lost /\ Len(fifo) # FifoLen
        BY <2>1, <2>2
      <3>2. Len(fifo) < FifoLen
        BY <1>0, <3>1
      <3>3. Stream' = queue \o Append(fifo, Head(msend)) \o Tail(msend)
        BY <2>1, <3>2 DEF Stream
      <3>4. Stream' = Stream
        <4>1. queue \o Append(fifo, Head(msend)) \o Tail(msend) = queue \o fifo \o msend
          <5>1. queue \in Seq(F) /\ fifo \in Seq(F) /\ msend \in Seq(F) /\ msend # <<>>
            BY <1>0, <2>1
          <5> QED
            BY <5>1, StreamFacts, SMTT(30)
        <4> QED
          BY <3>3, <4>1, Zenon DEF Stream
      <3> QED
        BY <3>1, <3>4
    <2> QED
      BY <2>1, <2>2, Undisturbed
  <1>2. CASE RxInterrupt
    <2>1. /\ fifo # <<>> /\ fifo' = Tail(fifo) /\ UNCHANGED <<slaveVars, msend>>
          /\ queue' = IF Len(queue) < QueueLen THEN Append(queue, Head(fifo)) ELSE queue
          /\ lost' = (lost \/ Len(queue) = QueueLen)
      BY <1>2 DEF RxInterrupt, masterVars
    <2>2. ASSUME ~lost'
          PROVE  ~lost /\ Stream' = Stream
      <3>1. ~lost /\ Len(queue) # QueueLen
        BY <2>1, <2>2
      <3>2. Len(queue) < QueueLen
        BY <1>0, <3>1
      <3>3. Stream' = Append(queue, Head(fifo)) \o Tail(fifo) \o msend
        BY <2>1, <3>2 DEF Stream
      <3>4. Stream' = Stream
        <4>1. Append(queue, Head(fifo)) \o Tail(fifo) \o msend = queue \o fifo \o msend
          <5>1. queue \in Seq(F) /\ fifo \in Seq(F) /\ msend \in Seq(F) /\ fifo # <<>>
            BY <1>0, <2>1
          <5> QED
            BY <5>1, StreamFacts
        <4> QED
          BY <3>3, <4>1, Zenon DEF Stream
      <3> QED
        BY <3>1, <3>4
    <2> QED
      BY <2>1, <2>2, Undisturbed
  <1>3. CASE RxData
    BY <1>3, Read
  <1>4. CASE MasterTable
    <2>1. PICK t \in Tables : msend' = TableFrames(t)
      BY <1>4 DEF MasterTable
    <2>2. msend = <<>> /\ UNCHANGED <<slaveVars, queue, fifo, lost, assigned>>
      BY <1>4 DEF MasterTable, rxVars
    <2>3. TableFrames(t) \in Seq(F)
      BY <1>0, TableHarmless DEF F
    <2>4. Whole(msend') /\ msend' # <<>> /\ ~msend'[1].more
      BY <2>1, <2>3, TableWhole
    <2> QED
      BY <2>2, <2>4, MessageAdded
  <1>5. CASE MasterConfirm
    <2>1. /\ msend = <<>> /\ UNCHANGED <<slaveVars, queue, fifo, lost>> /\ (assigned => assigned')
          /\ \E f \in {Confirmation(ChipId, 0), Confirmation(ChipId, 255), Confirmation(OtherChip, 0)} :
               msend' = <<f>>
      BY <1>0, <1>5 DEF MasterConfirm, rxVars
    <2>2. PICK f \in {Confirmation(ChipId, 0), Confirmation(ChipId, 255), Confirmation(OtherChip, 0)} :
            msend' = <<f>>
      BY <2>1
    <2>3. ~f.more /\ ~IsHead(f)
      <3>1. \A ack \in {0, 255} : \A chip \in {ChipId, OtherChip} :
              ~Confirmation(chip, ack).more /\ ~IsHead(Confirmation(chip, ack))
        BY ConfirmNoHead
      <3> QED
        BY <3>1
    <2>4. Whole(msend') /\ msend' # <<>> /\ ~msend'[1].more
      BY <2>2, <2>3, SingleWhole
    <2> QED
      BY <2>1, <2>4, MessageAdded
  <1>6. CASE MasterRequest
    <2>1. PICK dat \in {<<REQSPEC>>, <<REQDATA, 1>>} : msend' = <<Frame(WishId, dat, FALSE)>>
      BY <1>6 DEF MasterRequest
    <2>2. msend = <<>> /\ UNCHANGED <<slaveVars, queue, fifo, lost, assigned>>
      BY <1>6 DEF MasterRequest, rxVars
    <2> DEFINE f == Frame(WishId, dat, FALSE)
    <2>3. ~f.more /\ ~IsHead(f)
      BY DEF Frame, IsHead, WishId, Broadcast
    <2> HIDE DEF f
    <2>4. Whole(<<f>>) /\ <<f>> # <<>> /\ ~(<<f>>)[1].more
      BY <2>3, SingleWhole
    <2> QED
      BY <2>1, <2>2, <2>4, MessageAdded DEF f
  <1>7. CASE UNCHANGED <<slaveVars, rxVars, msend>>
    <2>1. Stream' = Stream /\ lost' = lost /\ UNCHANGED slaveVars
      BY <1>7 DEF Stream, rxVars
    <2> QED
      BY <2>1, Undisturbed
  <1> QED
    BY <1>1, <1>2, <1>3, <1>4, <1>5, <1>6, <1>7
       DEF Next, Transmit, TransmitDone, BusSend, Connect, masterVars, vars

\* It holds before anything has been received.
LEMMA SInvInit ==
  ASSUME Init
  PROVE  SInv
  <1>1. DriverInv
    BY DEF Init, DriverInv, Empty
  <1>2. FrameInv
    BY DEF Init, FrameInv
  <1>3. SleepInv
    BY DEF Init, SleepInv
  <1>4. SlaveTypes
    <2>1. /\ Len(<<>>) = 0 /\ 0 <= QueueLen /\ 0 <= FifoLen /\ 0 \in 0..255
          /\ <<>> \in Seq(Byte)
      BY SlaveAssumption
    <2> QED
      BY <2>1 DEF Init, SlaveTypes
  <1>5. SyncInv
    <2>1. Stream = <<>>
      BY DEF Init, Stream
    <2>2. Whole(<<>>)
      BY DEF Whole
    <2>3. TableHasNoReserved /\ ~extratable /\ canid # WishId
      BY DEF Init, TableHasNoReserved, Broadcast, WishId
    <2> QED
      BY <2>1, <2>2, <2>3 DEF SyncInv
  <1> QED
    BY <1>1, <1>2, <1>3, <1>4, <1>5 DEF SInv

\* The invariant holds throughout.
THEOREM SInvAlways == Spec => []SInv
  <1>1. SInv /\ [Next]_vars => SInv'
    BY DriverStep, FrameStep, SleepStep, TypesStep, SyncStep DEF SInv
  <1> QED
    BY <1>1, SInvInit, PTL DEF Spec

-----------------------------------------------------------------------------
\* Variables keep their types: no count of the slave leaves a byte, no entry of
\* its list is anything but a byte that came, whatever is lost and whatever a
\* continuation read as a command looks like (RxData, ReceiveSlaveTable).
THEOREM SlaveTypesHold == Spec => []TypeOK
  <1>1. SInv => TypeOK
    <2> SUFFICES ASSUME SInv PROVE TypeOK
      OBVIOUS
    <2> DEFINE Mail == [id : Nat, part : Nat, kind : {"none", "reqtable", "select", "spec", "data"}]
    <2>1. mbox \in [0..2 -> Mail]
      <3>1. PICK f \in Replies \cup {Empty} : mbox = [m \in 0..2 |-> IF m = 0 THEN f ELSE Empty]
        BY DEF SInv, DriverInv
      <3>2. Replies \subseteq Mail
        BY DEF Replies, Kinds, Broadcast, Uninit, WishId
      <3>3. Empty \in Mail
        BY DEF Empty
      <3> HIDE DEF Mail
      <3> QED
        BY <3>1, <3>2, <3>3
    <2> QED
      BY <2>1 DEF SInv, DriverInv, FrameInv, SleepInv, SlaveTypes, TypeOK
  <1> QED
    BY <1>1, SInvAlways, PTL

\* As long as no frame was lost, the slave takes a frame for the continuation
\* of a table exactly when the master sent it so (RxData, m_receivingextratable).
THEOREM StaysInSync == Spec => []InSync
  <1>1. SInv => InSync
    <2> SUFFICES ASSUME SInv, ~lost, queue # <<>>, Head(queue).id = canid
                 PROVE  extratable = Head(queue).more
      BY DEF InSync
    <2> DEFINE F == Frames(assigned)
               h == Head(queue)
               r == Tail(queue) \o fifo \o msend
    <2>1. queue \in Seq(F) /\ fifo \in Seq(F) /\ msend \in Seq(F)
      BY DEF SInv, FrameInv
    <2> HIDE DEF F
    <2>2. h \in F /\ Stream = <<h>> \o r /\ r \in Seq(F)
      <3>1. h \in F /\ Tail(queue) \in Seq(F)
        BY <2>1, HeadTailProperties
      <3> QED
        BY <2>1, <3>1, StreamFacts DEF Stream
    <2> HIDE DEF r
    <2>3. /\ extratable \in BOOLEAN /\ h.more \in BOOLEAN /\ (h.id = WishId => ~h.more)
          /\ canid \in {Broadcast, WishId} /\ SyncInv
      <3> HIDE DEF h
      <3>1. h.more \in BOOLEAN /\ (h.id = WishId => ~h.more)
        BY <2>2 DEF F, Frames
      <3> QED
        BY <3>1 DEF SInv, SlaveTypes, SleepInv
    <2>4. CASE canid = WishId
      BY <2>3, <2>4 DEF SyncInv
    <2>5. CASE canid = Broadcast
      <3> HIDE DEF h
      <3>1. Stream # <<>> /\ Stream[1] = h
        <4> DEFINE s == <<h>> \o r
        <4>1. Len(s) = Len(r) + 1 /\ Len(r) \in Nat /\ s[1] = h
          BY <2>2, FirstOf
        <4> HIDE DEF s
        <4>2. s # <<>>
          BY <4>1
        <4> QED
          BY <2>2, <4>1, <4>2 DEF s
      <3>2. ASSUME extratable
            PROVE  h.more
        <4>1. Incomplete
          BY <2>3, <2>5, <3>2 DEF SyncInv
        <4>2. PICK t \in Tables : Len(idtable) < Len(t) /\ Brings(<<h>> \o r, t, Len(idtable), 0)
          BY <2>2, <4>1 DEF Incomplete
        <4>3. Len(idtable) \in 0..Len(t)
          <5>1. Len(idtable) \in Nat /\ Len(t) \in Nat
            BY LenProperties, TableFragments DEF SInv, SlaveTypes
          <5>2. \A i, n \in Nat : i < n => i \in 0..n
            OBVIOUS
          <5> QED
            BY <4>2, <5>1, <5>2, Zenon
        <4>4. PICK d : h = Frame(Broadcast, d, TRUE)
          <5> DEFINE k == Len(idtable)
          <5>1. k \in 0..Len(t) /\ k < Len(t) /\ Brings(<<h>> \o r, t, k, 0)
            BY <4>2, <4>3
          <5> HIDE DEF k
          <5>2. LET i == Least(k + FrameBytes, Len(t))
                IN  /\ i \in (k + 1)..Len(t)
                    /\ h = Frame(Broadcast, SubSeq(t, k + 1, i), TRUE)
                    /\ Brings(r, t, i, 0)
            BY <2>2, <5>1, BringsNext
          <5> QED
            BY <5>2, Zenon
        <4> QED
          BY <4>4 DEF Frame
      <3>3. ASSUME ~extratable
            PROVE  ~h.more
        BY <2>3, <2>5, <3>1, <3>3 DEF SyncInv
      <3> QED
        BY <2>3, <3>2, <3>3 DEF h
    <2> QED
      BY <2>3, <2>4, <2>5
  <1> QED
    BY <1>1, SInvAlways, PTL

\* While a table is incomplete and nothing was lost, the list is a beginning of a
\* table, the count says what is missing, and exactly that is on its way.
THEOREM ExpectsWhatComes == Spec => []ExpectsWhatIsComing
  <1>1. SInv => ExpectsWhatIsComing
    <2> SUFFICES ASSUME SInv, extratable, ~lost
                 PROVE  \E t \in Tables :
                          /\ Len(idtable) < Len(t) /\ idtable = SubSeq(t, 1, Len(idtable))
                          /\ capacity = Len(t) - Len(idtable)
                          /\ LET rest == RestOfTable(t, Len(idtable))
                             IN  /\ Len(rest) <= Len(Stream)
                                 /\ SubSeq(Stream, 1, Len(rest)) = rest
                                 /\ Len(rest) < Len(Stream) => ~Stream[Len(rest) + 1].more
      BY DEF ExpectsWhatIsComing, Stream
    <2> DEFINE k == Len(idtable)
    <2>1. Incomplete
      BY DEF SInv, SyncInv, SleepInv
    <2>2. PICK t \in Tables : /\ k < Len(t) /\ idtable = SubSeq(t, 1, k)
                              /\ capacity = Len(t) - k /\ Brings(Stream, t, k, 0)
      BY <2>1 DEF Incomplete
    <2>3. Len(t) \in Nat /\ t \in Seq(Byte) /\ k \in 0..Len(t)
      <3>1. k \in Nat /\ Len(t) \in Nat /\ t \in Seq(Byte)
        BY LenProperties, TableFragments DEF SInv, SlaveTypes
      <3>2. \A i, n \in Nat : i < n => i \in 0..n
        OBVIOUS
      <3> QED
        BY <2>2, <3>1, <3>2, Zenon
    <2> DEFINE n == Fragments(Len(t) - k)
               rest == RestOfTable(t, k)
               F == Frames(assigned)
    <2>4. n \in Nat /\ rest = [p \in 1..n |-> RestFrame(t, k, p)]
      BY <2>3, RestFacts
    <2>5. /\ 0 + n <= Len(Stream)
          /\ \A p \in 1..n : Stream[0 + p] = RestFrame(t, k, p)
          /\ 0 + n < Len(Stream) => ~Stream[0 + n + 1].more
      BY <2>2 DEF Brings
    <2>6. Stream \in Seq(F) /\ Len(Stream) \in Nat
      <3>1. Stream \in Seq(F)
        BY StreamFacts DEF SInv, FrameInv, Stream
      <3> HIDE DEF F
      <3> QED
        BY <3>1, LenProperties
    <2> HIDE DEF k, n, rest, F
    <2>7. rest \in Seq(F) /\ Len(rest) = n /\ \A p \in 1..n : rest[p] = Stream[p]
      <3>1. \A p \in 1..n : p \in 1..Len(Stream) /\ 0 + p = p
        BY <2>4, <2>5, <2>6
      <3>2. rest = [p \in 1..n |-> Stream[p]]
        BY <2>4, <2>5, <3>1
      <3>3. \A p \in 1..n : Stream[p] \in F
        BY <2>6, <3>1, ElementOfSeq
      <3> QED
        BY <2>4, <3>2, <3>3
    <2>8. SubSeq(Stream, 1, n) = rest
      <3> DEFINE u == SubSeq(Stream, 1, n)
      <3>1. \A p \in 1..n : Stream[p] \in F
        <4>1. \A p \in 1..n : p \in 1..Len(Stream)
          BY <2>4, <2>5, <2>6
        <4> QED
          BY <2>6, <4>1, ElementOfSeq
      <3>2. 1 \in Int /\ n \in Int /\ n - 1 + 1 = n /\ (1 <= n => n - 1 + 1 = n) /\ (~(1 <= n) => n = 0)
        BY <2>4
      <3>3. u \in Seq(F) /\ Len(u) = n /\ \A p \in 1..n : u[p] = Stream[1 + p - 1]
        BY <3>1, <3>2, SubSeqProperties
      <3> HIDE DEF u
      <3>4. \A p \in 1..Len(u) : u[p] = rest[p]
        <4>1. \A p \in 1..n : 1 + p - 1 = p
          BY <2>4
        <4> QED
          BY <2>7, <3>3, <4>1
      <3>5. u = rest
        BY <2>7, <3>3, <3>4, SeqEqual
      <3> QED
        BY <3>5 DEF u
    <2>9. n <= Len(Stream) /\ (n < Len(Stream) => ~Stream[n + 1].more)
      <3>1. 0 + n = n
        BY <2>4
      <3> QED
        BY <2>5, <3>1
    <2> QED
      BY <2>2, <2>7, <2>8, <2>9 DEF k, rest
  <1> QED
    BY <1>1, SInvAlways, PTL

\* A list that is complete has no reserved identifier, as long as no frame was
\* lost: TableTrim's sort puts 0 and 1 first, and every table has each once.
THEOREM ReservedAreGone == Spec => []TableHasNoReservedIfNoLoss
  <1>1. SInv => TableHasNoReservedIfNoLoss
    BY DEF SInv, SyncInv, SleepInv, TableHasNoReservedIfNoLoss, TableHasNoReserved
  <1> QED
    BY <1>1, SInvAlways, PTL

\* The frames of a reply reach the bus in order and uninterrupted, whatever
\* arrives and is lost meanwhile (CAN_Transmit, WaitForTransmission).
THEOREM RepliesInOrder == Spec => FragmentsInOrder
  <1>1. /\ SInv /\ [Next]_vars
        => [sent' # sent =>
              \/ sent'.part = 1
              \/ sent'.part = sent.part + 1 /\ sent'.kind = sent.kind /\ sent'.id = sent.id]_vars
    <2> SUFFICES ASSUME SInv, [Next]_vars, sent' # sent
                 PROVE  Follows(sent, sent')
      BY DEF Follows
    <2>1. CASE BusSend
      <3>1. PICK m \in {o \in 0..2 : mbox[o] # Empty} : sent' = mbox[m]
        BY <2>1 DEF BusSend
      <3>2. m = 0
        BY <3>1 DEF SInv, DriverInv
      <3> QED
        BY <3>1, <3>2 DEF SInv, DriverInv
    <2> QED
      BY <2>1 DEF Next, Transmit, TransmitDone, BusReceive, RxInterrupt, RxData, Connect,
           MasterTable, MasterConfirm, MasterRequest, txVars, vars
  <1> QED
    BY <1>1, SInvAlways, PTL DEF Spec, FragmentsInOrder

\* The slave takes an address only once the master has accepted it, keeps it,
\* and answers under it alone, also when parts of tables are lost and the bytes
\* of their continuations are read as commands (RxData, ReceiveAddressConfirm).
THEOREM ConsentNeeded == Spec => AddressOnlyByConsent
  <1> DEFINE Took == canid' # canid => canid = Broadcast /\ assigned /\ ~extratable
             Answers == (canid = WishId /\ tx' # tx /\ Len(tx') > Len(tx)) => tx'[1].id = WishId
  <1>1. SInv /\ [Next]_vars => Took
    <2> SUFFICES ASSUME SInv, [Next]_vars, canid' # canid
                 PROVE  canid = Broadcast /\ assigned /\ ~extratable
      OBVIOUS
    <2>1. CASE RxData
      <3> DEFINE f == Head(queue)
      <3>1. f \in Frames(assigned)
        BY <2>1, HeadTailProperties DEF RxData, SInv, FrameInv
      <3>2. f.id = canid /\ ReceiveAddressConfirm
        BY <2>1 DEF RxData, ReceiveExtraSlaveTable, ReceiveSlaveTable, SendSpecSheet,
             SendChannelData, NoCommand, slaveVars
      <3>3. ~extratable /\ f.dat[1] = CONFIRM /\ SubSeq(f.dat, 2, 7) = ChipId
            /\ f.dat[Len(f.dat)] = 0 /\ canid' = WishId
        BY <3>2 DEF ReceiveAddressConfirm, Dat
      <3> HIDE DEF f
      <3>4. assigned
        BY <3>1, <3>3 DEF Frames, Accepts
      <3> QED
        BY <3>3, <3>4 DEF SInv, SleepInv
    <2> QED
      BY <2>1 DEF Next, Transmit, TransmitDone, BusSend, BusReceive, RxInterrupt, Connect,
           MasterTable, MasterConfirm, MasterRequest, slaveVars, vars
  <1>2. SInv /\ [Next]_vars => Answers
    <2> SUFFICES ASSUME SInv, [Next]_vars, canid = WishId, tx' # tx, Len(tx') > Len(tx)
                 PROVE  tx'[1].id = WishId
      OBVIOUS
    <2>0. tx \in Seq(Replies)
      BY DEF SInv, DriverInv
    <2>1. CASE RxData
      <3> DEFINE f == Head(queue)
      <3>1. f \in Frames(assigned)
        BY <2>1, HeadTailProperties DEF RxData, SInv, FrameInv
      <3>2. f.id = WishId /\ (\/ ReceiveSlaveTable \/ ReceiveAddressConfirm
                             \/ SendSpecSheet \/ SendChannelData)
        BY <2>1 DEF RxData, ReceiveExtraSlaveTable, NoCommand
      <3>3. f.dat[1] = REQSPEC \/ f.dat[1] = REQDATA
        <4> HIDE DEF f
        <4>1. f.dat \in {<<REQSPEC>>, <<REQDATA, 1>>}
          BY <3>1, <3>2 DEF Frames
        <4> QED
          BY <4>1
      <3>4. SendSpecSheet \/ SendChannelData
        BY <3>2, <3>3 DEF ReceiveSlaveTable, ReceiveAddressConfirm, Dat,
             SENDTABLE, CONFIRM, REQSPEC, REQDATA
      <3>5. PICK kind \in Kinds : WriteMessage(WishId, kind)
        BY <3>4 DEF SendSpecSheet, SendChannelData, Kinds
      <3>6. tx' # <<>>
        BY <2>0
      <3> QED
        BY <3>5, <3>6, MessageFacts
    <2>2. CASE Transmit
      <3>1. tx # <<>> /\ tx' = Tail(tx)
        BY <2>2 DEF Transmit
      <3> QED
        BY <2>0, <3>1, HeadTailProperties, LenProperties
    <2>3. CASE Connect
      BY <2>3 DEF Connect, SInv, SleepInv, Broadcast, WishId
    <2> QED
      BY <2>1, <2>2, <2>3 DEF Next, TransmitDone, BusSend, BusReceive, RxInterrupt,
           MasterTable, MasterConfirm, MasterRequest, txVars, vars
  <1>3. /\ SInv /\ [Next]_vars
        => [/\ canid' # canid => canid = Broadcast /\ assigned /\ ~extratable
            /\ (canid = WishId /\ tx' # tx /\ Len(tx') > Len(tx)) => tx'[1].id = WishId]_vars
    BY <1>1, <1>2
  <1> QED
    BY <1>3, SInvAlways, PTL DEF Spec, AddressOnlyByConsent
=============================================================================
