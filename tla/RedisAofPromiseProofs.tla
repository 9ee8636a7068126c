------------------------ MODULE RedisAofPromiseProofs -----------------------
(***************************************************************************)
(* The append-only file implements the durable log: at a crash the files,  *)
(* read by the loader, give a beginning of the log with all that was       *)
(* promised, and the other steps are steps of DurableLog or are not seen   *)
(* there.  For all values of the constants that meet Hypotheses.           *)
(*                                                                         *)
(* The invariant behind it speaks of all the disks that a crash may leave  *)
(* (Remains) and says that each of them loads, as a beginning of the log   *)
(* that has all that is owed (Survives, Firm).  An action leaves these     *)
(* disks as they are, or makes more of the log certain (an fsync), or      *)
(* appends to the file that is read last, or replaces the log by a         *)
(* snapshot.                                                               *)
(***************************************************************************)
EXTENDS RedisAofLogProofs

-----------------------------------------------------------------------------
(* What a crash leaves of the files loads as a part of the log.            *)

\* The sequence p is the beginning of s.
Begins(p, s) == Len(p) <= Len(s) /\ \A i \in 1 .. Len(p) : p[i] = s[i]

\* Beginnings: of itself, of a beginning, of a longer sequence.
LEMMA BeginsFacts ==
    ASSUME NEW X
    PROVE  /\ \A s \in Seq(X) : Begins(s, s)
           /\ \A s, t, u \in Seq(X) : Begins(s, t) /\ Begins(t, u) => Begins(s, u)
           /\ \A s \in Seq(X), x \in X : Begins(s, Append(s, x))
           /\ \A s, t \in Seq(X) : Begins(s, s \o t)
           /\ \A s, t \in Seq(X) : Begins(s, t) => s \in Prefixes(t)
           /\ \A s, t \in Seq(X) : Begins(s, t) /\ Len(t) <= Len(s) => s = t
           /\ \A s, t, u \in Seq(X) : Begins(s, u) /\ Begins(t, u) /\ Len(s) <= Len(t) => Begins(s, t)
<1>1. \A s \in Seq(X) : Begins(s, s)
  BY DEF Begins
<1>2. \A s, t, u \in Seq(X) : Begins(s, t) /\ Begins(t, u) => Begins(s, u)
  BY DEF Begins
<1>3. \A s \in Seq(X), x \in X : Begins(s, Append(s, x))
  BY DEF Begins
<1>4. \A s, t \in Seq(X) : Begins(s, s \o t)
  BY DEF Begins
<1>5. ASSUME NEW s \in Seq(X), NEW t \in Seq(X), Begins(s, t) PROVE s \in Prefixes(t)
  <2>1. PICK n : n = Len(s)
    OBVIOUS
  <2>2. n \in 0 .. Len(t) /\ SubSeq(t, 1, n) = s
    BY <1>5, <2>1 DEF Begins
  <2> QED BY <2>2 DEF Prefixes
<1>6. \A s, t \in Seq(X) : Begins(s, t) /\ Len(t) <= Len(s) => s = t
  BY DEF Begins
<1>7. \A s, t, u \in Seq(X) : Begins(s, u) /\ Begins(t, u) /\ Len(s) <= Len(t) => Begins(s, t)
  BY DEF Begins
<1> QED BY <1>1, <1>2, <1>3, <1>4, <1>5, <1>6, <1>7

\* A command token adds to the dataset or leaves it.
LEMMA LoadTokenGrows ==
    ASSUME NEW st \in Client, NEW tok \in Token, tok.kind # "snap"
    PROVE  Begins(st.ds, LoadToken(st, tok).ds)
<1> DEFINE s == [st EXCEPT !.pos = st.pos + 1]
           x == [id |-> tok.arg, db |-> st.db]
           r == LoadToken(st, tok)
<1>a. st.ds \in Image
  BY DEF Client
<1>1. s \in Client /\ s.ds = st.ds /\ st.ds \in Seq([id : Nat, db : Nat])
  <2>1. s \in Client /\ s.ds = st.ds
    BY DEF Client
  <2> QED BY <1>a, <2>1 DEF Image
<1>2. x \in [id : Nat, db : Nat]
  BY DEF Token, Client
<1>3. \/ r = s
      \/ r = [s EXCEPT !.db = tok.arg, !.valid = s.pos]
      \/ r = [s EXCEPT !.open = tok.arg]
      \/ r = [s EXCEPT !.ds = Append(s.ds, x), !.open = 0, !.valid = s.pos]
      \/ r = [s EXCEPT !.ok = FALSE]
  BY DEF LoadToken, Client
<1> HIDE DEF s, x
<1>4. \/ r.ds = s.ds \/ r.ds = Append(s.ds, x)
  <2> HIDE DEF r
  <2> QED BY <1>1, <1>3 DEF Client
<1> HIDE DEF r
<1>5. Begins(st.ds, st.ds) /\ Begins(st.ds, Append(st.ds, x))
  <2>1. PICK X, q : X = [id : Nat, db : Nat] /\ q = st.ds /\ q \in Seq(X) /\ x \in X
    BY <1>1, <1>2
  <2>2. Begins(q, q) /\ Begins(q, Append(q, x))
    BY <2>1 DEF Begins
  <2> QED BY <2>1, <2>2
<1>6. Begins(st.ds, r.ds)
  BY <1>1, <1>4, <1>5
<1> QED BY <1>6 DEF r

\* A beginning of a file that is read without an error.
Reaches(ds, u, t) == Read(ds, u).ok /\ Begins(Read(ds, u).ds, Read(ds, t).ds)

\* A file cut anywhere is read without an error as a beginning of the dataset.
LEMMA ReadBegins ==
    ASSUME NEW ds \in Image
    PROVE  \A t \in Seq(Token) : NoSnap(t) /\ Read(ds, t).ok =>
              \A u \in Seq(Token) : Begins(u, t) => Reaches(ds, u, t)
<1> DEFINE P(t) == NoSnap(t) /\ Read(ds, t).ok =>
                      \A u \in Seq(Token) : Begins(u, t) => Reaches(ds, u, t)
           S == {k \in Nat : \A t \in Seq(Token) : Len(t) = k => P(t)}
<1>0. \A t \in Seq(Token) : Read(ds, t).ok => Reaches(ds, t, t)
  <2>1. \A t \in Seq(Token) : Read(ds, t).ds \in Image
    BY ReadType DEF Client
  <2> QED BY <2>1, BeginsFacts DEF Reaches, Image
<1>1. 0 \in S
  <2> SUFFICES ASSUME NEW t \in Seq(Token), Len(t) = 0, Read(ds, t).ok,
                      NEW u \in Seq(Token), Begins(u, t)
               PROVE  Reaches(ds, u, t)
    OBVIOUS
  <2>1. Len(u) \in Nat /\ Len(t) \in Nat
    OBVIOUS
  <2>2. Len(t) <= Len(u)
    BY <2>1
  <2>3. u = t
    BY <2>2, BeginsFacts
  <2> QED BY <1>0, <2>3
<1>2. ASSUME NEW k \in Nat, k \in S
      PROVE  k + 1 \in S
  <2> SUFFICES ASSUME NEW t \in Seq(Token), Len(t) = k + 1, NoSnap(t), Read(ds, t).ok,
                      NEW u \in Seq(Token), Begins(u, t)
               PROVE  Reaches(ds, u, t)
    OBVIOUS
  <2>1. PICK v \in Seq(Token), x \in Token : Splits(t, v, x, k)
    <3> HIDE DEF S
    <3> QED BY LastToken
  <2>2. /\ t = Append(v, x) /\ Len(v) = k /\ x = t[k + 1] /\ \A i \in 1 .. k : v[i] = t[i]
    BY <2>1 DEF Splits
  <2>3. x.kind # "snap" /\ NoSnap(v)
    BY <2>2 DEF NoSnap
  <2>4. PICK st, r : st = Read(ds, v) /\ r = Read(ds, t)
    OBVIOUS
  <2>5. r = LoadToken(st, x)
    BY <2>2, <2>4, GoFacts DEF Read
  <2>6. st \in Client /\ r \in Client
    BY <2>4, ReadType
  <2>7. st.ok /\ Begins(st.ds, r.ds)
    BY <2>3, <2>4, <2>5, <2>6, LoadTokenType, LoadTokenGrows
  <2>8. CASE Len(u) = k + 1
    <3>1. u = t
      BY <2>8, BeginsFacts
    <3> QED BY <1>0, <3>1
  <2>9. CASE Len(u) # k + 1
    <3>1. Begins(u, v)
      BY <2>2, <2>9 DEF Begins
    <3>2. P(v)
      BY <1>2, <2>2
    <3>3. Reaches(ds, u, v)
      BY <2>3, <2>4, <2>7, <3>1, <3>2
    <3>4. Read(ds, u).ds \in Image
      BY ReadType DEF Client
    <3>5. Read(ds, u).ok /\ Begins(Read(ds, u).ds, st.ds)
      BY <2>4, <3>3 DEF Reaches
    <3>6. st.ds \in Image /\ r.ds \in Image
      BY <2>6 DEF Client
    <3>7. Begins(Read(ds, u).ds, r.ds)
      BY <2>7, <3>4, <3>5, <3>6, BeginsFacts DEF Image
    <3> QED BY <2>4, <3>5, <3>7 DEF Reaches
  <2> QED BY <2>8, <2>9
<1> HIDE DEF S
<1>3. \A k \in Nat : k \in S
  BY <1>1, <1>2, Tokens!NatSet
<1>4. \A t \in Seq(Token) : Len(t) \in S
  BY <1>3
<1> QED BY <1>4 DEF S

\* How much of a file a crash leaves at least: a power loss what was synced, a
\* kill everything.
Least(c) == IF "power" \in MayFail THEN c.synced ELSE Len(c.data)
CutFrom(c, t) == Least(c) <= Len(t) /\ Begins(t, c.data)

\* The disk w is what a crash may leave of the files of m on the disk d.
Remains(m, d, w) ==
    /\ DiskOK(w) /\ Live(m) \subseteq DOMAIN w
    /\ \A f \in Live(m) : CutFrom(d[f], w[f].data)

\* What is left loads, as a beginning of what the files hold that has all the
\* writes in `due'.
Survives(m, d, w, due) ==
    LET r == LoadAppendOnlyFiles(m, w)
    IN /\ r.ret # "FAILED"
       /\ Begins(r.ds, LoadAppendOnlyFiles(m, d).ds)
       /\ \A n \in due : n <= Len(r.ds)

\* The files of m hold a beginning of ds, and so does all that a crash may leave.
Firm(m, d, ds, due) ==
    /\ Begins(LoadAppendOnlyFiles(m, d).ds, ds)
    /\ \A w : Remains(m, d, w) => Survives(m, d, w, due)

\* A manifest and a disk that has its files.
Backed(m, d) ==
    /\ WellFormed(m) /\ m.names # "garbled"
    /\ DiskOK(d) /\ Live(m) \subseteq DOMAIN d

\* The loader sees the live files and their data only.
LEMMA LoadSame ==
    ASSUME NEW m, NEW k, NEW d, NEW w, Backed(m, d), Backed(k, w), Live(k) = Live(m),
           \A f \in Live(m) : w[f].data = d[f].data
    PROVE  LoadAppendOnlyFiles(k, w) = LoadAppendOnlyFiles(m, d)
<1>1. /\ k.base = m.base /\ k.incr_seq = m.incr_seq /\ m.base \in Nat /\ m.incr_seq \in Nat
  BY SameNumbers, LoadOrderIs DEF Backed
<1>2. PICK b \in Nat, n \in Nat : b = m.base /\ n = m.incr_seq
  BY <1>1
<1>3. /\ LoadAppendOnlyFiles(m, d) = Loaded(Live(m), d, b, n)
      /\ LoadAppendOnlyFiles(k, w) = Loaded(Live(k), w, b, n)
  BY <1>1, <1>2, LoadsAsFold, LoadOrderIs DEF Loaded, Backed
<1>4. Alike(Live(m), d, w, b, n)
  BY DEF Alike
<1> QED BY <1>2, <1>3, <1>4, LoadedSame

\* What the loader returns is a dataset.
LEMMA LoadImage ==
    ASSUME NEW m, NEW d, Backed(m, d)
    PROVE  LoadAppendOnlyFiles(m, d).ds \in Image
  BY LoadType DEF Backed, Progress

\* A disk remains of itself.
LEMMA RemainsSelf ==
    ASSUME NEW m, NEW d, Backed(m, d)
    PROVE  Remains(m, d, d)
<1>1. ASSUME NEW f \in Live(m) PROVE CutFrom(d[f], d[f].data)
  <2>1. PICK c : c = d[f] /\ c.data \in Seq(Token) /\ c.synced \in Nat /\ c.synced <= Len(c.data)
    BY DEF Backed, DiskOK, ContentOK
  <2>2. Begins(c.data, c.data) /\ Least(c) <= Len(c.data)
    BY <2>1, BeginsFacts DEF Least
  <2> QED BY <2>1, <2>2 DEF CutFrom
<1> QED BY <1>1 DEF Remains, Backed

\* Nothing is owed that the files do not hold.
LEMMA FirmHolds ==
    ASSUME NEW m, NEW d, Backed(m, d), NEW ds \in Image, NEW due \in SUBSET Nat, Firm(m, d, ds, due)
    PROVE  LET r == LoadAppendOnlyFiles(m, d)
           IN /\ r.ret # "FAILED" /\ Begins(r.ds, ds) /\ r.ds \in Image
              /\ \A n \in due : n <= Len(r.ds) /\ n <= Len(ds)
<1>1. PICK r : r = LoadAppendOnlyFiles(m, d)
  OBVIOUS
<1>2. /\ r.ret # "FAILED" /\ Begins(r.ds, ds) /\ r.ds \in Image /\ \A n \in due : n <= Len(r.ds)
  BY <1>1, RemainsSelf, LoadImage DEF Firm, Survives
<1>3. Len(r.ds) <= Len(ds) /\ Len(r.ds) \in Nat /\ Len(ds) \in Nat
  BY <1>2 DEF Begins, Image
<1>4. \A n \in due : n <= Len(ds)
  BY <1>2, <1>3
<1> QED BY <1>1, <1>2, <1>4

\* A step that leaves the data of the live files, and what was synced of them,
\* leaves them firm; so does a longer log, and a smaller debt.
LEMMA FirmSame ==
    ASSUME NEW m, NEW k, NEW d, NEW e, Backed(m, d), Backed(k, e), Live(k) = Live(m),
           \A f \in Live(m) : e[f].data = d[f].data /\ d[f].synced <= e[f].synced,
           NEW ds \in Image, NEW ds2 \in Image, Begins(ds, ds2),
           NEW due \in SUBSET Nat, NEW due2 \in SUBSET Nat, Firm(m, d, ds, due),
           \A n \in due2 : \E j \in due : n <= j
    PROVE  Firm(k, e, ds2, due2)
<1>1. PICK r : r = LoadAppendOnlyFiles(m, d) /\ r = LoadAppendOnlyFiles(k, e)
  BY LoadSame
<1>2. r.ds \in Image /\ Begins(r.ds, ds)
  BY <1>1, LoadImage DEF Firm
<1>3. Begins(r.ds, ds2)
  BY <1>2, BeginsFacts DEF Image
<1>4. ASSUME NEW w, Remains(k, e, w) PROVE Survives(k, e, w, due2)
  <2>1. ASSUME NEW f \in Live(m) PROVE CutFrom(d[f], w[f].data)
    <3>1. PICK c, x, t : c = d[f] /\ x = e[f] /\ t = w[f].data
      OBVIOUS
    <3>2. /\ ContentOK(c) /\ ContentOK(x) /\ t \in Seq(Token) /\ x.data = c.data /\ c.synced <= x.synced
          /\ CutFrom(x, t)
      BY <1>4, <3>1 DEF Backed, DiskOK, ContentOK, Remains
    <3>3. Least(c) <= Least(x) /\ Least(c) \in Nat /\ Least(x) \in Nat
      BY <3>2 DEF Least, ContentOK
    <3>4. CutFrom(c, t)
      BY <3>2, <3>3 DEF CutFrom
    <3> QED BY <3>1, <3>4
  <2>2. Remains(m, d, w)
    BY <1>4, <2>1 DEF Remains
  <2>3. Survives(m, d, w, due)
    BY <2>2 DEF Firm
  <2>4. Backed(m, w) /\ Backed(k, w)
    BY <1>4, <2>2 DEF Backed, Remains
  <2>5. LoadAppendOnlyFiles(m, w) = LoadAppendOnlyFiles(k, w)
    BY <2>4, LoadSame
  <2>6. PICK x : x = LoadAppendOnlyFiles(k, w).ds
    OBVIOUS
  <2>7. Len(x) \in Nat /\ \A j \in due : j <= Len(x)
    BY <2>3, <2>4, <2>5, <2>6, LoadImage DEF Survives, Image
  <2>8. ASSUME NEW n \in due2 PROVE n <= Len(x)
    <3>1. PICK j \in due : n <= j
      OBVIOUS
    <3>2. n \in Nat /\ j \in Nat /\ j <= Len(x)
      BY <2>7
    <3> QED BY <2>7, <3>1, <3>2
  <2> QED BY <1>1, <2>3, <2>5, <2>6, <2>8 DEF Survives
<1> QED BY <1>1, <1>3, <1>4 DEF Firm

\* All of the data of the live files survives any crash.
Exact(m, d) == \A f \in Live(m) : Len(d[f].data) <= Least(d[f])

\* Files that survive as they are.
LEMMA FirmExact ==
    ASSUME NEW m, NEW d, Backed(m, d), Exact(m, d), NEW r, r = LoadAppendOnlyFiles(m, d),
           r.ret # "FAILED", NEW ds \in Image, Begins(r.ds, ds),
           NEW due \in SUBSET Nat, \A n \in due : n <= Len(r.ds)
    PROVE  Firm(m, d, ds, due)
<1>1. ASSUME NEW w, Remains(m, d, w) PROVE Survives(m, d, w, due)
  <2>1. ASSUME NEW f \in Live(m) PROVE w[f].data = d[f].data
    <3>1. PICK c, t : c = d[f] /\ t = w[f].data
      OBVIOUS
    <3>2. ContentOK(c) /\ t \in Seq(Token) /\ CutFrom(c, t) /\ Len(c.data) <= Least(c)
      BY <1>1, <3>1 DEF Backed, DiskOK, ContentOK, Remains, Exact
    <3>3. Begins(t, c.data) /\ Len(c.data) <= Len(t) /\ c.data \in Seq(Token)
      BY <3>2 DEF CutFrom, Least, ContentOK
    <3>4. t = c.data
      BY <3>2, <3>3, BeginsFacts
    <3> QED BY <3>1, <3>4
  <2>2. Backed(m, w)
    BY <1>1 DEF Backed, Remains
  <2>3. LoadAppendOnlyFiles(m, w) = r
    BY <2>1, <2>2, LoadSame
  <2>4. Begins(r.ds, r.ds)
    BY LoadImage, BeginsFacts DEF Image
  <2> QED BY <2>3, <2>4 DEF Survives
<1> QED BY <1>1 DEF Firm

\* What the files before the last one hold.
Ahead(m, d) == Loaded(Live(m), d, m.base, m.incr_seq - 1).ds

\* The disk w has the files of m as d does, but the last one ends early.
Shorter(m, d, buf, w) ==
    /\ Backed(m, w)
    /\ \A f \in Live(m) : f # Incr(m.incr_seq) => w[f].data = d[f].data
    /\ Begins(w[Incr(m.incr_seq)].data, d[Incr(m.incr_seq)].data \o buf)

\* The files of m and buf hold ds.
Full(m, d, buf, ds) ==
    /\ Backed(m, d) /\ buf \in Seq(Token) /\ ds \in Image /\ m.incr # {}
    /\ NoSnap(d[Incr(m.incr_seq)].data \o buf)
    /\ \E sel : Ends(m, d, buf, ds, sel)

\* With a last file that ends early they load as what it still holds.
LEMMA CutLoads ==
    ASSUME AofLoadTruncated, NEW m, NEW d, NEW buf, NEW ds, Full(m, d, buf, ds),
           NEW w, Shorter(m, d, buf, w)
    PROVE  LET r == LoadAppendOnlyFiles(m, w)
               t == w[Incr(m.incr_seq)].data
           IN /\ r.ret # "FAILED" /\ r.ds = Read(Ahead(m, d), t).ds
              /\ t \in Seq(Token) /\ Ahead(m, d) \in Image
              /\ Reaches(Ahead(m, d), t, d[Incr(m.incr_seq)].data \o buf)
              /\ Read(Ahead(m, d), d[Incr(m.incr_seq)].data \o buf).ds = ds
<1>1. /\ WellFormed(m) /\ m.incr # {} /\ m.names # "garbled" /\ DiskOK(d) /\ DiskOK(w)
      /\ Live(m) \subseteq DOMAIN d /\ Live(m) \subseteq DOMAIN w
  BY DEF Full, Shorter, Backed
<1>2. PICK n, b, f : n \in Nat /\ n = m.incr_seq - 1 /\ b = m.base /\ f = Incr(m.incr_seq)
  BY <1>1, LastIsLate
<1>3. n + 1 = m.incr_seq /\ f \in Live(m) /\ b \in Nat /\ f \notin Early(b, n)
  BY <1>1, <1>2, LastIsLate
<1>4. PICK acc : acc = Loaded(Live(m), d, b, n)
  OBVIOUS
<1>5. acc = Loaded(Live(m), w, b, n)
  <2>1. Alike(Live(m), d, w, b, n)
    BY <1>2, <1>3 DEF Alike, Shorter
  <2> QED BY <1>2, <1>3, <1>4, <2>1, LoadedSame
<1>6. acc.ret = "OK" /\ acc.ds \in Image
  <2>1. acc \in Cuts(Live(m), d)
    BY <1>1, <1>2, <1>3, <1>4, LoadedType
  <2>2. acc.ret = "OK"
    BY <1>2, <1>4 DEF Full, Ends
  <2> QED BY <2>1, <2>2 DEF Cuts, Progress
<1>7. PICK t, u : t = w[f].data /\ u = d[f].data \o buf
  OBVIOUS
<1>8. t \in Seq(Token) /\ u \in Seq(Token) /\ Begins(t, u) /\ NoSnap(u)
  <2>1. t \in Seq(Token) /\ d[f].data \in Seq(Token) /\ buf \in Seq(Token)
    BY <1>1, <1>3, <1>7 DEF DiskOK, ContentOK, Full
  <2>2. u \in Seq(Token)
    BY <1>7, <2>1
  <2> QED BY <1>2, <1>7, <2>1, <2>2 DEF Full, Shorter
<1>9. Read(acc.ds, u).ok /\ Read(acc.ds, u).ds = ds
  BY <1>2, <1>4, <1>7 DEF Full, Ends, Reads
<1>10. Reaches(acc.ds, t, u)
  BY <1>6, <1>8, <1>9, ReadBegins
<1>11. PICK r, st : r = LoadAppendOnlyFiles(m, w) /\ st = Read(acc.ds, t) /\ st.ok
  BY <1>10 DEF Reaches
<1>12. r = LoadNext(Live(m), w, acc, f)
  <2>1. r = Loaded(Live(m), w, b, n + 1)
    BY <1>1, <1>2, <1>3, <1>11, LoadsAsFold, LoadOrderIs DEF Loaded
  <2>2. Loaded(Live(m), w, b, n + 1) = LoadNext(Live(m), w, Loaded(Live(m), w, b, n), Incr(n + 1))
    BY <1>2, <1>3, LoadedNext
  <2> QED BY <1>2, <1>3, <1>5, <2>1, <2>2
<1>13. r.ds = st.ds /\ r.ret # "FAILED"
  <2>1. PICK x : x = LoadFile(acc.ds, w[f].data)
    OBVIOUS
  <2>2. x = [ds |-> st.ds, valid |-> st.valid,
             ret |-> IF ~st.ok THEN "FAILED" ELSE IF st.open = 0 THEN "OK"
                     ELSE IF AofLoadTruncated THEN "TRUNCATED" ELSE "FAILED"]
    BY <1>7, <1>11, <2>1, LoadFileReads
  <2>3. x.ds = st.ds /\ x.ret # "FAILED"
    BY <1>11, <2>2
  <2>4. r = [ds |-> x.ds, ret |-> x.ret,
             cut |-> IF x.ret = "TRUNCATED" THEN [file |-> f, at |-> x.valid] ELSE acc.cut]
    BY <1>3, <1>6, <1>12, <2>1 DEF LoadNext
  <2> QED BY <2>3, <2>4
<1>14. acc.ds = Ahead(m, d)
  BY <1>2, <1>4 DEF Ahead
<1> QED BY <1>2, <1>6, <1>7, <1>8, <1>9, <1>10, <1>11, <1>13, <1>14

\* Of two such disks, the one with more of the last file loads more.
LEMMA MoreLoads ==
    ASSUME AofLoadTruncated, NEW m, NEW d, NEW buf, NEW ds, Full(m, d, buf, ds),
           NEW v, Shorter(m, d, buf, v), NEW w, Shorter(m, d, buf, w),
           Begins(v[Incr(m.incr_seq)].data, w[Incr(m.incr_seq)].data)
    PROVE  /\ LoadAppendOnlyFiles(m, v).ret # "FAILED"
           /\ Begins(LoadAppendOnlyFiles(m, v).ds, LoadAppendOnlyFiles(m, w).ds)
           /\ Begins(LoadAppendOnlyFiles(m, w).ds, ds)
<1>1. PICK ds0, t, u, f : /\ f = Incr(m.incr_seq) /\ t = v[f].data /\ u = w[f].data
                          /\ ds0 = Ahead(m, d)
  OBVIOUS
<1>2. /\ LoadAppendOnlyFiles(m, v).ret # "FAILED" /\ LoadAppendOnlyFiles(m, v).ds = Read(ds0, t).ds
      /\ t \in Seq(Token) /\ ds0 \in Image
  BY <1>1, CutLoads
<1>3. /\ LoadAppendOnlyFiles(m, w).ds = Read(ds0, u).ds /\ u \in Seq(Token)
      /\ Reaches(ds0, u, d[f].data \o buf) /\ Read(ds0, d[f].data \o buf).ds = ds
  BY <1>1, CutLoads
<1>4. Read(ds0, u).ok /\ Begins(Read(ds0, u).ds, ds)
  BY <1>3 DEF Reaches
<1>5. NoSnap(u)
  <2>1. PICK x : x = d[f].data \o buf
    OBVIOUS
  <2>2. NoSnap(x) /\ Begins(u, x)
    BY <1>1, <2>1 DEF Full, Shorter
  <2>3. x \in Seq(Token)
    <3>1. WellFormed(m) /\ m.incr # {} /\ Live(m) \subseteq DOMAIN d /\ DiskOK(d)
      BY DEF Full, Backed
    <3>2. f \in Live(m)
      BY <1>1, <3>1, LastIsLate
    <3>3. d[f].data \in Seq(Token) /\ buf \in Seq(Token)
      BY <3>1, <3>2 DEF Full, DiskOK, ContentOK
    <3> QED BY <2>1, <3>3
  <2>4. Len(u) \in Nat /\ Len(x) \in Nat
    BY <1>3, <2>3
  <2> QED BY <2>2, <2>4 DEF NoSnap, Begins
<1>6. Reaches(ds0, t, u)
  BY <1>1, <1>2, <1>3, <1>4, <1>5, ReadBegins
<1> QED BY <1>2, <1>3, <1>4, <1>6 DEF Reaches

\* Where the machine may lose power, a manifest lists one INCR file at most.
Sole(m) == "power" \in MayFail => m.incr \subseteq {m.incr_seq}

\* Then all files but the last one survive any crash.
LEMMA SoleExact ==
    ASSUME NEW m, NEW d, Backed(m, d), Plain(d), Sole(m), NEW f \in Live(m), f # Incr(m.incr_seq)
    PROVE  Len(d[f].data) <= Least(d[f])
<1>1. PICK c : c = d[f]
  OBVIOUS
<1>2. ContentOK(c) /\ PlainFile(f, c) /\ Len(c.data) \in Nat
  BY <1>1 DEF Backed, DiskOK, ContentOK, Plain
<1>3. CASE "power" \notin MayFail
  BY <1>1, <1>2, <1>3 DEF Least
<1>4. CASE "power" \in MayFail
  <2>1. f = Base(m.base)
    BY <1>4 DEF Sole, Live
  <2>2. f[1] = "base"
    BY <2>1 DEF Base
  <2>3. PICK x : c.synced = 1 /\ c.data = <<x>>
    BY <1>2, <2>2 DEF PlainFile
  <2> QED BY <1>1, <1>4, <2>3 DEF Least
<1> QED BY <1>3, <1>4

\* So what remains differs in the last file only.
LEMMA SoleRemains ==
    ASSUME NEW m, NEW d, Backed(m, d), Plain(d), Sole(m), NEW w, Remains(m, d, w),
           NEW f \in Live(m), f # Incr(m.incr_seq)
    PROVE  w[f].data = d[f].data
<1>1. PICK c, t : c = d[f] /\ t = w[f].data
  OBVIOUS
<1>2. Len(c.data) <= Least(c)
  BY <1>1, SoleExact
<1>3. ContentOK(c) /\ t \in Seq(Token) /\ CutFrom(c, t)
  BY <1>1 DEF Backed, DiskOK, ContentOK, Remains
<1>4. Begins(t, c.data) /\ Len(c.data) <= Len(t) /\ c.data \in Seq(Token)
  BY <1>2, <1>3 DEF CutFrom, Least, ContentOK
<1>5. t = c.data
  BY <1>3, <1>4, BeginsFacts
<1> QED BY <1>1, <1>5

\* write(2) of part of the buffer.
Writes(m, d, e, x) ==
    LET f == Incr(m.incr_seq)
    IN /\ \A g \in Live(m) : g # f => e[g] = d[g]
       /\ e[f].data = d[f].data \o x /\ e[f].synced = d[f].synced

\* Writing more of the log keeps the files firm.
LEMMA FirmWrites ==
    ASSUME AofLoadTruncated, NEW m, NEW d, NEW buf, NEW ds, Full(m, d, buf, ds), Plain(d), Sole(m),
           NEW e, Backed(m, e), Plain(e), NEW x \in Seq(Token), Begins(x, buf), Writes(m, d, e, x),
           NEW due \in SUBSET Nat, Firm(m, d, ds, due)
    PROVE  Firm(m, e, ds, due)
<1>1. PICK f, p, q : f = Incr(m.incr_seq) /\ p = d[f].data /\ q = p \o buf
  OBVIOUS
<1>2. /\ Backed(m, d) /\ WellFormed(m) /\ m.incr # {} /\ ds \in Image /\ buf \in Seq(Token)
  BY DEF Full, Backed
<1>3. f \in Live(m) /\ ContentOK(d[f]) /\ p \in Seq(Token) /\ q \in Seq(Token)
  <2>1. f \in Live(m)
    BY <1>1, <1>2, LastIsLate
  <2>2. ContentOK(d[f]) /\ p \in Seq(Token)
    BY <1>1, <1>2, <2>1 DEF Backed, DiskOK, ContentOK
  <2> QED BY <1>1, <1>2, <2>1, <2>2
<1>4. e[f].data = p \o x /\ e[f].synced = d[f].synced /\ \A g \in Live(m) : g # f => e[g] = d[g]
  BY <1>1 DEF Writes
<1>5. /\ p \o x \in Seq(Token) /\ Len(p \o x) = Len(p) + Len(x)
      /\ Len(p) \in Nat /\ Len(x) \in Nat
  BY <1>3, ConcatProperties
<1>6. Begins(p, p \o x) /\ Begins(p \o x, q)
  <2>1. Len(x) <= Len(buf) /\ \A i \in 1 .. Len(x) : x[i] = buf[i]
    BY DEF Begins
  <2>2. Begins(p \o x, p \o buf)
    BY <1>2, <1>3, <2>1 DEF Begins
  <2> QED BY <1>1, <1>3, <2>2, BeginsFacts
<1>7. Shorter(m, d, buf, d) /\ Shorter(m, d, buf, e)
  <2>1. Begins(p, q)
    BY <1>1, <1>2, <1>3, BeginsFacts
  <2> QED BY <1>1, <1>2, <1>4, <1>6, <2>1 DEF Shorter
<1>8. /\ Begins(LoadAppendOnlyFiles(m, d).ds, LoadAppendOnlyFiles(m, e).ds)
      /\ Begins(LoadAppendOnlyFiles(m, e).ds, ds)
  <2>1. Begins(d[Incr(m.incr_seq)].data, e[Incr(m.incr_seq)].data)
    BY <1>1, <1>4, <1>6
  <2> QED BY <1>7, <2>1, MoreLoads
<1>9. ASSUME NEW w, Remains(m, e, w) PROVE Survives(m, e, w, due)
  <2>1. PICK t : t = w[f].data
    OBVIOUS
  <2>2. /\ t \in Seq(Token) /\ Begins(t, p \o x) /\ Least(e[f]) <= Len(t) /\ Backed(m, w)
    BY <1>2, <1>3, <1>4, <1>9, <2>1 DEF Remains, CutFrom, Backed, DiskOK, ContentOK
  <2>3. \A g \in Live(m) : g # f => w[g].data = d[g].data
    <3>1. \A g \in Live(m) : g # f => w[g].data = e[g].data
      BY <1>1, <1>9, SoleRemains
    <3> QED BY <1>4, <3>1
  <2>4. Begins(t, q)
    BY <1>3, <1>5, <1>6, <2>2, BeginsFacts
  <2>5. Shorter(m, d, buf, w)
    BY <1>1, <2>1, <2>2, <2>3, <2>4 DEF Shorter
  <2>6. /\ LoadAppendOnlyFiles(m, w).ret # "FAILED"
        /\ Begins(LoadAppendOnlyFiles(m, w).ds, LoadAppendOnlyFiles(m, e).ds)
    <3>1. Begins(w[Incr(m.incr_seq)].data, e[Incr(m.incr_seq)].data)
      BY <1>1, <1>4, <2>1, <2>2
    <3> QED BY <1>7, <2>5, <3>1, MoreLoads
  <2>7. CASE Len(t) <= Len(p)
    <3>1. Begins(t, p)
      BY <1>3, <1>5, <1>6, <2>2, <2>7, BeginsFacts
    <3>2. Least(d[f]) <= Len(t)
      <4>1. PICK a, b : a = d[f] /\ b = e[f]
        OBVIOUS
      <4>2. a.data = p /\ b.data = p \o x /\ b.synced = a.synced /\ a.synced \in Nat
        BY <1>1, <1>3, <1>4, <4>1 DEF ContentOK
      <4>3. CASE "power" \in MayFail
        BY <2>2, <4>1, <4>2, <4>3 DEF Least
      <4>4. CASE "power" \notin MayFail
        <5>1. Least(a) = Len(p) /\ Least(b) = Len(p) + Len(x)
          BY <1>5, <4>2, <4>4 DEF Least
        <5>2. Len(t) \in Nat
          BY <2>2
        <5> QED BY <1>5, <2>2, <4>1, <5>1, <5>2
      <4> QED BY <4>3, <4>4
    <3>3. \A g \in Live(m) : CutFrom(d[g], w[g].data)
      <4>1. CutFrom(d[f], w[f].data)
        BY <1>1, <2>1, <3>1, <3>2 DEF CutFrom
      <4>2. ASSUME NEW g \in Live(m), g # f PROVE CutFrom(d[g], w[g].data)
        <5>1. CutFrom(d[g], d[g].data)
          BY <1>2, RemainsSelf DEF Remains
        <5> QED BY <2>3, <4>2, <5>1
      <4> QED BY <4>1, <4>2
    <3>4. Remains(m, d, w)
      BY <1>9, <3>3 DEF Remains
    <3>5. \A n \in due : n <= Len(LoadAppendOnlyFiles(m, w).ds)
      BY <3>4 DEF Firm, Survives
    <3> QED BY <2>6, <3>5 DEF Survives
  <2>8. CASE Len(t) > Len(p)
    <3>1. Begins(p, t)
      <4>1. Len(p) <= Len(t)
        BY <1>5, <2>2, <2>8
      <4> QED BY <1>3, <1>5, <1>6, <2>2, <4>1, BeginsFacts
    <3>2. Begins(LoadAppendOnlyFiles(m, d).ds, LoadAppendOnlyFiles(m, w).ds)
      <4>1. Begins(d[Incr(m.incr_seq)].data, w[Incr(m.incr_seq)].data)
        BY <1>1, <2>1, <3>1
      <4> QED BY <1>7, <2>5, <4>1, MoreLoads
    <3>3. PICK a, b : a = LoadAppendOnlyFiles(m, d).ds /\ b = LoadAppendOnlyFiles(m, w).ds
      OBVIOUS
    <3>4. a \in Image /\ b \in Image /\ Begins(a, b) /\ \A n \in due : n <= Len(a)
      BY <1>2, <2>2, <3>2, <3>3, FirmHolds, LoadImage
    <3>5. Len(a) <= Len(b) /\ Len(a) \in Nat /\ Len(b) \in Nat
      BY <3>4 DEF Begins, Image
    <3>6. \A n \in due : n <= Len(b)
      BY <3>4, <3>5
    <3> QED BY <2>6, <3>3, <3>6 DEF Survives
  <2> QED BY <1>5, <2>2, <2>7, <2>8
<1> QED BY <1>8, <1>9 DEF Firm

\* loadAppendOnlyFiles returns what the files hold, and leaves them firm.
LEMMA FirmLoads ==
    ASSUME NEW m, NEW d, Backed(m, d), Plain(d), Sole(m), NEW r, r = LoadAppendOnlyFiles(m, d),
           NEW e, e = AfterLoad(d, r), NEW due \in SUBSET Nat, Firm(m, d, r.ds, due)
    PROVE  Firm(m, e, r.ds, due)
<1>1. /\ r.ret # "FAILED" /\ r.ds \in Image /\ Begins(r.ds, r.ds)
      /\ \A n \in due : n <= Len(r.ds)
  <2>1. r.ds \in Image
    BY LoadImage
  <2> QED BY <2>1, FirmHolds
<1>2. r \in Progress(Live(m), d) /\ r.cut.file[1] # "base"
  BY LoadCutsIncr DEF Backed, CutsIncr
<1>3. Backed(m, e)
  BY <1>2, AfterLoadType DEF Backed
<1>4. LoadAppendOnlyFiles(m, e).ret = "OK" /\ LoadAppendOnlyFiles(m, e).ds = r.ds
  <2>1. Whole(m, e, r.ds)
    BY <1>1, LoadWhole DEF Backed
  <2>2. LoadAppendOnlyFiles(m, e) = Loaded(Live(m), e, m.base, m.incr_seq)
    BY <1>3, LoadsAsFold, LoadOrderIs DEF Loaded, Backed
  <2> QED BY <2>1, <2>2 DEF Whole
<1>5. CASE r.cut.file = NoFile
  BY <1>5 DEF AfterLoad
<1>6. CASE r.cut.file # NoFile
  <2>1. PICK f, n : f = r.cut.file /\ n = r.cut.at
    OBVIOUS
  <2>2. f \in Live(m) /\ f \in DOMAIN d /\ n \in 0 .. Len(d[f].data) /\ ContentOK(d[f])
    BY <1>2, <1>6, <2>1 DEF Progress, Backed, DiskOK
  <2>3. PICK c, p : c = CutAt(d[f], n) /\ p = d[f]
    OBVIOUS
  <2>4. e[f] = c /\ \A g \in DOMAIN d : g # f => e[g] = d[g]
    BY <1>6, <2>1, <2>2, <2>3 DEF AfterLoad
  <2>5. /\ p.data \in Seq(Token) /\ p.synced \in Nat /\ Len(p.data) \in Nat /\ n \in 0 .. Len(p.data)
        /\ c.data \in Seq(Token) /\ c.synced \in Nat /\ Len(c.data) = n
        /\ c.data = SubSeq(p.data, 1, n) /\ c.synced = IF p.synced < n THEN p.synced ELSE n
    <3>1. ContentOK(c) /\ Len(c.data) = n /\ c.data = SubSeq(p.data, 1, n)
      BY <2>2, <2>3, CutAtType
    <3>2. c.synced = IF p.synced < n THEN p.synced ELSE n
      BY <2>3 DEF CutAt
    <3> QED BY <2>2, <2>3, <3>1, <3>2 DEF ContentOK
  <2>6. Begins(c.data, p.data)
    BY <2>5 DEF Begins
  <2>7. "power" \in MayFail => f = Incr(m.incr_seq)
    <3>1. f \in {Base(b) : b \in {m.base} \ {0}} \cup {Incr(k) : k \in m.incr} /\ f[1] # "base"
      BY <1>2, <2>1, <2>2 DEF Live
    <3>2. \A b : Base(b)[1] = "base"
      BY DEF Base
    <3> QED BY <3>1, <3>2 DEF Sole
  <2>8. ASSUME NEW w, Remains(m, e, w) PROVE Survives(m, e, w, due)
    <3>1. PICK t : t = w[f].data
      OBVIOUS
    <3>2. t \in Seq(Token) /\ Len(t) \in Nat /\ Begins(t, c.data) /\ Least(c) <= Len(t)
      <4>1. t \in Seq(Token)
        BY <2>2, <2>8, <3>1 DEF Remains, DiskOK, ContentOK
      <4>2. CutFrom(c, t)
        BY <2>2, <2>4, <2>8, <3>1 DEF Remains
      <4> QED BY <4>1, <4>2 DEF CutFrom
    <3>3. ASSUME NEW g \in Live(m), g # f PROVE CutFrom(d[g], w[g].data) /\ e[g] = d[g]
      BY <2>4, <2>8, <3>3 DEF Remains, Backed
    <3>4. CASE Least(p) <= Len(t)
      <4>1. Begins(t, p.data)
        BY <2>5, <2>6, <3>2, BeginsFacts
      <4>2. CutFrom(d[f], w[f].data)
        BY <2>3, <3>1, <3>4, <4>1 DEF CutFrom
      <4>3. Remains(m, d, w)
        BY <2>8, <3>3, <4>2 DEF Remains
      <4>4. Survives(m, d, w, due)
        BY <4>3 DEF Firm
      <4> QED BY <1>4, <4>4 DEF Survives
    <3>5. CASE ~(Least(p) <= Len(t))
      <4>1. Len(c.data) <= Len(t)
        <5>1. CASE "power" \in MayFail
          BY <2>5, <3>2, <3>5, <5>1 DEF Least
        <5>2. CASE "power" \notin MayFail
          BY <3>2, <5>2 DEF Least
        <5> QED BY <5>1, <5>2
      <4>2. w[f].data = e[f].data
        BY <2>4, <2>5, <3>1, <3>2, <4>1, BeginsFacts
      <4>3. ASSUME NEW g \in Live(m), g # f PROVE w[g].data = e[g].data
        <5>1. Len(d[g].data) <= Least(d[g])
          <6>1. CASE "power" \in MayFail
            BY <2>7, <4>3, <6>1, SoleExact
          <6>2. CASE "power" \notin MayFail
            <7>1. Len(d[g].data) \in Nat
              BY DEF Backed, DiskOK, ContentOK
            <7> QED BY <6>2, <7>1 DEF Least
          <6> QED BY <6>1, <6>2
        <5>2. PICK a, b : a = d[g] /\ b = w[g].data
          OBVIOUS
        <5>3. ContentOK(a) /\ b \in Seq(Token) /\ CutFrom(a, b)
          BY <2>8, <3>3, <4>3, <5>2 DEF Remains, Backed, DiskOK, ContentOK
        <5>4. Begins(b, a.data) /\ Len(a.data) <= Len(b) /\ a.data \in Seq(Token)
          BY <5>1, <5>2, <5>3 DEF CutFrom, Least, ContentOK
        <5>5. b = a.data
          BY <5>3, <5>4, BeginsFacts
        <5> QED BY <3>3, <4>3, <5>2, <5>5
      <4>4. Backed(m, w) /\ \A g \in Live(m) : w[g].data = e[g].data
        BY <2>8, <4>2, <4>3 DEF Backed, Remains
      <4>5. LoadAppendOnlyFiles(m, w) = LoadAppendOnlyFiles(m, e)
        BY <1>3, <4>4, LoadSame
      <4> QED BY <1>1, <1>4, <4>5 DEF Survives
    <3> QED BY <3>4, <3>5
  <2> QED BY <1>1, <1>4, <2>8 DEF Firm
<1> QED BY <1>5, <1>6

-----------------------------------------------------------------------------
(* What is owed to clients, and the invariant that keeps it.               *)

\* No request adds an INCR file to the ones in use.
NoRewrite == Admin \cap {"multi_yes", "bgrewriteaof", "multi_bgrewriteaof", "auto"} = {}

\* The machine does not lose power; or it does, and there is one INCR file, all of
\* whose fsyncs count.
PowerSafe ==
    \/ "power" \notin MayFail
    \/ NoRewrite /\ (AofFsync = "always" \/ "fsync" \notin MayFail)

\* The numbers of writes that clients have been told are durable or may be told
\* next.
Owes(n) ==
    \/ n = promised
    \/ /\ AofFsync # "always" /\ server.aof_state = "ON"
       /\ server.fsynced_reploff_pending > 0
       /\ n = uncounted + server.fsynced_reploff_pending
    \/ /\ AofFsync = "always" /\ pc = "reply" /\ server.aof_state = "ON"
       /\ MasterReplOffset > 0 /\ n = Len(logged)
Owed == {n \in Nat : Owes(n)}

\* Whatever happens, the files keep what is owed.
Kept == /\ Firm(disk_manifest, disk, logged, Owed)
        /\ pc = "down" => logged = LoadAppendOnlyFiles(disk_manifest, disk).ds

\* Where startAppendOnly has committed the new manifest.
Adopted == \/ At("dirfsync", "start") \/ pc \in {"start_adopt", "start_done"}
           \/ Persisting("del_start") \/ At("unlink", "del_start")

\* The log is the dataset.
Told == /\ server.aof_state = "ON" \/ Adopted => logged = dataset
        /\ Adopted => promised = Len(dataset)

\* The offsets count what is there.
Books == /\ uncounted + server.fsynced_reploff_pending <= Len(dataset)
         /\ server.aof_last_incr_fsync_offset <= server.aof_last_incr_size

\* A server that has just started has written nothing, and has a new manifest only
\* for an empty INCR file.
Started ==
    /\ pc = "boot_base" => ~aof_manifest.dirty
    /\ pc = "boot_open" /\ aof_manifest.incr # {} => ~aof_manifest.dirty
    /\ pc \in {"boot_base", "boot_open"} => uncounted = Len(dataset)
    /\ Persisting("boot") => server.aof_buf = <<>>
    /\ At("persist", "boot") /\ aof_manifest.dirty => disk[server.aof_fd.file].data = <<>>

\* When the offsets say that all has been synced, it has.
Flushed ==
    /\ "power" \in MayFail /\ Ready /\ server.aof_buf = <<>> /\ MasterReplOffset > 0
    /\ server.aof_last_incr_fsync_offset = server.aof_last_incr_size
    => disk[server.aof_fd.file].synced = Len(disk[server.aof_fd.file].data)

\* One INCR file at a time.
Single(m) == m.incr \subseteq {m.incr_seq}
Alone ==
    /\ Enabling => Single(temp_am)
    /\ NoRewrite => /\ ~server.aof_rewrite_scheduled
                    /\ ~Switching /\ pc # "rw_open"
                    /\ pc \in {"flush", "fsync"} => cont # "rw_open"
                    /\ Single(aof_manifest) /\ Single(disk_manifest)

\* The inductive invariant.
PromiseInv == LogInv /\ Alone /\ Started /\ Told /\ Books /\ Flushed /\ Kept

\* What the proof is for.
Hypotheses ==
    /\ "garbage" \notin FreedName /\ "dirfsync" \notin MayFail /\ WritesSafe
    /\ PowerSafe /\ AofLoadTruncated

\* What LogInv says of types.
LEMMA Typed ==
    ASSUME LogInv
    PROVE  /\ server \in ServerState /\ DiskOK(disk) /\ dataset \in Image /\ logged \in Image
           /\ uncounted \in Nat /\ uncounted <= Len(dataset) /\ Len(dataset) \in Nat /\ promised \in Nat
           /\ Len(logged) \in Nat /\ server.fsynced_reploff_pending \in Nat
           /\ server.aof_last_incr_size \in Nat /\ server.aof_last_incr_fsync_offset \in Nat
           /\ server.aof_buf \in Seq(Token) /\ MasterReplOffset \in Nat
           /\ uncounted + MasterReplOffset = Len(dataset)
           /\ CoverInv /\ TypeInv /\ Inv /\ Plain(disk) /\ LogRest /\ Switched /\ Complete /\ Rewritten
           /\ WellFormed(aof_manifest) /\ WellFormed(temp_am) /\ WellFormed(disk_manifest)
           /\ Backed(disk_manifest, disk) /\ Agreement
           /\ pc \in {"flush", "fsync"} => cont \in FlushReturn
           /\ pc \in {"persist", "dirfsync"} => cont \in {"start", "rw", "boot", "del_start", "del_boot"}
           /\ pc = "unlink" => cont \in {"start_failed", "del_start", "del_boot"}
<1>1. /\ CoverInv /\ TypeInv /\ Inv /\ Plain(disk) /\ LogRest /\ Switched /\ Complete /\ Rewritten
      /\ Named /\ DiskOK(disk) /\ TypeOK /\ Shape /\ Agreement /\ Manifests /\ LiveFilesExist
  BY DEF LogInv, CoverInv, TypeInv, Inv, PlainBuffer, LogRest
<1>2. server \in ServerState /\ DataType
  BY <1>1, TypeParts
<1>3. /\ dataset \in Image /\ logged \in Image /\ uncounted \in 0 .. Len(dataset) /\ promised \in Nat
  BY <1>2 DEF DataType
<1>4. Len(dataset) \in Nat /\ Len(logged) \in Nat
  BY <1>3 DEF Image
<1>5. /\ server.fsynced_reploff_pending \in Nat /\ server.aof_buf \in Seq(Token)
      /\ server.aof_last_incr_size \in Nat /\ server.aof_last_incr_fsync_offset \in Nat
  BY <1>2 DEF ServerState
<1>6. MasterReplOffset \in Nat /\ uncounted + MasterReplOffset = Len(dataset)
  BY <1>3, <1>4 DEF MasterReplOffset
<1>7. Backed(disk_manifest, disk)
  BY <1>1 DEF Backed, Manifests, LiveFilesExist, Named
<1> QED BY <1>1, <1>2, <1>3, <1>4, <1>5, <1>6, <1>7 DEF Shape, Manifests

\* Where no request adds an INCR file, none is added.
LEMMA AloneStep ==
    ASSUME LogInv, Alone, LogInv', Next, "dirfsync" \notin MayFail
    PROVE  Alone'
<1>1. /\ server \in ServerState
      /\ WellFormed(aof_manifest) /\ WellFormed(temp_am) /\ WellFormed(disk_manifest)
      /\ pc \in {"flush", "fsync"} => cont \in FlushReturn
      /\ pc \in {"persist", "dirfsync"} => cont \in {"start", "rw", "boot", "del_start", "del_boot"}
      /\ pc = "unlink" => cont \in {"start_failed", "del_start", "del_boot"}
  BY Typed
<1>2. ASSUME NoRewrite
      PROVE \A r \in {"multi_yes", "bgrewriteaof", "multi_bgrewriteaof", "auto"} : ~Request(r)
  BY <1>2 DEF NoRewrite, Request
<1>3. ASSUME NoRewrite
      PROVE  /\ ~server.aof_rewrite_scheduled /\ Single(aof_manifest) /\ Single(disk_manifest)
             /\ pc \notin {"rw_open", "rw_swap"}
             /\ pc \in {"persist", "dirfsync"} => cont # "rw"
             /\ pc \in {"flush", "fsync"} => cont # "rw_open"
  BY <1>1, <1>3 DEF Alone, Switching, At, Persisting
<1>4. ASSUME UNCHANGED <<aof_manifest, temp_am, disk_manifest>>, Enabling' => Enabling,
             NoRewrite => /\ ~server'.aof_rewrite_scheduled
                          /\ ~Switching' /\ pc' # "rw_open"
                          /\ pc' \in {"flush", "fsync"} => cont' # "rw_open"
      PROVE  Alone'
  BY <1>3, <1>4 DEF Alone, NoRewrite, Single
<1>5. CASE Flush
  <2>1. /\ cont' = cont /\ pc \in {"flush", "fsync"}
        /\ pc' \in {"fsync", "exit", cont} /\ UNCHANGED <<aof_manifest, temp_am, disk_manifest>>
    BY <1>5 DEF Flush, FlushEmpty, FlushWrite, FlushError, FlushShort, FlushFsync,
         FlushFsyncError, WriteError, Goto, memory, fs
  <2>2. server'.aof_rewrite_scheduled = server.aof_rewrite_scheduled
    <3>1. CASE \E due \in BOOLEAN : FlushEmpty(due)
      BY <1>1, <3>1 DEF FlushEmpty, ServerState
    <3>2. CASE \E due \in BOOLEAN : FlushWrite(due)
      BY <1>1, <3>2 DEF FlushWrite, ServerState
    <3>3. CASE FlushError
      BY <1>1, <3>3 DEF FlushError, WriteError, ServerState
    <3>4. CASE \E k \in 1 .. Len(server.aof_buf) - 1 : FlushShort(k)
      <4>1. PICK k \in 1 .. Len(server.aof_buf) - 1 : FlushShort(k)
        BY <3>4
      <4>2. k \in Nat
        OBVIOUS
      <4> QED BY <1>1, <4>1, <4>2, FlushShortFields DEF ShortSame
    <3>5. CASE FlushFsync \/ FlushFsyncError
      BY <1>1, <3>5 DEF FlushFsync, FlushFsyncError, ServerState
    <3> QED BY <1>5, <3>1, <3>2, <3>3, <3>4, <3>5 DEF Flush
  <2>3. /\ pc' \in {"fsync", "exit", "reply", "idle", "stop", "shutdown", "rw_open"}
        /\ NoRewrite => pc' # "rw_open"
    BY <1>1, <1>3, <2>1 DEF FlushReturn
  <2>4. ~Enabling' /\ ~Switching'
    BY <2>3 DEF Enabling, Switching, At, Persisting
  <2> QED BY <1>3, <1>4, <2>1, <2>2, <2>3, <2>4
<1>6. CASE Command \/ EventLoop \/ Reply \/ StopClose \/ ShutdownFsync
  <2>1. /\ pc' \in {"idle", "reply", "exit", "flush", "start_open"}
        /\ NoRewrite /\ pc' = "flush" => cont' \in {"reply", "idle", "stop", "shutdown"}
        /\ UNCHANGED <<aof_manifest, temp_am, disk_manifest>>
    BY <1>2, <1>3, <1>6 DEF Command, EventLoop, Reply, StopClose, ShutdownFsync, Execute,
       StartAppendOnly, StartAppendOnlyInExec, StopAppendOnly, BgRewriteAof,
       BgRewriteAofInExec, Shutdown, BeforeSleep, CronFlush, CronRewrite,
       RewriteBackground, Goto, Call, control, memory, fs
  <2>2. ASSUME NoRewrite PROVE ~server'.aof_rewrite_scheduled
    <3>1. CASE StopClose
      BY <3>1 DEF StopClose, FreshServer
    <3>2. CASE \E d \in Db : Execute(d)
      BY <1>1, <1>3, <2>2, <3>2 DEF Execute, Feed, ServerState
    <3>3. CASE Reply
      BY <1>1, <1>3, <2>2, <3>3 DEF Reply, ServerState
    <3>4. CASE EventLoop \/ ShutdownFsync \/ StopAppendOnly \/ Shutdown
      BY <1>3, <2>2, <3>4 DEF EventLoop, ShutdownFsync, StopAppendOnly, Shutdown, BeforeSleep,
         CronFlush, CronRewrite
    <3>5. CASE StartAppendOnly
      BY <1>1, <1>3, <2>2, <3>5 DEF StartAppendOnly, ServerState
    <3> QED BY <1>2, <1>6, <2>2, <3>1, <3>2, <3>3, <3>4, <3>5
         DEF Command, StartAppendOnlyInExec, BgRewriteAof, BgRewriteAofInExec
  <2>3. ~Enabling' /\ ~Switching'
    BY <2>1 DEF Enabling, Switching, At, Persisting
  <2> QED BY <1>4, <2>1, <2>2, <2>3
<1>7. CASE Rewrite
  <2>1. ~NoRewrite
    BY <1>3, <1>7 DEF Rewrite, RewriteOff, RewriteWait, RewriteOpen, RewriteOpenError, RewriteSwap
  <2>2. pc' = "idle" \/ (pc' = "persist" /\ cont' = "rw")
    BY <1>7 DEF Rewrite, RewriteOff, RewriteWait, RewriteOpen, RewriteOpenError, RewriteSwap, Goto, Call
  <2>3. ~Enabling'
    BY <2>2 DEF Enabling, At, Persisting
  <2> QED BY <2>1, <2>3 DEF Alone, NoRewrite
<1>8. CASE Start
  <2>1. CASE StartOpen \/ StartOpenError \/ StartError \/ StartDone
    <3>1. /\ UNCHANGED <<aof_manifest, temp_am, disk_manifest>>
          /\ pc' \in {"start_rewrite", "idle"} \/ (pc' = "unlink" /\ cont' = "start_failed")
      BY <2>1 DEF StartOpen, StartOpenError, StartError, StartDone, Goto, UnlinkThen, memory, fs
    <3>2. server'.aof_rewrite_scheduled = server.aof_rewrite_scheduled
      BY <1>1, <2>1 DEF StartOpen, StartOpenError, StartError, StartDone, SwapFd, ServerState
    <3>3. ~Enabling' /\ ~Switching'
      BY <3>1 DEF Enabling, Switching, At, Persisting
    <3> QED BY <1>3, <1>4, <3>1, <3>2, <3>3
  <2>2. CASE StartRewrite \/ StartRenameBase
    <3>1. /\ UNCHANGED <<aof_manifest, disk_manifest, server>>
          /\ pc' \in {"start_rename_base", "start_rename_incr"}
      BY <2>2 DEF StartRewrite, StartRenameBase, Goto
    <3>2. ~Enabling' /\ ~Switching'
      BY <3>1 DEF Enabling, Switching, At, Persisting
    <3> QED BY <1>3, <3>1, <3>2 DEF Alone, NoRewrite, Single
  <2>3. CASE StartRenameIncr
    <3>1. /\ UNCHANGED <<aof_manifest, disk_manifest>> /\ pc' = "persist" /\ cont' = "start"
          /\ server.aof_fd.file # NoFile /\ temp_am' = MarkRewritten(temp_am, TRUE)
          /\ pc = "start_rename_incr"
      <4>1. pc = "start_rename_incr"
        BY <2>3 DEF StartRenameIncr
      <4>2. server.aof_fd.file # NoFile
        BY <4>1, Typed DEF Inv, Starting
      <4> QED BY <2>3, <4>1, <4>2 DEF StartRenameIncr, Call
    <3>2. server'.aof_rewrite_scheduled = server.aof_rewrite_scheduled
      BY <1>1, <2>3 DEF StartRenameIncr, ServerState
    <3>3. Single(temp_am')
      <4>1. CASE temp_am.incr = {}
        BY <3>1, <4>1 DEF MarkRewritten, Single
      <4>2. CASE temp_am.incr # {}
        BY <1>1, <3>1, <4>2, MarkRewrittenFiles DEF Single
      <4> QED BY <4>1, <4>2
    <3>4. ~Switching'
      BY <3>1 DEF Switching, At, Persisting
    <3> QED BY <1>3, <3>1, <3>2, <3>3, <3>4 DEF Alone, NoRewrite, Single
  <2>4. CASE StartAdopt
    <3>1. /\ UNCHANGED <<temp_am, disk_manifest, server>> /\ pc = "start_adopt"
          /\ pc' = "start_done" \/ (pc' = "unlink" /\ cont' = "del_start")
          /\ aof_manifest' = [temp_am EXCEPT !.names = "freed"]
      BY <2>4 DEF StartAdopt, Goto, UnlinkThen, fs
    <3>2. aof_manifest'.incr = temp_am.incr /\ aof_manifest'.incr_seq = temp_am.incr_seq
      BY <1>1, <3>1 DEF WellFormed, Manifest
    <3>3. Single(temp_am)
      BY <3>1 DEF Alone, Enabling
    <3>4. Single(aof_manifest')
      BY <3>2, <3>3 DEF Single
    <3>5. ~Enabling' /\ ~Switching'
      BY <3>1 DEF Enabling, Switching, At, Persisting
    <3> QED BY <1>3, <3>1, <3>4, <3>5 DEF Alone, NoRewrite, Single
  <2> QED BY <1>8, <2>1, <2>2, <2>3, <2>4 DEF Start
<1>9. CASE Persist
  <2>1. /\ server' = server /\ cont' = cont /\ pc \in {"persist", "dirfsync"}
        /\ pc' \in {"dirfsync", AfterPersist[cont], AfterPersistError[cont]}
    BY <1>9 DEF Persist, PersistClean, PersistRename, PersistSynced, PersistError, Goto
  <2>2. /\ pc' \in {"dirfsync", "del_boot", "idle", "exit", "start_adopt", "start_undo", "start_done", "rw_swap"}
        /\ pc' = "start_adopt" => cont = "start"
        /\ pc' = "rw_swap" => cont = "rw"
    BY <1>1, <2>1 DEF AfterPersist, AfterPersistError
  <2>3. Enabling' => Enabling
    BY <2>1, <2>2 DEF Enabling, At, Persisting
  <2>4. Switching' => Switching
    BY <2>1, <2>2 DEF Switching, At, Persisting
  <2>5. CASE PersistClean \/ PersistError
    <3>1. UNCHANGED <<aof_manifest, temp_am, disk_manifest>>
      BY <2>5 DEF PersistClean, PersistError, memory, fs
    <3> QED BY <1>3, <1>4, <2>1, <2>2, <2>3, <2>4, <3>1 DEF Alone
  <2>6. CASE PersistSynced
    <3>1. /\ disk_manifest' = disk_manifest
          /\ aof_manifest' \in {aof_manifest, [aof_manifest EXCEPT !.dirty = FALSE]}
          /\ temp_am' \in {temp_am, [temp_am EXCEPT !.dirty = FALSE]}
      BY <2>6 DEF PersistSynced, fs
    <3>2. /\ aof_manifest'.incr = aof_manifest.incr /\ aof_manifest'.incr_seq = aof_manifest.incr_seq
          /\ temp_am'.incr = temp_am.incr /\ temp_am'.incr_seq = temp_am.incr_seq
      BY <1>1, <3>1 DEF WellFormed, Manifest
    <3> QED BY <1>3, <2>1, <2>2, <2>3, <2>4, <3>1, <3>2 DEF Alone, NoRewrite, Single
  <2>7. CASE PersistRename
    <3>1. /\ UNCHANGED <<aof_manifest, temp_am>> /\ pc = "persist"
          /\ disk_manifest' \in ManifestDup(PersistTarget)
      BY <2>7 DEF PersistRename, memory
    <3>2. PICK m : m = PersistTarget
      OBVIOUS
    <3>3. m \in {aof_manifest, temp_am} /\ WellFormed(m) /\ (cont \notin {"start", "rw"} => m = aof_manifest)
      BY <1>1, <3>2 DEF PersistTarget
    <3>4. disk_manifest'.incr = m.incr /\ disk_manifest'.incr_seq = m.incr_seq
      BY <3>1, <3>2, <3>3, DupFiles
    <3>5. NoRewrite => Single(m)
      <4>1. CASE cont = "start"
        <5>1. Enabling
          BY <3>1, <4>1 DEF Enabling, At, Persisting
        <5> QED BY <3>2, <4>1, <5>1 DEF Alone, PersistTarget
      <4>2. CASE cont = "rw"
        BY <1>3, <3>1, <4>2
      <4>3. CASE cont \notin {"start", "rw"}
        BY <1>3, <3>3, <4>3
      <4> QED BY <4>1, <4>2, <4>3
    <3> QED BY <1>3, <2>1, <2>2, <2>3, <2>4, <3>1, <3>4, <3>5 DEF Alone, NoRewrite, Single
  <2> QED BY <1>9, <2>5, <2>6, <2>7 DEF Persist
<1>10. CASE Unlink
  <2>1. server'.aof_rewrite_scheduled = server.aof_rewrite_scheduled
    BY <1>1, <1>10 DEF Unlink, UnlinkDone, UnlinkOne, ServerState
  <2>2. /\ pc = "unlink" /\ cont' = cont /\ pc' \in {"unlink", "idle", "persist"}
        /\ UNCHANGED <<temp_am, disk_manifest>>
        /\ aof_manifest' \in {aof_manifest, [aof_manifest EXCEPT !.hist = {}, !.dirty = TRUE]}
    BY <1>10 DEF Unlink, UnlinkDone, UnlinkOne, Goto, memory, fs
  <2>3. aof_manifest'.incr = aof_manifest.incr /\ aof_manifest'.incr_seq = aof_manifest.incr_seq
    BY <1>1, <2>2 DEF WellFormed, Manifest
  <2>4. ~Enabling' /\ ~Switching'
    BY <1>1, <2>2 DEF Enabling, Switching, At, Persisting
  <2> QED BY <1>3, <2>1, <2>2, <2>3, <2>4 DEF Alone, NoRewrite, Single
<1>11. CASE Boot
  <2>1. /\ UNCHANGED <<temp_am, disk_manifest>>
        /\ aof_manifest' \in {aof_manifest, NewBase(aof_manifest)}
             \/ (aof_manifest.incr = {} /\ aof_manifest' = NewIncr(aof_manifest))
        /\ pc' \in {"boot_open", "exit", "idle", "unlink"} \/ (pc' = "persist" /\ cont' = "boot")
    BY <1>11 DEF Boot, BootBase, BootOpen, BootError, BootDelHistory, Goto, Call, UnlinkThen, memory, fs
  <2>2. server'.aof_rewrite_scheduled = server.aof_rewrite_scheduled
    <3>1. CASE BootOpen
      BY <1>1, <3>1, BootOpenFields
    <3> QED BY <1>11, <3>1 DEF Boot, BootBase, BootError, BootDelHistory
  <2>3. NoRewrite => Single(aof_manifest')
    BY <1>1, <1>3, <2>1, NewBaseFiles, NewIncrFiles DEF Single
  <2>4. ~Enabling' /\ ~Switching'
    BY <2>1 DEF Enabling, Switching, At, Persisting
  <2> QED BY <1>3, <2>1, <2>2, <2>3, <2>4 DEF Alone, NoRewrite, Single
<1>12. CASE Environment
  <2>1. /\ disk_manifest' = disk_manifest /\ pc' \in {"down", "boot_base", "del_boot"}
        /\ aof_manifest' \in {aof_manifest, EmptyManifest, LoadManifest(disk_manifest)}
        /\ \/ server' \in {server, FreshServer}
           \/ \E x, y : server' = [FreshServer EXCEPT !.aof_state = x, !.fsynced_reploff = y]
    BY <1>12 DEF Environment, Kill, PowerLoss, Stop, StartServer, StartServerFatal,
         StartServerOff, Booted, Goto, control, memory
  <2>2. /\ ~FreshServer.aof_rewrite_scheduled
        /\ \A x, y : ~[FreshServer EXCEPT !.aof_state = x, !.fsynced_reploff = y].aof_rewrite_scheduled
    BY DEF FreshServer
  <2>3. NoRewrite => Single(aof_manifest')
    <3>1. Single(EmptyManifest)
      BY DEF Single, EmptyManifest
    <3>2. PICK m : m = LoadManifest(disk_manifest)
      OBVIOUS
    <3>3. WellFormed(m) /\ Live(m) = Live(disk_manifest)
      BY <1>1, <3>2, LoadManifestFiles
    <3>4. m.incr = disk_manifest.incr /\ m.incr_seq = disk_manifest.incr_seq
      BY <1>1, <3>3, SameNumbers
    <3>5. NoRewrite => Single(m)
      BY <1>3, <3>4 DEF Single
    <3> QED BY <1>3, <2>1, <3>1, <3>2, <3>5
  <2>4. ~Enabling' /\ ~Switching'
    BY <2>1 DEF Enabling, Switching, At, Persisting
  <2> QED BY <1>3, <2>1, <2>2, <2>3, <2>4 DEF Alone, NoRewrite, Single
<1> QED BY <1>5, <1>6, <1>7, <1>8, <1>9, <1>10, <1>11, <1>12 DEF Next, Running

\* The steps of a server that starts.
AtBoot == pc \in {"boot_base", "boot_open"} \/ Persisting("boot")

\* Nothing else leads there.
LEMMA BootSteps ==
    ASSUME LogInv, Next, AtBoot'
    PROVE  \/ StartServer \/ BootBase \/ BootOpen
           \/ PersistRename /\ pc' = "dirfsync" /\ At("persist", "boot")
<1>1. /\ pc \in {"flush", "fsync"} => cont \in FlushReturn
      /\ pc \in {"persist", "dirfsync"} => cont \in {"start", "rw", "boot", "del_start", "del_boot"}
      /\ pc = "unlink" => cont \in {"start_failed", "del_start", "del_boot"}
  BY Typed
<1>2. pc' \in {"boot_base", "boot_open"} \/ (pc' \in {"persist", "dirfsync"} /\ cont' = "boot")
  BY DEF AtBoot, At, Persisting
<1>3. ~Flush
  <2>1. SUFFICES ASSUME Flush PROVE FALSE
    OBVIOUS
  <2>2. cont' = cont /\ pc \in {"flush", "fsync"} /\ pc' \in {"fsync", "exit", cont}
    BY <2>1 DEF Flush, FlushEmpty, FlushWrite, FlushError, FlushShort, FlushFsync,
         FlushFsyncError, WriteError, Goto
  <2> QED BY <1>1, <1>2, <2>2 DEF FlushReturn
<1>4. ~(Command \/ EventLoop \/ Reply \/ StopClose \/ ShutdownFsync \/ Rewrite)
  BY <1>2 DEF Command, EventLoop, Reply, StopClose, ShutdownFsync, Execute,
       StartAppendOnly, StartAppendOnlyInExec, StopAppendOnly, BgRewriteAof,
       BgRewriteAofInExec, Shutdown, BeforeSleep, CronFlush, CronRewrite,
       RewriteBackground, Goto, Call, control, Rewrite, RewriteOff, RewriteWait, RewriteOpen,
       RewriteOpenError, RewriteSwap
<1>5. ~Start
  BY <1>2 DEF Start, StartOpen, StartOpenError, StartRewrite, StartRenameBase,
         StartRenameIncr, StartError, StartAdopt, StartDone, Goto, Call, UnlinkThen
<1>6. ~Unlink
  BY <1>1, <1>2 DEF Unlink, UnlinkDone, UnlinkOne, Goto
<1>7. CASE Boot
  BY <1>2, <1>7 DEF Boot, BootError, BootDelHistory, Goto, UnlinkThen
<1>8. CASE Persist
  <2>1. pc \in {"persist", "dirfsync"} /\ cont' = cont
    BY <1>8 DEF Persist, PersistClean, PersistRename, PersistSynced, PersistError, Goto
  <2>2. CASE PersistRename
    BY <1>2, <2>1, <2>2 DEF PersistRename, Goto, At
  <2>3. CASE PersistClean \/ PersistSynced \/ PersistError
    <3>1. pc' \in {AfterPersist[cont], AfterPersistError[cont]}
      BY <2>3 DEF PersistClean, PersistSynced, PersistError, Goto
    <3> QED BY <1>1, <1>2, <2>1, <3>1 DEF AfterPersist, AfterPersistError
  <2> QED BY <1>8, <2>2, <2>3 DEF Persist
<1>9. CASE Environment
  <2>1. ~(Kill \/ PowerLoss \/ StartServerFatal \/ StartServerOff)
    BY <1>2 DEF Kill, PowerLoss, Stop, StartServerFatal, StartServerOff, Goto, control
  <2> QED BY <1>9, <2>1 DEF Environment
<1> QED BY <1>3, <1>4, <1>5, <1>6, <1>7, <1>8, <1>9 DEF Next, Running

\* A starting server commits a manifest only for an INCR file that is empty.
LEMMA StartedStep ==
    ASSUME LogInv, Started, LogInv', Next
    PROVE  Started'
<1>1. CASE ~AtBoot'
  BY <1>1 DEF Started, AtBoot, Persisting
<1>2. CASE StartServer
  <2>1. pc' = "boot_base" /\ aof_manifest' = LoadManifest(disk_manifest) /\ uncounted' = Len(dataset')
    BY <1>2 DEF StartServer, Booted, Goto
  <2>2. ~aof_manifest'.dirty
    BY <2>1, Typed DEF LoadManifest, WellFormed, Manifest
  <2> QED BY <2>1, <2>2 DEF Started, Persisting, At
<1>3. CASE BootBase
  <2>1. /\ pc = "boot_base" /\ pc' = "boot_open" /\ UNCHANGED <<dataset, uncounted>>
        /\ IF Live(aof_manifest) = {} THEN aof_manifest' = NewBase(aof_manifest)
           ELSE aof_manifest' = aof_manifest
    BY <1>3 DEF BootBase, Goto
  <2>2. uncounted = Len(dataset) /\ ~aof_manifest.dirty
    BY <2>1 DEF Started
  <2>3. aof_manifest'.incr # {} => ~aof_manifest'.dirty
    <3>1. CASE Live(aof_manifest) = {}
      <4>1. aof_manifest.incr = {}
        BY <3>1 DEF Live
      <4> QED BY <2>1, <3>1, <4>1, Typed, NewBaseFiles
    <3> QED BY <2>1, <2>2, <3>1
  <2> QED BY <2>1, <2>2, <2>3 DEF Started, Persisting, At
<1>4. CASE BootOpen
  <2>1. PICK f, k, m : f = Incr(LastIncr(aof_manifest')) /\ k = aof_manifest' /\ m = aof_manifest
    OBVIOUS
  <2>2. /\ pc = "boot_open" /\ pc' = "persist" /\ cont' = "boot"
        /\ server'.aof_fd = [file |-> f, append |-> TRUE, gap |-> 0]
        /\ server'.aof_buf = server.aof_buf
    BY <1>4, <2>1, BootOpenFields, Typed
  <2>3. server'.aof_fd.file = f /\ server.aof_buf = <<>>
    BY <2>2, Typed DEF LogRest, Booting
  <2>4. /\ k = IF m.incr = {} THEN NewIncr(m) ELSE m
        /\ disk' = IF f \in DOMAIN disk THEN disk ELSE With(disk, f, EmptyFile)
    BY <1>4, <2>1 DEF BootOpen
  <2>5. WellFormed(m) /\ Lists(m, Filled(disk)) /\ DiskOK(disk)
    BY <2>1, <2>2, Typed DEF CoverInv, Covered
  <2>6. ASSUME k.dirty PROVE disk'[f].data = <<>>
    <3>1. m.incr = {}
      BY <2>1, <2>2, <2>4, <2>6 DEF Started
    <3>2. PICK n : n = m.incr_seq + 1
      OBVIOUS
    <3>3. WellFormed(k) /\ k.incr = {n} /\ k.incr_seq = n
      BY <2>4, <2>5, <3>1, <3>2, NewIncrFiles
    <3>4. f = Incr(n)
      BY <2>1, <3>3, LastIncrIsSeq
    <3>5. f \notin Live(m) /\ f \notin m.hist
      BY <2>5, <3>1, <3>2, <3>4, LiveMembers DEF WellFormed, Manifest, Base, Incr
    <3>6. CASE f \in DOMAIN disk
      <4>1. f \notin Filled(disk)
        BY <2>5, <3>5 DEF Lists
      <4> QED BY <2>4, <3>4, <3>6, <4>1 DEF Filled, Incr
    <3>7. CASE f \notin DOMAIN disk
      BY <2>4, <3>7 DEF With, EmptyFile
    <3> QED BY <3>6, <3>7
  <2> QED BY <2>1, <2>2, <2>3, <2>6 DEF Started, Persisting, At
<1>5. CASE PersistRename /\ pc' = "dirfsync" /\ At("persist", "boot")
  <2>1. server' = server /\ pc' = "dirfsync" /\ Persisting("boot")
    BY <1>5 DEF PersistRename, Persisting
  <2> QED BY <2>1 DEF Started, Persisting, At
<1> QED BY <1>1, <1>2, <1>3, <1>4, <1>5, BootSteps

-----------------------------------------------------------------------------
(* Steps and the files.                                                    *)

\* One INCR file where the power may fail.
LEMMA SoleFiles ==
    ASSUME Alone, PowerSafe
    PROVE  /\ Sole(aof_manifest) /\ Sole(disk_manifest)
           /\ Enabling => Sole(temp_am)
           /\ "power" \in MayFail => NoRewrite
  BY DEF Alone, PowerSafe, Sole, Single

\* Files of which the last one survives as it is.
LEMMA LastExact ==
    ASSUME NEW m, NEW d, Backed(m, d), Plain(d), Sole(m),
           m.incr # {} => Len(d[Incr(m.incr_seq)].data) <= Least(d[Incr(m.incr_seq)])
    PROVE  Exact(m, d)
<1> SUFFICES ASSUME NEW f \in Live(m) PROVE Len(d[f].data) <= Least(d[f])
  BY DEF Exact
<1>1. CASE f # Incr(m.incr_seq)
  BY <1>1, SoleExact
<1>2. CASE f = Incr(m.incr_seq)
  <2>1. m.incr # {}
    BY <1>2, LiveMembers
  <2> QED BY <1>2, <2>1
<1> QED BY <1>1, <1>2

\* Without a power loss every file does.
LEMMA KillExact ==
    ASSUME NEW m, NEW d, Backed(m, d), "power" \notin MayFail
    PROVE  Exact(m, d)
<1> SUFFICES ASSUME NEW f \in Live(m) PROVE Len(d[f].data) <= Least(d[f])
  BY DEF Exact
<1>1. Len(d[f].data) \in Nat
  BY DEF Backed, DiskOK, ContentOK
<1> QED BY <1>1 DEF Least

\* Files that survive as they are and hold the log.
LEMMA WholeFirm ==
    ASSUME NEW m, NEW d, Backed(m, d), Exact(m, d), NEW ds \in Image, Whole(m, d, ds),
           NEW due \in SUBSET Nat, \A n \in due : n <= Len(ds)
    PROVE  Firm(m, d, ds, due)
<1>1. PICK r : r = LoadAppendOnlyFiles(m, d)
  OBVIOUS
<1>2. r = Loaded(Live(m), d, m.base, m.incr_seq)
  BY <1>1, LoadsAsFold, LoadOrderIs DEF Loaded, Backed
<1>3. r.ret = "OK" /\ r.ds = ds
  BY <1>2 DEF Whole
<1>4. Begins(r.ds, ds)
  BY <1>3, BeginsFacts DEF Image
<1> QED BY <1>1, <1>3, <1>4, FirmExact

\* The step leaves the data of the files that a start would load.
SameLive ==
    /\ Live(disk_manifest') = Live(disk_manifest)
    /\ \A f \in Live(disk_manifest) :
            disk'[f].data = disk[f].data /\ disk[f].synced <= disk'[f].synced

\* No new debt.
Covers == \A n \in Owed' : \E j \in Owed : n <= j

\* Such a step keeps what is owed.
LEMMA KeptStays ==
    ASSUME LogInv, LogInv', Kept, pc' # "down", SameLive, Begins(logged, logged'), Covers
    PROVE  Kept'
<1>1. PICK m, k, d, e, x, y, p, q :
          /\ m = disk_manifest /\ k = disk_manifest' /\ d = disk /\ e = disk'
          /\ x = logged /\ y = logged' /\ p = Owed /\ q = Owed'
  OBVIOUS
<1>2. Backed(m, d) /\ x \in Image /\ p \in SUBSET Nat /\ Firm(m, d, x, p)
  BY <1>1, Typed DEF Kept, Owed
<1>3. Backed(k, e) /\ y \in Image /\ q \in SUBSET Nat
  <2>1. (Backed(disk_manifest, disk) /\ logged \in Image)'
    BY Typed, PTL
  <2>2. Owed' \in SUBSET Nat
    BY DEF Owed
  <2> QED BY <1>1, <2>1, <2>2
<1>4. /\ Live(k) = Live(m) /\ Begins(x, y) /\ \A n \in q : \E j \in p : n <= j
      /\ \A f \in Live(m) : e[f].data = d[f].data /\ d[f].synced <= e[f].synced
  BY <1>1 DEF SameLive, Covers
<1>5. Firm(k, e, y, q)
  BY <1>2, <1>3, <1>4, FirmSame
<1> QED BY <1>1, <1>5 DEF Kept

\* Files that hold the log keep all that can be owed.
LEMMA KeptWhole ==
    ASSUME LogInv', pc' # "down", Exact(disk_manifest', disk'),
           Whole(disk_manifest', disk', logged'), Books', Told', promised' <= Len(logged')
    PROVE  Kept'
<1>1. PICK k, e, y, q : k = disk_manifest' /\ e = disk' /\ y = logged' /\ q = Owed'
  OBVIOUS
<1>2. Backed(k, e) /\ y \in Image
  <2>1. (Backed(disk_manifest, disk) /\ logged \in Image)'
    BY Typed, PTL
  <2> QED BY <1>1, <2>1
<1>3. ASSUME NEW n \in q PROVE n \in Nat /\ n <= Len(y)
  <2>1. n \in Nat /\ Owes(n)'
    BY <1>1, <1>3 DEF Owed
  <2>2. Len(y) \in Nat
    BY <1>2 DEF Image
  <2>3. CASE n = promised'
    BY <1>1, <2>1, <2>3
  <2>4. CASE server'.aof_state = "ON" /\ n = uncounted' + server'.fsynced_reploff_pending
    BY <1>1, <2>1, <2>4 DEF Books, Told
  <2>5. CASE n = Len(logged')
    BY <1>1, <2>2, <2>5
  <2> QED BY <2>1, <2>3, <2>4, <2>5 DEF Owes
<1>4. Firm(k, e, y, q)
  <2>1. q \in SUBSET Nat /\ \A n \in q : n <= Len(y)
    BY <1>3
  <2> QED BY <1>1, <1>2, <2>1, WholeFirm
<1> QED BY <1>1, <1>4 DEF Kept

\* A server that appends, has nothing to append, and uses the files on disk.
LEMMA WholeNow ==
    ASSUME LogInv, Ready, server.aof_buf = <<>>, Live(aof_manifest) = Live(disk_manifest),
           logged = dataset
    PROVE  Whole(disk_manifest, disk, logged)
<1>1. PICK m, k, d, ds, sel : /\ m = aof_manifest /\ k = disk_manifest /\ d = disk /\ ds = dataset
                              /\ sel = server.aof_selected_db
  OBVIOUS
<1>2. WellFormed(m) /\ WellFormed(k) /\ DiskOK(d) /\ Live(k) \subseteq DOMAIN d
  BY <1>1, Typed DEF Backed
<1>3. Ends(m, d, <<>>, ds, sel)
  BY <1>1, Typed DEF Complete
<1>4. Live(m) \subseteq DOMAIN d /\ Live(k) = Live(m)
  BY <1>1, <1>2
<1>5. Whole(m, d, ds)
  BY <1>2, <1>3, <1>4, EndsWhole
<1>6. k.base = m.base /\ k.incr_seq = m.incr_seq
  BY <1>2, <1>4, SameNumbers
<1>7. Whole(k, d, ds)
  BY <1>2, <1>4, <1>5, <1>6, WholeSame
<1> QED BY <1>1, <1>7

\* What was promised is logged.
LEMMA PromisedLogged ==
    ASSUME LogInv, Kept
    PROVE  promised <= Len(logged)
<1>1. PICK m, d, x, p : m = disk_manifest /\ d = disk /\ x = logged /\ p = Owed
  OBVIOUS
<1>2. Backed(m, d) /\ x \in Image /\ p \in SUBSET Nat /\ Firm(m, d, x, p) /\ promised \in p
  BY <1>1, Typed DEF Kept, Owed, Owes
<1> QED BY <1>1, <1>2, FirmHolds

-----------------------------------------------------------------------------
(* Steps that touch no file.                                               *)

Rest == Told /\ Books /\ Flushed /\ Kept

\* The step writes nothing to disk, and no offset.
Idles ==
    /\ UNCHANGED <<disk, disk_manifest, logged, dataset, uncounted>>
    /\ server'.aof_buf = server.aof_buf
    /\ server'.aof_last_incr_size = server.aof_last_incr_size
    /\ server'.aof_last_incr_fsync_offset = server.aof_last_incr_fsync_offset
    /\ server'.fsynced_reploff_pending = server.fsynced_reploff_pending
    /\ server'.aof_fd.file = server.aof_fd.file
    /\ server'.aof_state = "ON" => server.aof_state = "ON"

\* No answer is sent that was not due.
Unpaid == /\ promised' \in Owed
          /\ pc' = "reply" /\ server'.aof_state = "ON" => AofFsync # "always"
          /\ Adopted' => Adopted /\ promised' = promised
          /\ pc' # "down"

\* Where the debt does not grow.
LEMMA OwedLess ==
    ASSUME server'.aof_state = "ON" =>
              /\ server.aof_state = "ON" /\ uncounted' = uncounted
              /\ server'.fsynced_reploff_pending \in {server.fsynced_reploff_pending, 0},
           Unpaid
    PROVE  Owed' \subseteq Owed
<1> SUFFICES ASSUME NEW n \in Nat, Owes(n)' PROVE n \in Owed
  BY DEF Owed
<1>1. CASE n = promised'
  BY <1>1 DEF Unpaid
<1>2. CASE /\ AofFsync # "always" /\ server'.aof_state = "ON"
           /\ server'.fsynced_reploff_pending > 0
           /\ n = uncounted' + server'.fsynced_reploff_pending
  BY <1>2 DEF Owed, Owes
<1>3. CASE AofFsync = "always" /\ pc' = "reply" /\ server'.aof_state = "ON"
  BY <1>3 DEF Unpaid
<1> QED BY <1>1, <1>2, <1>3 DEF Owes

\* The debt is a set of numbers.
LEMMA Cover ==
    ASSUME Owed' \subseteq Owed
    PROVE  Covers
<1>1. Owed \subseteq Nat
  BY DEF Owed
<1>2. \A n \in Nat : n <= n
  OBVIOUS
<1> QED BY <1>1, <1>2 DEF Covers

\* A step that touches nothing.
LEMMA SameLiveSame ==
    ASSUME LogInv, UNCHANGED <<disk, disk_manifest>>
    PROVE  SameLive
<1>1. \A f \in Live(disk_manifest) : disk[f].synced \in Nat
  BY Typed DEF Backed, DiskOK, ContentOK
<1> QED BY <1>1 DEF SameLive

\* Such a step keeps the invariant.
LEMMA IdlesRest ==
    ASSUME LogInv, Rest, LogInv', Idles, Unpaid, Ready' => Ready
    PROVE  Rest'
<1>1. Told'
  BY DEF Rest, Told, Idles, Unpaid
<1>2. Books'
  BY DEF Rest, Books, Idles
<1>3. Flushed'
  <2>1. MasterReplOffset' = MasterReplOffset
    BY DEF Idles, MasterReplOffset
  <2> QED BY <2>1 DEF Rest, Flushed, Idles
<1>4. Kept'
  <2>1. Covers
    BY OwedLess, Cover DEF Idles
  <2>2. SameLive
    BY SameLiveSame DEF Idles
  <2>3. Begins(logged, logged')
    BY Typed, BeginsFacts DEF Idles, Image
  <2> QED BY <2>1, <2>2, <2>3, KeptStays DEF Rest, Unpaid
<1> QED BY <1>1, <1>2, <1>3, <1>4 DEF Rest

\* What was promised is owed.
LEMMA PromisedOwed ==
    ASSUME LogInv
    PROVE  promised \in Owed
  BY Typed DEF Owed, Owes

\* Commands and the event loop, but for Execute.
LEMMA LoopIdles ==
    ASSUME LogInv, Rest, LogInv',
           \/ BeforeSleep \/ CronFlush \/ CronRewrite \/ StartAppendOnly \/ StartAppendOnlyInExec
           \/ StopAppendOnly \/ BgRewriteAof \/ BgRewriteAofInExec \/ Shutdown
    PROVE  Rest'
<1>1. server \in ServerState /\ promised \in Owed
  BY Typed, PromisedOwed
<1>2. /\ UNCHANGED <<disk, disk_manifest, logged, dataset, uncounted, promised>>
      /\ pc = "idle" /\ pc' \in {"idle", "flush", "reply", "start_open", "exit"}
      /\ pc' = "reply" => server.aof_state = "OFF"
  BY DEF BeforeSleep, CronFlush, CronRewrite, StartAppendOnly,
     StartAppendOnlyInExec, StopAppendOnly, BgRewriteAof, BgRewriteAofInExec, Shutdown,
     RewriteBackground, Goto, Call, memory, fs, observed, control
<1>3. \/ server' = server
      \/ server' = [server EXCEPT !.aof_selected_db = -1]
      \/ server' = [server EXCEPT !.aof_rewrite_scheduled = TRUE]
      \/ server' = [server EXCEPT !.aof_state = "WAIT_REWRITE", !.aof_selected_db = -1]
      \/ server' = [server EXCEPT !.aof_state = "WAIT_REWRITE",
                                  !.aof_rewrite_scheduled = TRUE,
                                  !.aof_bio_fsync_status = "OK",
                                  !.aof_last_write_status = "OK"]
  BY DEF BeforeSleep, CronFlush, CronRewrite, StartAppendOnly,
     StartAppendOnlyInExec, StopAppendOnly, BgRewriteAof, BgRewriteAofInExec, Shutdown,
     RewriteBackground
<1>4. /\ server'.aof_buf = server.aof_buf
      /\ server'.aof_last_incr_size = server.aof_last_incr_size
      /\ server'.aof_last_incr_fsync_offset = server.aof_last_incr_fsync_offset
      /\ server'.fsynced_reploff_pending = server.fsynced_reploff_pending
      /\ server'.aof_fd = server.aof_fd
      /\ server'.aof_state \in {server.aof_state, "WAIT_REWRITE"}
  BY <1>1, <1>3 DEF ServerState
<1>5. Idles
  BY <1>2, <1>4 DEF Idles
<1>6. Unpaid
  BY <1>1, <1>2, <1>4 DEF Unpaid, Adopted, At, Persisting
<1>7. Ready' => Ready
  BY <1>2, <1>4 DEF Ready, At, Persisting
<1> QED BY <1>5, <1>6, <1>7, IdlesRest

\* The pending replies are sent.
LEMMA ReplyRest ==
    ASSUME LogInv, Rest, LogInv', Reply
    PROVE  Rest'
<1>1. /\ server \in ServerState /\ promised \in Owed /\ server.fsynced_reploff_pending \in Nat
      /\ uncounted \in Nat /\ Len(logged) \in Nat
  BY Typed, PromisedOwed
<1>2. /\ UNCHANGED <<disk, disk_manifest, logged, dataset, uncounted>>
      /\ pc = "reply" /\ pc' = "idle"
  BY DEF Reply, Goto, memory, fs
<1>3. server' = server \/ \E x : server' = [server EXCEPT !.fsynced_reploff = x]
  BY DEF Reply
<1>4. /\ server'.aof_buf = server.aof_buf
      /\ server'.aof_last_incr_size = server.aof_last_incr_size
      /\ server'.aof_last_incr_fsync_offset = server.aof_last_incr_fsync_offset
      /\ server'.fsynced_reploff_pending = server.fsynced_reploff_pending
      /\ server'.aof_fd = server.aof_fd
      /\ server'.aof_state = server.aof_state
  BY <1>1, <1>3 DEF ServerState
<1>5. promised' \in Owed
  <2>1. CASE promised' = promised
    BY <1>1, <2>1
  <2>2. CASE promised' # promised
    <3>1. PICK x : /\ x = (IF server.fsynced_reploff = -1 THEN -1 ELSE server.fsynced_reploff_pending)
                   /\ server.aof_state = "ON" /\ promised' = Reported(x) /\ Reported(x) > promised
      BY <2>2 DEF Reply
    <3>2. promised \in Nat
      BY Typed
    <3>3. CASE AofFsync = "always" /\ MasterReplOffset > 0
      <4>1. Reported(x) = Len(logged)
        BY <3>3 DEF Reported
      <4> QED BY <1>1, <1>2, <3>1, <3>3, <4>1 DEF Owed, Owes
    <3>4. CASE AofFsync # "always" /\ x > 0
      <4>1. Reported(x) = uncounted + x
        BY <3>4 DEF Reported
      <4>2. x = server.fsynced_reploff_pending
        BY <3>1, <3>4
      <4> QED BY <1>1, <3>1, <3>4, <4>1, <4>2 DEF Owed, Owes
    <3>5. CASE ~(AofFsync = "always" /\ MasterReplOffset > 0) /\ ~(AofFsync # "always" /\ x > 0)
      <4>1. Reported(x) = 0
        BY <3>5 DEF Reported
      <4> QED BY <3>1, <3>2, <4>1
    <3> QED BY <3>3, <3>4, <3>5
  <2> QED BY <2>1, <2>2
<1>6. Idles
  BY <1>2, <1>4 DEF Idles
<1>7. Unpaid
  BY <1>2, <1>5 DEF Unpaid, Adopted, At, Persisting
<1>8. Ready' => Ready
  BY <1>2, <1>4 DEF Ready, At, Persisting
<1> QED BY <1>6, <1>7, <1>8, IdlesRest

\* Manifests written or not, failed starts and the like.
LEMMA ControlIdles ==
    ASSUME LogInv, Rest, LogInv', "dirfsync" \notin MayFail,
           \/ RewriteOff \/ RewriteOpenError \/ StartOpenError \/ StartError
           \/ PersistClean \/ PersistSynced \/ PersistError \/ UnlinkDone
           \/ BootError \/ BootDelHistory
    PROVE  Rest'
<1>1. /\ server \in ServerState /\ promised \in Owed
      /\ pc \in {"persist", "dirfsync"} => cont \in {"start", "rw", "boot", "del_start", "del_boot"}
      /\ pc = "unlink" => cont \in {"start_failed", "del_start", "del_boot"}
      /\ Prepared /\ Starting
  BY Typed, PromisedOwed DEF Inv
<1>2. /\ UNCHANGED <<disk, disk_manifest, logged, dataset, uncounted, promised>>
  BY DEF RewriteOff, RewriteOpenError, StartOpenError, StartError,
     PersistClean, PersistSynced, PersistError, UnlinkDone, BootError, BootDelHistory,
     memory, fs, observed
<1>3. server' = server \/ server' = [server EXCEPT !.aof_state = "OFF"]
  BY DEF RewriteOff, RewriteOpenError, StartOpenError, StartError,
     PersistClean, PersistSynced, PersistError, UnlinkDone, BootError, BootDelHistory
<1>4. /\ server'.aof_buf = server.aof_buf
      /\ server'.aof_last_incr_size = server.aof_last_incr_size
      /\ server'.aof_last_incr_fsync_offset = server.aof_last_incr_fsync_offset
      /\ server'.fsynced_reploff_pending = server.fsynced_reploff_pending
      /\ server'.aof_fd = server.aof_fd
      /\ server'.aof_state \in {server.aof_state, "OFF"}
  BY <1>1, <1>3 DEF ServerState
<1>5. pc' \notin {"down", "reply"} /\ (Adopted' => Adopted) /\ (Ready' => Ready)
  <2>1. CASE RewriteOff \/ RewriteOpenError \/ StartOpenError \/ StartError \/ BootError \/ BootDelHistory
    <3>1. /\ \/ pc' \in {"idle", "exit"} /\ (pc' = "idle" => pc \in {"rw_open", "start_open", "del_boot"})
             \/ pc' = "unlink" /\ cont' = "start_failed" /\ server'.aof_state = "OFF"
             \/ pc' = "unlink" /\ cont' = "del_boot" /\ pc = "del_boot"
      BY <1>1, <2>1 DEF RewriteOff, RewriteOpenError, StartOpenError, StartError, BootError, BootDelHistory,
          Goto, UnlinkThen, ServerState
    <3> QED BY <1>4, <3>1 DEF Adopted, Ready, At, Persisting
  <2>2. CASE UnlinkDone
    <3>1. /\ pc = "unlink" /\ cont' = cont /\ pc' \in {"idle", "persist"} /\ server' = server
          /\ pc' = "idle" <=> cont = "start_failed"
      BY <2>2 DEF UnlinkDone, Goto
    <3> QED BY <1>1, <3>1 DEF Adopted, Ready, At, Persisting
  <2>3. CASE PersistClean
    <3>1. /\ pc = "persist" /\ cont' = cont /\ pc' = AfterPersist[cont] /\ ~PersistTarget.dirty /\ server' = server
      BY <2>3 DEF PersistClean, Goto
    <3>2. cont \in {"boot", "del_start", "del_boot"}
      BY <1>1, <3>1 DEF Prepared, At, PersistTarget
    <3> QED BY <3>1, <3>2 DEF Adopted, Ready, At, Persisting, AfterPersist
  <2>4. CASE PersistSynced
    <3>1. /\ pc = "dirfsync" /\ cont' = cont /\ pc' = AfterPersist[cont] /\ server' = server
      BY <2>4 DEF PersistSynced, Goto
    <3> QED BY <1>1, <3>1 DEF Adopted, Ready, At, Persisting, AfterPersist
  <2>5. CASE PersistError
    <3>1. /\ pc = "persist" /\ cont' = cont /\ pc' = AfterPersistError[cont] /\ server' = server
      BY <2>5 DEF PersistError, Goto, Fault
    <3> QED BY <1>1, <3>1 DEF Adopted, Ready, At, Persisting, AfterPersistError
  <2> QED BY <2>1, <2>2, <2>3, <2>4, <2>5
<1>6. Idles
  BY <1>2, <1>4 DEF Idles
<1>7. Unpaid
  BY <1>1, <1>2, <1>5 DEF Unpaid
<1> QED BY <1>5, <1>6, <1>7, IdlesRest

-----------------------------------------------------------------------------
(* Writes and flushes.                                                     *)

\* A client executes a write.
LEMMA ExecuteRest ==
    ASSUME LogInv, Rest, LogInv', NEW d \in Db, Execute(d)
    PROVE  Rest'
<1>1. /\ server \in ServerState /\ promised \in Owed /\ dataset \in Image /\ logged \in Image
      /\ uncounted \in Nat /\ Len(dataset) \in Nat /\ server.fsynced_reploff_pending \in Nat
      /\ server.aof_buf \in Seq(Token)
  BY Typed, PromisedOwed
<1>2. PICK w : /\ w = [id |-> bounds.writes + 1, db |-> d]
               /\ dataset' = Append(dataset, w) /\ server' = Feed(w)
               /\ logged' = IF server.aof_state = "ON" THEN Append(logged, w) ELSE logged
  BY DEF Execute
<1>3. /\ pc = "idle" /\ pc' = "idle" /\ UNCHANGED <<disk, disk_manifest, promised>>
      /\ uncounted' = IF server.aof_state = "OFF" THEN uncounted + 1 ELSE uncounted
  BY DEF Execute, control, fs
<1>4. PICK b, s : /\ b = server.aof_buf \o Entry(w, server.aof_selected_db)
                  /\ s = (IF server.aof_state = "OFF" THEN server.aof_selected_db ELSE w.db)
  OBVIOUS
<1>5. /\ server'.aof_buf = (IF server.aof_state = "ON" THEN b ELSE server.aof_buf)
      /\ server'.aof_last_incr_size = server.aof_last_incr_size
      /\ server'.aof_last_incr_fsync_offset = server.aof_last_incr_fsync_offset
      /\ server'.fsynced_reploff_pending = server.fsynced_reploff_pending
      /\ server'.aof_fd = server.aof_fd
      /\ server'.aof_state = server.aof_state
  BY <1>1, <1>2, <1>4 DEF Feed, ServerState
<1>6. ~Adopted' /\ (Ready' => server.aof_state = "ON")
  BY <1>3, <1>5 DEF Adopted, Ready, At, Persisting
<1>7. Told'
  BY <1>2, <1>5, <1>6 DEF Rest, Told
<1>8. Len(dataset') = Len(dataset) + 1
  BY <1>1, <1>2 DEF Image
<1>9. Books'
  BY <1>1, <1>3, <1>5, <1>8 DEF Rest, Books
<1>10. Flushed'
  <2>1. ASSUME server.aof_state = "ON" PROVE server'.aof_buf # <<>>
    <3>1. PICK e : e = Entry(w, server.aof_selected_db)
      OBVIOUS
    <3>2. PICK n, i : n = bounds.writes /\ i = w.id
      OBVIOUS
    <3>3. e = (IF w.db = server.aof_selected_db THEN <<>> ELSE <<Sel(w.db)>>) \o <<CmdHead(i), CmdTail(i)>>
      BY <3>1, <3>2 DEF Entry
    <3>4. PICK x, y, z : x = Sel(w.db) /\ y = CmdHead(i) /\ z = CmdTail(i)
      OBVIOUS
    <3>5. e = <<>> \o <<y, z>> \/ e = <<x>> \o <<y, z>>
      BY <3>3, <3>4
    <3>6. e = <<y, z>> \/ e = <<x, y, z>>
      BY <3>5
    <3>7. PICK c : c = server.aof_buf
      OBVIOUS
    <3>8. c \in Seq(Token) /\ b = c \o e
      BY <1>1, <1>4, <3>1, <3>7
    <3>9. Len(c) \in Nat /\ Len(c \o e) = Len(c) + Len(e) /\ Len(e) \in {2, 3}
      BY <3>6, <3>8
    <3>10. b # <<>>
      BY <3>8, <3>9
    <3> QED BY <1>5, <2>1, <3>10
  <2> QED BY <1>6, <2>1 DEF Flushed
<1>11. Kept'
  <2>1. Unpaid
    BY <1>1, <1>3, <1>6 DEF Unpaid
  <2>2. Covers
    BY <1>3, <1>5, <2>1, OwedLess, Cover
  <2>3. SameLive
    BY <1>3, SameLiveSame
  <2>4. Begins(logged, logged')
    <3>1. (logged \in Image)'
      BY Typed, PTL
    <3>2. CASE server.aof_state = "ON"
      BY <1>1, <1>2, <3>1, <3>2 DEF Begins, Image
    <3>3. CASE server.aof_state # "ON"
      BY <1>1, <1>2, <3>3, BeginsFacts DEF Image
    <3> QED BY <3>2, <3>3
  <2> QED BY <1>3, <2>2, <2>3, <2>4, KeptStays DEF Rest
<1> QED BY <1>7, <1>9, <1>10, <1>11 DEF Rest

\* Nothing is left to write or to sync.
Settled ==
    /\ Ready /\ server.aof_state = "ON" /\ server.aof_buf = <<>> /\ pc # "down"
    /\ Live(aof_manifest) = Live(disk_manifest) /\ promised <= Len(logged)
    /\ "power" \in MayFail =>
            disk[server.aof_fd.file].synced = Len(disk[server.aof_fd.file].data)

\* Then the whole log is durable.
LEMMA SettledKept ==
    ASSUME LogInv, Alone, PowerSafe, Told, Books, Settled
    PROVE  Kept
<1>1. PICK k, e, y, q : k = disk_manifest /\ e = disk /\ y = logged /\ q = Owed
  OBVIOUS
<1>2. Backed(k, e) /\ y \in Image /\ Plain(e) /\ Sole(k)
  BY <1>1, Typed, SoleFiles
<1>3. Whole(k, e, y)
  BY <1>1, WholeNow DEF Settled, Told
<1>4. ASSUME NEW n \in q PROVE n \in Nat /\ n <= Len(y)
  <2>1. n \in Nat /\ Owes(n)
    BY <1>1, <1>4 DEF Owed
  <2>2. Len(y) \in Nat
    BY <1>2 DEF Image
  <2>3. CASE n = promised
    BY <1>1, <2>1, <2>3 DEF Settled
  <2>4. CASE server.aof_state = "ON" /\ n = uncounted + server.fsynced_reploff_pending
    BY <1>1, <2>1, <2>4 DEF Books, Told
  <2>5. CASE n = Len(logged)
    BY <1>1, <2>2, <2>5
  <2> QED BY <2>1, <2>3, <2>4, <2>5 DEF Owes
<1>5. Exact(k, e)
  <2>1. CASE "power" \notin MayFail
    BY <1>2, <2>1, KillExact
  <2>2. CASE "power" \in MayFail
    <3>1. PICK f : f = server.aof_fd.file
      OBVIOUS
    <3>2. f = Incr(aof_manifest.incr_seq) /\ e[f].synced = Len(e[f].data) /\ f \in Live(aof_manifest)
      BY <1>1, <2>2, <3>1, ReadyFile, Typed DEF Settled
    <3>3. k.incr_seq = aof_manifest.incr_seq
      BY <1>1, SameNumbers, Typed DEF Settled
    <3>4. Len(e[f].data) <= Least(e[f])
      <4>1. Len(e[f].data) \in Nat
        BY <1>1, <1>2, <3>2 DEF Settled, Backed, DiskOK, ContentOK
      <4> QED BY <2>2, <3>2, <4>1 DEF Least
    <3> QED BY <1>2, <3>2, <3>3, <3>4, LastExact
  <2> QED BY <2>1, <2>2
<1>6. Firm(k, e, y, q)
  <2>1. q \in SUBSET Nat /\ \A n \in q : n <= Len(y)
    BY <1>4
  <2> QED BY <1>2, <1>3, <1>5, <2>1, WholeFirm
<1> QED BY <1>1, <1>6 DEF Kept, Settled

\* The same after a step.
LEMMA SettledNext ==
    ASSUME LogInv', Alone', PowerSafe, Told', Books', Settled'
    PROVE  Kept'
<1>1. PowerSafe'
  BY DEF PowerSafe, NoRewrite
<1> QED BY <1>1, SettledKept, PTL

\* fsync of the file in use.
LEMMA FsyncLive ==
    ASSUME LogInv, disk' \in {disk, FsyncFd(disk)}, disk_manifest' = disk_manifest
    PROVE  SameLive
<1>1. DiskOK(disk) /\ Live(disk_manifest) \subseteq DOMAIN disk
  BY Typed DEF Backed
<1>2. ASSUME NEW f \in Live(disk_manifest), disk' = FsyncFd(disk)
      PROVE  disk'[f].data = disk[f].data /\ disk[f].synced <= disk'[f].synced
  <2>1. PICK c : c = disk[f] /\ ContentOK(c)
    BY <1>1 DEF DiskOK
  <2>2. disk'[f] = c \/ disk'[f] = Synced(c)
    BY <1>1, <1>2, <2>1 DEF FsyncFd
  <2>3. Synced(c).data = c.data /\ Synced(c).synced = Len(c.data) /\ c.synced <= Len(c.data) /\ c.synced \in Nat
    BY <2>1 DEF Synced, ContentOK
  <2> QED BY <2>1, <2>2, <2>3
<1>3. CASE disk' = disk
  BY <1>3, SameLiveSame
<1>4. CASE disk' = FsyncFd(disk)
  BY <1>2, <1>4 DEF SameLive
<1> QED BY <1>3, <1>4

\* The control part of flushAppendOnlyFile.
LEMMA FlushControl ==
    ASSUME LogInv, Flush
    PROVE  /\ pc \in {"flush", "fsync"} /\ cont' = cont /\ cont \in FlushReturn
           /\ pc' \in {"fsync", "exit", cont} /\ pc' # "down" /\ ~Adopted'
           /\ UNCHANGED <<aof_manifest, temp_am, dataset, uncounted, disk_manifest, logged, promised>>
           /\ Live(aof_manifest) = Live(disk_manifest)
           /\ Ready <=> server.aof_state = "ON"
           /\ MasterReplOffset' = MasterReplOffset
<1>1. /\ pc \in {"flush", "fsync"} /\ cont' = cont
      /\ pc' \in {"fsync", "exit", cont}
      /\ UNCHANGED <<aof_manifest, temp_am, dataset, uncounted, disk_manifest, logged, promised>>
  BY DEF Flush, FlushEmpty, FlushWrite, FlushError, FlushShort, FlushFsync,
       FlushFsyncError, WriteError, Goto, memory, fs, observed
<1>2. cont \in FlushReturn
  BY <1>1, Typed
<1>3. pc' \in {"fsync", "exit", "reply", "idle", "rw_open", "stop", "shutdown"}
  BY <1>1, <1>2 DEF FlushReturn
<1>4. pc' # "down" /\ ~Adopted'
  BY <1>3 DEF Adopted, At, Persisting
<1>5. Live(aof_manifest) = Live(disk_manifest)
  BY <1>1, Typed DEF Agreement, Committed, At
<1>6. Ready <=> server.aof_state = "ON"
  BY <1>1 DEF Ready, At, Persisting
<1> QED BY <1>1, <1>2, <1>4, <1>5, <1>6 DEF MasterReplOffset

\* With nothing to write.
LEMMA FlushEmptyRest ==
    ASSUME LogInv, Rest, Alone, PowerSafe, LogInv', Alone', NEW due \in BOOLEAN, FlushEmpty(due)
    PROVE  Rest'
<1>1. /\ server \in ServerState /\ promised \in Owed /\ uncounted + MasterReplOffset = Len(dataset)
      /\ Len(dataset) \in Nat /\ MasterReplOffset \in Nat
  BY Typed, PromisedOwed
<1>2. Flush
  BY DEF Flush
<1>3. /\ cont \in FlushReturn /\ cont' = cont /\ pc' # "down" /\ ~Adopted'
      /\ UNCHANGED <<aof_manifest, temp_am, dataset, uncounted, disk_manifest, logged, promised, disk>>
      /\ Live(aof_manifest) = Live(disk_manifest)
      /\ Ready <=> server.aof_state = "ON"
      /\ MasterReplOffset' = MasterReplOffset
      /\ pc = "flush" /\ server.aof_buf = <<>>
  BY <1>2, FlushControl DEF FlushEmpty, fs
<1>4. Ready' => pc' # "exit" /\ server'.aof_state = "ON"
  BY <1>3 DEF Ready, Adopted, At, Persisting
<1>5. CASE server.aof_last_incr_fsync_offset # server.aof_last_incr_size
  <2>1. server' = server /\ pc' = IF NeedFsync(due) THEN "fsync" ELSE cont
    BY <1>5 DEF FlushEmpty, Goto
  <2>2. pc' = "reply" => AofFsync # "always"
    BY <2>1 DEF NeedFsync
  <2>3. Idles
    BY <1>3, <2>1 DEF Idles
  <2>4. Unpaid
    BY <1>1, <1>3, <2>2 DEF Unpaid
  <2> QED BY <1>3, <1>4, <2>1, <2>3, <2>4, IdlesRest
<1>6. CASE server.aof_last_incr_fsync_offset = server.aof_last_incr_size
  <2>1. /\ server' = [server EXCEPT !.fsynced_reploff_pending = MasterReplOffset] /\ pc' = cont
    BY <1>6 DEF FlushEmpty, Goto
  <2>2. /\ server'.aof_buf = server.aof_buf
        /\ server'.aof_last_incr_size = server.aof_last_incr_size
        /\ server'.aof_last_incr_fsync_offset = server.aof_last_incr_fsync_offset
        /\ server'.fsynced_reploff_pending = MasterReplOffset
        /\ server'.aof_fd = server.aof_fd /\ server'.aof_state = server.aof_state
    BY <1>1, <2>1 DEF ServerState
  <2>3. Told' /\ Books'
    BY <1>1, <1>3, <2>2 DEF Rest, Told, Books
  <2>4. Flushed'
    BY <1>3, <1>4, <2>2 DEF Rest, Flushed
  <2>5. CASE server.aof_state = "ON" /\ MasterReplOffset > 0
    <3>1. Ready'
      BY <1>3, <2>1, <2>2, <2>5 DEF Ready, FlushReturn
    <3>2. promised <= Len(logged)
      BY PromisedLogged DEF Rest
    <3>3. Settled'
      BY <1>3, <1>6, <2>2, <2>5, <3>1, <3>2 DEF Settled, Rest, Flushed
    <3> QED BY <2>3, <2>4, <3>3, SettledNext DEF Rest
  <2>6. CASE ~(server.aof_state = "ON" /\ MasterReplOffset > 0)
    <3>1. Owed' \subseteq Owed
      <4>1. \A n \in Nat : Owes(n)' => n = promised
        BY <1>1, <1>3, <2>2, <2>6 DEF Owes
      <4> QED BY <1>1, <4>1 DEF Owed
    <3>2. Covers /\ SameLive
      BY <1>3, <3>1, Cover, SameLiveSame
    <3>3. Begins(logged, logged')
      BY <1>3, Typed, BeginsFacts DEF Image
    <3>4. Kept'
      BY <1>3, <3>2, <3>3, KeptStays DEF Rest
    <3> QED BY <2>3, <2>4, <3>4 DEF Rest
  <2> QED BY <2>5, <2>6
<1> QED BY <1>5, <1>6

\* fsync of the file in use.
LEMMA FlushFsyncRest ==
    ASSUME LogInv, Rest, Alone, PowerSafe, LogInv', Alone', FlushFsync
    PROVE  Rest'
<1>1. /\ server \in ServerState /\ promised \in Owed /\ uncounted + MasterReplOffset = Len(dataset)
      /\ Len(dataset) \in Nat /\ MasterReplOffset \in Nat /\ server.aof_last_incr_size \in Nat
      /\ DiskOK(disk) /\ CoverInv /\ Switched
  BY Typed, PromisedOwed
<1>2. Flush
  BY DEF Flush
<1>3. /\ cont \in FlushReturn /\ cont' = cont /\ pc' # "down" /\ ~Adopted'
      /\ UNCHANGED <<aof_manifest, temp_am, dataset, uncounted, disk_manifest, logged, promised>>
      /\ Live(aof_manifest) = Live(disk_manifest)
      /\ Ready <=> server.aof_state = "ON"
      /\ MasterReplOffset' = MasterReplOffset
      /\ pc = "fsync" /\ pc' = cont /\ disk' = FsyncFd(disk)
  BY <1>2, FlushControl DEF FlushFsync, Goto
<1>4. server.aof_buf = <<>>
  BY <1>1, <1>3 DEF Switched
<1>5. /\ server'.aof_buf = <<>>
      /\ server'.aof_last_incr_size = server.aof_last_incr_size
      /\ server'.aof_last_incr_fsync_offset = server.aof_last_incr_size
      /\ server'.fsynced_reploff_pending = MasterReplOffset
      /\ server'.aof_fd = server.aof_fd /\ server'.aof_state = server.aof_state
  BY <1>1, <1>4 DEF ServerState, FlushFsync
<1>6. Ready' => server.aof_state = "ON"
  BY <1>3, <1>5 DEF Ready, Adopted, At, Persisting
<1>7. Told' /\ Books'
  BY <1>1, <1>3, <1>5, <1>6 DEF Rest, Told, Books
<1>8. ASSUME server.aof_state = "ON"
      PROVE  disk'[server.aof_fd.file].synced = Len(disk'[server.aof_fd.file].data)
  <2>1. PICK f : f = server.aof_fd.file
    OBVIOUS
  <2>2. f \in DOMAIN disk /\ ContentOK(disk[f])
    BY <1>1, <1>3, <1>8, <2>1, ReadyFile DEF DiskOK
  <2>3. disk'[f] = Synced(disk[f])
    BY <1>3, <2>1, <2>2 DEF FsyncFd
  <2>4. Synced(disk[f]).synced = Len(Synced(disk[f]).data)
    BY <2>2 DEF Synced, ContentOK
  <2> QED BY <2>1, <2>3, <2>4
<1>9. Flushed'
  BY <1>5, <1>6, <1>8 DEF Flushed
<1>10. CASE server.aof_state = "ON"
  <2>1. Ready'
    BY <1>3, <1>5, <1>10 DEF Ready, FlushReturn
  <2>2. promised <= Len(logged)
    BY PromisedLogged DEF Rest
  <2>3. Settled'
    BY <1>3, <1>5, <1>8, <1>10, <2>1, <2>2 DEF Settled
  <2> QED BY <1>7, <1>9, <2>3, SettledNext DEF Rest
<1>11. CASE server.aof_state # "ON"
  <2>1. Owed' \subseteq Owed
    <3>1. \A n \in Nat : Owes(n)' => n = promised
      BY <1>3, <1>5, <1>11 DEF Owes
    <3> QED BY <1>1, <3>1 DEF Owed
  <2>2. Covers /\ SameLive
    BY <1>3, <2>1, Cover, FsyncLive
  <2>3. Begins(logged, logged')
    BY <1>3, Typed, BeginsFacts DEF Image
  <2>4. Kept'
    BY <1>3, <2>2, <2>3, KeptStays DEF Rest
  <2> QED BY <1>7, <1>9, <2>4 DEF Rest
<1> QED BY <1>10, <1>11

\* Files and buffer of a server that appends.
LEMMA FullNow ==
    ASSUME LogInv, Ready, Live(aof_manifest) = Live(disk_manifest), logged = dataset
    PROVE  /\ Full(disk_manifest, disk, server.aof_buf, logged)
           /\ server.aof_fd.file = Incr(disk_manifest.incr_seq)
           /\ server.aof_fd.file \in Live(disk_manifest) /\ Live(disk_manifest) \subseteq DOMAIN disk
           /\ server.aof_last_incr_size = Len(disk[server.aof_fd.file].data) /\ server.aof_fd.gap = 0
<1>1. PICK m, k, d, ds, x, se : /\ m = aof_manifest /\ k = disk_manifest /\ d = disk /\ ds = dataset
                                /\ x = server.aof_buf /\ se = server.aof_selected_db
  OBVIOUS
<1>2. /\ WellFormed(m) /\ WellFormed(k) /\ Backed(k, d) /\ Live(k) = Live(m) /\ ds \in Image
      /\ x \in Seq(Token) /\ NoSnap(x) /\ Plain(d)
  BY <1>1, Typed DEF LogInv, PlainBuffer
<1>3. Ends(m, d, x, ds, se) /\ m.incr # {} /\ server.aof_fd.file = Incr(m.incr_seq)
  BY <1>1, Typed, ReadyFile DEF Complete
<1>4. k.base = m.base /\ k.incr = m.incr /\ k.incr_seq = m.incr_seq
  BY <1>2, SameNumbers
<1>5. Ends(k, d, x, ds, se)
  BY <1>2, <1>3, <1>4, EndsMove
<1>6. PICK f : f = Incr(k.incr_seq)
  OBVIOUS
<1>7. f \in Live(k) /\ f[1] = "incr"
  BY <1>2, <1>3, <1>4, <1>6, LastIsLate DEF Incr
<1>8. d[f].data \in Seq(Token) /\ NoSnap(d[f].data)
  BY <1>2, <1>7 DEF Backed, DiskOK, ContentOK, Plain, PlainFile
<1>9. NoSnap(d[f].data \o x)
  BY <1>2, <1>8, NoSnapParts
<1>10. Full(k, d, x, ds)
  BY <1>2, <1>3, <1>4, <1>5, <1>6, <1>9 DEF Full
<1>11. server.aof_last_incr_size = Len(disk[server.aof_fd.file].data) /\ server.aof_fd.gap = 0
  BY Typed DEF Complete
<1> QED BY <1>1, <1>2, <1>3, <1>4, <1>6, <1>7, <1>10, <1>11 DEF Backed

\* write(2) syncs nothing.
LEMMA WriteSynced ==
    ASSUME DiskOK(disk), NEW f \in DOMAIN disk, f = server.aof_fd.file, NEW toks
    PROVE  WriteFd(toks)[f].synced = disk[f].synced
<1>1. PICK x, c : x = disk[f].data \o [i \in 1 .. server.aof_fd.gap |-> Hole] \o toks /\ c = disk[f]
  OBVIOUS
<1>2. WriteFd(toks)[f] = [c EXCEPT !.data = x]
  BY <1>1 DEF WriteFd
<1>3. c \in [data : Seq(Token), synced : Nat]
  BY <1>1 DEF DiskOK, ContentOK
<1> QED BY <1>1, <1>2, <1>3

\* write(2) of some of the buffer keeps the files firm.
LEMMA KeptWrites ==
    ASSUME LogInv, LogInv', Kept, Alone, PowerSafe, AofLoadTruncated, Ready,
           Live(aof_manifest) = Live(disk_manifest), logged = dataset,
           UNCHANGED <<disk_manifest, logged>>, pc' # "down", Covers,
           NEW x \in Seq(Token), Begins(x, server.aof_buf), disk' = WriteFd(x)
    PROVE  Kept'
<1>1. PICK k, d, e, ds, buf, f, p, q :
          /\ k = disk_manifest /\ d = disk /\ e = disk' /\ ds = logged /\ buf = server.aof_buf
          /\ f = server.aof_fd.file /\ p = Owed /\ q = Owed'
  OBVIOUS
<1>2. /\ Full(k, d, buf, ds) /\ f = Incr(k.incr_seq) /\ f \in Live(k) /\ Live(k) \subseteq DOMAIN d
      /\ server.aof_fd.gap = 0
  BY <1>1, FullNow
<1>3. /\ Backed(k, d) /\ Plain(d) /\ Sole(k) /\ ds \in Image /\ DiskOK(d) /\ server \in ServerState
  BY <1>1, Typed, SoleFiles
<1>4. (Backed(disk_manifest, disk) /\ Plain(disk))'
  BY Typed, PTL
<1>5. Backed(k, e) /\ Plain(e)
  BY <1>1, <1>4
<1>6. p \in SUBSET Nat /\ q \in SUBSET Nat /\ \A n \in q : \E j \in p : n <= j
  BY <1>1 DEF Owed, Covers
<1>7. Firm(k, d, ds, q)
  <2>1. Firm(k, d, ds, p)
    BY <1>1 DEF Kept
  <2>2. Begins(ds, ds)
    BY <1>3, BeginsFacts DEF Image
  <2>3. \A g \in Live(k) : d[g].synced <= d[g].synced
    BY <1>3 DEF Backed, DiskOK, ContentOK
  <2> QED BY <1>3, <1>6, <2>1, <2>2, <2>3, FirmSame
<1>8. Writes(k, d, e, x)
  <2>1. /\ \A g \in DOMAIN disk : g # f => WriteFd(x)[g] = disk[g]
        /\ WriteFd(x)[f].synced = disk[f].synced
    BY <1>1, <1>2, <1>3, WriteFdType, WriteSynced
  <2>2. WriteFd(x)[f].data = disk[f].data \o x
    BY <1>1, <1>2, <1>3, WritesEnd
  <2> QED BY <1>1, <1>2, <2>1, <2>2 DEF Writes
<1>9. Firm(k, e, ds, q)
  BY <1>1, <1>2, <1>3, <1>5, <1>6, <1>7, <1>8, FirmWrites
<1> QED BY <1>1, <1>9 DEF Kept

\* The buffer is written.
LEMMA FlushWriteRest ==
    ASSUME LogInv, Rest, Alone, PowerSafe, AofLoadTruncated, LogInv', NEW due \in BOOLEAN, FlushWrite(due)
    PROVE  Rest'
<1>1. /\ server \in ServerState /\ promised \in Owed /\ Len(server.aof_buf) \in Nat
      /\ server.aof_last_incr_size \in Nat /\ server.aof_last_incr_fsync_offset \in Nat
      /\ server.aof_buf \in Seq(Token)
  BY Typed, PromisedOwed
<1>2. Flush
  BY DEF Flush
<1>3. /\ cont \in FlushReturn /\ cont' = cont /\ pc' # "down" /\ ~Adopted'
      /\ UNCHANGED <<aof_manifest, temp_am, dataset, uncounted, disk_manifest, logged, promised>>
      /\ Live(aof_manifest) = Live(disk_manifest)
      /\ Ready <=> server.aof_state = "ON"
      /\ pc = "flush" /\ pc' = (IF NeedFsync(due) THEN "fsync" ELSE cont)
      /\ server.aof_buf # <<>> /\ disk' = WriteFd(server.aof_buf)
  BY <1>2, FlushControl DEF FlushWrite, Goto
<1>4. /\ server'.aof_last_incr_size = server.aof_last_incr_size + Len(server.aof_buf)
      /\ server'.aof_last_incr_fsync_offset = server.aof_last_incr_fsync_offset
      /\ server'.fsynced_reploff_pending = server.fsynced_reploff_pending
      /\ server'.aof_state = server.aof_state
  BY <1>1 DEF ServerState, FlushWrite
<1>5. server.aof_state = "ON" /\ Ready
  BY <1>3, Typed, WritesLive
<1>6. Len(server.aof_buf) > 0
  BY <1>1, <1>3
<1>7. Told'
  BY <1>3, <1>4 DEF Rest, Told
<1>8. Books' /\ Flushed'
  BY <1>1, <1>3, <1>4, <1>6 DEF Rest, Books, Flushed
<1>9. Unpaid
  BY <1>1, <1>3 DEF Unpaid, NeedFsync
<1>10. Covers
  BY <1>3, <1>4, <1>9, OwedLess, Cover
<1>11. Begins(server.aof_buf, server.aof_buf)
  BY <1>1, BeginsFacts
<1>12. Kept'
  BY <1>1, <1>3, <1>5, <1>10, <1>11, KeptWrites DEF Rest, Told
<1> QED BY <1>7, <1>8, <1>12 DEF Rest

\* A write error.
LEMMA FlushErrorRest ==
    ASSUME LogInv, Rest, LogInv', FlushError
    PROVE  Rest'
<1>1. server \in ServerState /\ promised \in Owed
  BY Typed, PromisedOwed
<1>2. Flush
  BY DEF Flush
<1>3. /\ cont \in FlushReturn /\ cont' = cont /\ pc' # "down" /\ ~Adopted'
      /\ UNCHANGED <<aof_manifest, temp_am, dataset, uncounted, disk_manifest, logged, promised>>
      /\ Ready <=> server.aof_state = "ON"
      /\ disk' = disk /\ (pc' # "exit" => AofFsync # "always")
  BY <1>2, FlushControl DEF FlushError, WriteError, Goto, fs
<1>4. server' = server \/ server' = [server EXCEPT !.aof_last_write_status = "ERR"]
  BY DEF FlushError, WriteError
<1>5. /\ server'.aof_buf = server.aof_buf
      /\ server'.aof_last_incr_size = server.aof_last_incr_size
      /\ server'.aof_last_incr_fsync_offset = server.aof_last_incr_fsync_offset
      /\ server'.fsynced_reploff_pending = server.fsynced_reploff_pending
      /\ server'.aof_fd = server.aof_fd
      /\ server'.aof_state = server.aof_state
  BY <1>1, <1>4 DEF ServerState
<1>6. Idles
  BY <1>3, <1>5 DEF Idles
<1>7. Unpaid
  BY <1>1, <1>3 DEF Unpaid
<1>8. Ready' => Ready
  BY <1>3, <1>5 DEF Ready, Adopted
<1> QED BY <1>6, <1>7, <1>8, IdlesRest

\* An fsync error: fatal, or taken for a success.
LEMMA FlushFsyncErrorRest ==
    ASSUME LogInv, Rest, PowerSafe, LogInv', FlushFsyncError
    PROVE  Rest'
<1>1. server \in ServerState /\ promised \in Owed /\ server.aof_last_incr_size \in Nat
  BY Typed, PromisedOwed
<1>2. Flush
  BY DEF Flush
<1>3. /\ cont \in FlushReturn /\ cont' = cont /\ pc' # "down" /\ ~Adopted'
      /\ UNCHANGED <<aof_manifest, temp_am, dataset, uncounted, disk_manifest, logged, promised>>
      /\ Ready <=> server.aof_state = "ON"
      /\ disk' = disk /\ (pc' # "exit" => AofFsync # "always") /\ "fsync" \in MayFail
  BY <1>2, FlushControl DEF FlushFsyncError, Goto, fs, Fault
<1>4. CASE AofFsync = "always"
  <2>1. server' = server /\ pc' = "exit"
    BY <1>4 DEF FlushFsyncError, Goto
  <2>2. Idles /\ Unpaid /\ (Ready' => Ready)
    BY <1>1, <1>3, <2>1 DEF Idles, Unpaid, Ready, Adopted
  <2> QED BY <2>2, IdlesRest
<1>5. CASE AofFsync # "always"
  <2>1. /\ server'.aof_last_incr_size = server.aof_last_incr_size
        /\ server'.aof_last_incr_fsync_offset = server.aof_last_incr_size
        /\ server'.fsynced_reploff_pending = server.fsynced_reploff_pending
        /\ server'.aof_state = server.aof_state
    BY <1>1, <1>5 DEF FlushFsyncError, ServerState
  <2>2. Told' /\ Books'
    BY <1>1, <1>3, <2>1 DEF Rest, Told, Books
  <2>3. Flushed'
    BY <1>3, <1>5 DEF PowerSafe, Flushed
  <2>4. Unpaid
    BY <1>1, <1>3, <1>5 DEF Unpaid
  <2>5. Covers /\ SameLive
    BY <1>3, <2>1, <2>4, OwedLess, Cover, SameLiveSame
  <2>6. Begins(logged, logged')
    BY <1>3, Typed, BeginsFacts DEF Image
  <2>7. Kept'
    BY <1>3, <2>5, <2>6, KeptStays DEF Rest
  <2> QED BY <2>2, <2>3, <2>7 DEF Rest
<1> QED BY <1>4, <1>5

\* A short write, undone or not.
LEMMA FlushShortRest ==
    ASSUME LogInv, Rest, Alone, PowerSafe, AofLoadTruncated, LogInv',
           NEW k \in 1 .. Len(server.aof_buf) - 1, FlushShort(k)
    PROVE  Rest'
<1>1. PICK buf, toks, short, n, f, rest :
          /\ buf = server.aof_buf /\ toks = SubSeq(buf, 1, k) /\ short = WriteFd(toks)
          /\ n = server.aof_last_incr_size /\ f = server.aof_fd.file
          /\ rest = SubSeq(buf, k + 1, Len(buf))
  OBVIOUS
<1>2. /\ server \in ServerState /\ promised \in Owed /\ DiskOK(disk) /\ n \in Nat
      /\ server.aof_last_incr_fsync_offset \in Nat
      /\ buf \in Seq(Token) /\ Len(buf) \in Nat /\ k \in 1 .. Len(buf) - 1 /\ k \in Nat
  BY <1>1, Typed, PromisedOwed
<1>3. /\ toks \in Seq(Token) /\ Len(toks) = k /\ Begins(toks, buf) /\ rest # <<>> /\ buf # <<>>
  <2>1. toks \in Seq(Token) /\ Len(toks) = k /\ \A i \in 1 .. k : toks[i] = buf[i]
    BY <1>1, <1>2
  <2>2. rest \in Seq(Token) /\ Len(rest) = Len(buf) - k
    BY <1>1, <1>2
  <2>3. rest # <<>> /\ buf # <<>>
    BY <1>2, <2>2
  <2> QED BY <1>2, <2>1, <2>3 DEF Begins
<1>4. Flush
  BY DEF Flush
<1>5. /\ cont \in FlushReturn /\ cont' = cont /\ pc' # "down" /\ ~Adopted'
      /\ UNCHANGED <<aof_manifest, temp_am, dataset, uncounted, disk_manifest, logged, promised>>
      /\ Live(aof_manifest) = Live(disk_manifest)
      /\ Ready <=> server.aof_state = "ON"
  BY <1>4, FlushControl
<1>6. /\ ShortControl /\ ShortSame
      /\ ShortUndone(short, f, n) \/ ShortKept(short, k)
  BY <1>1, <1>2, FlushShortFields
<1>7. pc' = "reply" => AofFsync # "always"
  BY <1>6 DEF ShortControl
<1>8. server.aof_state = "ON" /\ Ready /\ logged = dataset
  <2>1. pc = "flush"
    BY <1>6 DEF ShortControl
  <2> QED BY <1>1, <1>3, <1>5, <2>1, Typed, WritesLive DEF Rest, Told
<1>9. /\ f \in Live(disk_manifest) /\ Live(disk_manifest) \subseteq DOMAIN disk
      /\ n = Len(disk[f].data) /\ server.aof_fd.gap = 0
  BY <1>1, <1>5, <1>8, FullNow
<1>10. Told'
  BY <1>5, <1>6, <1>8 DEF Rest, Told, ShortSame
<1>11. Unpaid
  BY <1>2, <1>5, <1>7 DEF Unpaid
<1>12. Covers
  BY <1>5, <1>6, <1>11, OwedLess, Cover DEF ShortSame
<1>13. CASE ShortKept(short, k)
  <2>1. Books'
    BY <1>1, <1>2, <1>5, <1>6, <1>13 DEF Rest, Books, ShortSame, ShortKept
  <2>2. Flushed'
    BY <1>1, <1>3, <1>13 DEF Flushed, ShortKept
  <2>3. disk' = WriteFd(toks)
    BY <1>1, <1>13 DEF ShortKept
  <2>4. Kept'
    BY <1>1, <1>3, <1>5, <1>8, <1>12, <2>3, KeptWrites DEF Rest
  <2> QED BY <1>10, <2>1, <2>2, <2>4 DEF Rest
<1>14. CASE ShortUndone(short, f, n)
  <2>1. /\ Books' /\ Flushed'
    BY <1>1, <1>3, <1>5, <1>6, <1>14 DEF Rest, Books, Flushed, ShortSame, ShortUndone
  <2>2. /\ DOMAIN short = DOMAIN disk /\ \A g \in DOMAIN disk : g # f => short[g] = disk[g]
        /\ short[f].synced = disk[f].synced /\ DiskOK(short)
    BY <1>1, <1>2, <1>3, <1>9, WriteFdType, WriteSynced
  <2>3. short[f].data = disk[f].data \o toks
    BY <1>1, <1>2, <1>3, <1>9, WritesEnd
  <2>4. PICK a, c : a = disk[f].data /\ c = CutAt(short[f], n)
    OBVIOUS
  <2>5. /\ a \in Seq(Token) /\ Len(a) = n /\ disk[f].synced \in Nat /\ disk[f].synced <= n
    BY <1>2, <1>9, <2>4 DEF DiskOK, ContentOK
  <2>6. c.data = a /\ c.synced = disk[f].synced
    <3>1. c.data = SubSeq(a \o toks, 1, n)
      BY <2>3, <2>4 DEF CutAt
    <3>2. SubSeq(a \o toks, 1, n) = a
      BY <1>3, <2>5
    <3>3. c.synced = IF short[f].synced < n THEN short[f].synced ELSE n
      BY <2>4 DEF CutAt
    <3> QED BY <2>2, <2>5, <3>1, <3>2, <3>3
  <2>7. disk' = [short EXCEPT ![f] = c]
    BY <1>14, <2>4 DEF ShortUndone
  <2>8. disk'[f] = c /\ \A g \in DOMAIN disk : g # f => disk'[g] = disk[g]
    BY <1>9, <2>2, <2>7
  <2>9. \A g \in DOMAIN disk : disk[g].synced <= disk[g].synced
    BY <1>2 DEF DiskOK, ContentOK
  <2>10. SameLive
    BY <1>5, <1>9, <2>4, <2>5, <2>6, <2>8, <2>9 DEF SameLive
  <2>11. Begins(logged, logged')
    BY <1>5, Typed, BeginsFacts DEF Image
  <2>12. Kept'
    BY <1>5, <1>12, <2>10, <2>11, KeptStays DEF Rest
  <2> QED BY <1>10, <2>1, <2>12 DEF Rest
<1> QED BY <1>6, <1>13, <1>14

\* flushAppendOnlyFile keeps what is owed.
LEMMA FlushKeeps ==
    ASSUME LogInv, Rest, Alone, PowerSafe, AofLoadTruncated, LogInv', Alone', Flush
    PROVE  Rest'
  BY FlushEmptyRest, FlushWriteRest, FlushErrorRest, FlushShortRest, FlushFsyncRest,
     FlushFsyncErrorRest DEF Flush

-----------------------------------------------------------------------------
(* Steps that touch other files.                                           *)

\* The files a start would load stay.
LEMMA OtherFiles ==
    ASSUME LogInv, disk_manifest' = disk_manifest,
           \A g \in Live(disk_manifest) : disk'[g] = disk[g] \/ disk'[g] = FsyncFd(disk)[g]
    PROVE  SameLive
<1>1. DiskOK(disk) /\ Live(disk_manifest) \subseteq DOMAIN disk
  BY Typed DEF Backed
<1>2. ASSUME NEW f \in Live(disk_manifest)
      PROVE  disk'[f].data = disk[f].data /\ disk[f].synced <= disk'[f].synced
  <2>1. PICK c : c = disk[f] /\ ContentOK(c)
    BY <1>1 DEF DiskOK
  <2>2. disk'[f] = c \/ disk'[f] = Synced(c)
    BY <1>1, <2>1 DEF FsyncFd
  <2>3. Synced(c).data = c.data /\ Synced(c).synced = Len(c.data) /\ c.synced <= Len(c.data) /\ c.synced \in Nat
    BY <2>1 DEF Synced, ContentOK
  <2> QED BY <2>1, <2>2, <2>3
<1> QED BY <1>2 DEF SameLive

\* Then nothing is lost.
LEMMA FilesRest ==
    ASSUME LogInv, Rest, LogInv', SameLive, logged' = logged, Told', Books', Flushed', Unpaid,
           server'.aof_state = "ON" =>
              /\ server.aof_state = "ON" /\ uncounted' = uncounted
              /\ server'.fsynced_reploff_pending \in {server.fsynced_reploff_pending, 0}
    PROVE  Rest'
<1>1. Covers
  BY OwedLess, Cover
<1>2. Begins(logged, logged')
  BY Typed, BeginsFacts DEF Image
<1>3. Kept'
  BY <1>1, <1>2, KeptStays DEF Rest, Unpaid
<1> QED BY <1>3 DEF Rest

\* CONFIG SET appendonly no, and SHUTDOWN.
LEMMA StopRest ==
    ASSUME LogInv, Rest, LogInv', StopClose \/ ShutdownFsync
    PROVE  Rest'
<1>1. /\ server \in ServerState /\ promised \in Owed /\ uncounted \in Nat /\ uncounted <= Len(dataset)
      /\ Len(dataset) \in Nat
  BY Typed, PromisedOwed
<1>2. /\ disk' \in {disk, FsyncFd(disk)} /\ pc' \in {"idle", "exit"}
      /\ UNCHANGED <<disk_manifest, logged, promised, dataset, uncounted>>
  BY DEF StopClose, ShutdownFsync, FinalFsync, Goto, memory, observed
<1>3. SameLive
  BY <1>2, FsyncLive
<1>4. ~Adopted' /\ Unpaid
  BY <1>1, <1>2 DEF Unpaid, Adopted, At, Persisting
<1>5. CASE StopClose
  <2>1. /\ server'.aof_state = "OFF" /\ server'.fsynced_reploff_pending = 0
        /\ server'.aof_last_incr_size = 0 /\ server'.aof_last_incr_fsync_offset = 0
    BY <1>5 DEF StopClose, FreshServer
  <2>2. Told' /\ Books'
    BY <1>1, <1>2, <1>4, <2>1 DEF Told, Books
  <2>3. Flushed'
    BY <1>2, <2>1 DEF Flushed, Ready, At, Persisting
  <2> QED BY <1>2, <1>3, <1>4, <2>1, <2>2, <2>3, FilesRest
<1>6. CASE ShutdownFsync
  <2>1. server' = server /\ pc' = "exit"
    BY <1>6 DEF ShutdownFsync, Goto
  <2>2. Told' /\ Books'
    BY <1>2, <1>4, <2>1 DEF Rest, Told, Books
  <2>3. Flushed'
    BY <2>1 DEF Flushed, Ready, At, Persisting
  <2> QED BY <1>2, <1>3, <1>4, <2>1, <2>2, <2>3, FilesRest
<1> QED BY <1>5, <1>6

\* The offsets after openNewIncrAofForAppend.
LEMMA SwapOffsets ==
    ASSUME server \in ServerState, NEW f, NEW synced \in BOOLEAN, NEW s, s = SwapFd(f, synced)
    PROVE  /\ s.aof_last_incr_size = 0 /\ s.aof_last_incr_fsync_offset = 0
           /\ s.aof_state = server.aof_state
           /\ s.fsynced_reploff_pending \in {server.fsynced_reploff_pending, MasterReplOffset}
<1>1. PICK fd, w : /\ fd = [file |-> f, append |-> FALSE, gap |-> 0]
                   /\ w = [server EXCEPT !.aof_fd = fd, !.aof_last_incr_size = 0,
                                         !.aof_last_incr_fsync_offset = 0]
  OBVIOUS
<1>2. /\ w.aof_last_incr_size = 0 /\ w.aof_last_incr_fsync_offset = 0
      /\ w.aof_state = server.aof_state /\ DOMAIN w = DOMAIN server
      /\ w.fsynced_reploff_pending = server.fsynced_reploff_pending
  BY <1>1 DEF ServerState
<1>3. \/ s = w
      \/ s = [w EXCEPT !.aof_bio_fsync_status = "OK", !.fsynced_reploff_pending = MasterReplOffset]
      \/ s = [w EXCEPT !.aof_bio_fsync_status = "ERR"]
  BY <1>1 DEF SwapFd
<1> QED BY <1>2, <1>3 DEF ServerState

\* A temporary INCR file, in startAppendOnly or in a rewrite.
LEMMA TempRest ==
    ASSUME LogInv, Rest, LogInv', StartOpen \/ RewriteWait
    PROVE  Rest'
<1>1. /\ server \in ServerState /\ promised \in Owed /\ uncounted + MasterReplOffset = Len(dataset)
      /\ uncounted \in Nat /\ Len(dataset) \in Nat /\ MasterReplOffset \in Nat
      /\ server.fsynced_reploff_pending \in Nat /\ DiskOK(disk)
  BY Typed, PromisedOwed
<1>2. /\ UNCHANGED <<disk_manifest, logged, promised, dataset, uncounted>>
      /\ pc' \in {"start_rewrite", "idle"}
      /\ server.aof_state # "ON"
  <2>1. pc = "start_open" => server.aof_state # "ON"
    BY Typed DEF Inv, Starting
  <2> QED BY <2>1 DEF StartOpen, RewriteWait, Goto, memory, observed
<1>new. PICK s : \E synced \in BOOLEAN :
          /\ s = SwapFd(TempIncr, synced)
          /\ \/ server' = s
             \/ server' = [s EXCEPT !.fsynced_reploff_pending = MasterReplOffset, !.fsynced_reploff = 0]
          /\ disk' = With(CloseOld(synced), TempIncr, EmptyFile)
  BY DEF StartOpen, RewriteWait
<1>3. PICK synced \in BOOLEAN :
          /\ s = SwapFd(TempIncr, synced)
          /\ \/ server' = s
             \/ server' = [s EXCEPT !.fsynced_reploff_pending = MasterReplOffset, !.fsynced_reploff = 0]
          /\ disk' = With(CloseOld(synced), TempIncr, EmptyFile)
  BY <1>new
<1>4. /\ s.aof_last_incr_size = 0 /\ s.aof_last_incr_fsync_offset = 0
      /\ s.aof_state = server.aof_state
      /\ s.fsynced_reploff_pending \in {server.fsynced_reploff_pending, MasterReplOffset}
  BY <1>1, <1>3, SwapOffsets
<1>5. s \in ServerState
  <2>1. TempIncr \in File
    BY DEF File
  <2> QED BY <1>1, <1>3, <2>1, SwapFdType
<1>6. /\ server'.aof_last_incr_size = 0 /\ server'.aof_last_incr_fsync_offset = 0
      /\ server'.aof_state = server.aof_state
      /\ server'.fsynced_reploff_pending \in {server.fsynced_reploff_pending, MasterReplOffset}
  BY <1>3, <1>4, <1>5 DEF ServerState
<1>7. SameLive
  <2>1. CloseOld(synced) = disk \/ CloseOld(synced) = FsyncFd(disk)
    BY DEF CloseOld
  <2>2. DOMAIN CloseOld(synced) = DOMAIN disk
    BY <1>1, CloseOldType
  <2>3. \A g \in Live(disk_manifest) : g # TempIncr /\ g \in DOMAIN disk
    BY LiveMembers, Typed DEF Backed
  <2>4. \A g \in DOMAIN disk : g # TempIncr => disk'[g] = CloseOld(synced)[g]
    BY <1>3, <2>2 DEF With
  <2> QED BY <1>2, <2>1, <2>3, <2>4, OtherFiles
<1>8. ~Adopted' /\ ~Ready'
  BY <1>2, <1>6 DEF Adopted, Ready, At, Persisting
<1>9. Told' /\ Books' /\ Flushed'
  BY <1>1, <1>2, <1>6, <1>8 DEF Rest, Told, Books, Flushed
<1>10. Unpaid
  BY <1>1, <1>2, <1>8 DEF Unpaid
<1> QED BY <1>2, <1>6, <1>7, <1>9, <1>10, FilesRest

\* The step changes files that no start would load, and the AOF is not on.
LEMMA AsideRest ==
    ASSUME LogInv, Rest, LogInv', UNCHANGED <<disk_manifest, logged, promised, dataset, uncounted>>,
           \A g \in Live(disk_manifest) : disk'[g] = disk[g],
           server.aof_state # "ON", server'.aof_state = server.aof_state,
           server'.aof_last_incr_size = server.aof_last_incr_size,
           server'.aof_last_incr_fsync_offset = server.aof_last_incr_fsync_offset,
           server'.fsynced_reploff_pending = server.fsynced_reploff_pending,
           ~Adopted', ~Ready', pc' # "down"
    PROVE  Rest'
<1>1. SameLive
  BY OtherFiles
<1>2. Told' /\ Books' /\ Flushed'
  BY DEF Rest, Told, Books, Flushed
<1>3. Unpaid
  BY PromisedOwed DEF Unpaid
<1> QED BY <1>1, <1>2, <1>3, FilesRest

\* The files of a start in progress.
LEMMA StartFilesRest ==
    ASSUME LogInv, Rest, LogInv', StartRewrite \/ StartRenameBase \/ StartRenameIncr
    PROVE  Rest'
<1>1. /\ server \in ServerState /\ DiskOK(disk) /\ Agreement /\ Starting /\ Temporary
      /\ WellFormed(aof_manifest) /\ Live(disk_manifest) \subseteq DOMAIN disk
      /\ aof_manifest.base \in Nat /\ aof_manifest.incr_seq \in Nat
      /\ dataset \in Image
  BY Typed DEF Inv, TypeInv, Backed, WellFormed, Manifest
<1>2. /\ UNCHANGED <<disk_manifest, logged, promised, dataset, uncounted>>
      /\ pc \in {"start_rewrite", "start_rename_base", "start_rename_incr"}
      /\ pc' \in {"start_rename_base", "start_rename_incr"} \/ (pc' = "persist" /\ cont' = "start")
  BY DEF StartRewrite, StartRenameBase, StartRenameIncr, Goto, Call, observed
<1>3. server.aof_state # "ON" /\ Live(aof_manifest) = Live(disk_manifest)
  BY <1>1, <1>2 DEF Starting, Agreement, Committed, At
<1>4. server' = server \/ \E x : server' = [server EXCEPT !.aof_fd.file = x]
  BY DEF StartRewrite, StartRenameBase, StartRenameIncr
<1>5. /\ server'.aof_state = server.aof_state
      /\ server'.aof_last_incr_size = server.aof_last_incr_size
      /\ server'.aof_last_incr_fsync_offset = server.aof_last_incr_fsync_offset
      /\ server'.fsynced_reploff_pending = server.fsynced_reploff_pending
  BY <1>1, <1>4 DEF ServerState
<1>6. ~Adopted' /\ ~Ready' /\ pc' # "down"
  BY <1>2, <1>3, <1>5 DEF Adopted, Ready, At, Persisting
<1>7. TempBase \notin Live(disk_manifest) /\ TempIncr \notin Live(disk_manifest)
  BY LiveMembers
<1>8. ASSUME NEW g \in Live(disk_manifest) PROVE disk'[g] = disk[g]
  <2>1. g \in DOMAIN disk /\ g \in Live(aof_manifest) /\ g # TempBase /\ g # TempIncr
    BY <1>1, <1>3, <1>7, <1>8
  <2>2. CASE StartRewrite
    BY <2>1, <2>2 DEF StartRewrite, With
  <2>3. CASE StartRenameBase
    <3>1. temp_am.base = aof_manifest.base + 1 /\ TempBase \in DOMAIN disk
      BY <1>1, <2>3 DEF StartRenameBase, Starting, Temporary
    <3>2. g # Base(temp_am.base)
      BY <1>1, <2>1, <3>1, LiveMembers
    <3>3. disk' = Renamed(TempBase, Base(temp_am.base))
      BY <2>3 DEF StartRenameBase
    <3> QED BY <2>1, <3>2, <3>3 DEF Renamed
  <2>4. CASE StartRenameIncr
    <3>1. temp_am.incr_seq = aof_manifest.incr_seq + 1
      BY <1>1, <2>4 DEF StartRenameIncr, Starting
    <3>2. temp_am.incr_seq \notin aof_manifest.incr
      BY <1>1, <3>1 DEF WellFormed
    <3>3. g # Incr(temp_am.incr_seq)
      BY <2>1, <3>2, LiveMembers
    <3>4. disk' = Renamed(TempIncr, Incr(temp_am.incr_seq))
      BY <2>4 DEF StartRenameIncr
    <3> QED BY <2>1, <3>3, <3>4 DEF Renamed
  <2> QED BY <2>2, <2>3, <2>4
<1> QED BY <1>2, <1>3, <1>5, <1>6, <1>8, AsideRest

\* The new manifest is adopted.
LEMMA AdoptRest ==
    ASSUME LogInv, Rest, LogInv', StartAdopt
    PROVE  Rest'
<1>1. /\ UNCHANGED <<server, disk_manifest, disk, logged, promised, dataset, uncounted>>
      /\ pc = "start_adopt"
      /\ pc' = "start_done" \/ (pc' = "unlink" /\ cont' = "del_start")
  BY DEF StartAdopt, Goto, UnlinkThen, observed, fs
<1>2. server.aof_state # "ON" /\ Adopted /\ Adopted' /\ pc' \notin {"down", "reply"} /\ Enabling
  BY <1>1, Typed DEF Inv, Starting, Adopted, At, Enabling
<1>3. disk[server.aof_fd.file].data = <<>> /\ server.aof_fd.file \in DOMAIN disk
  <2>1. server.aof_fd.file = Incr(temp_am.incr_seq) /\ temp_am.incr # {}
    BY <1>1, Typed DEF Inv, Appending
  <2>2. server.aof_fd.file \in Live(temp_am)
    BY <2>1, Typed, LiveMembers DEF WellFormed
  <2>3. Live(temp_am) = Live(disk_manifest)
    BY <1>1, Typed DEF Agreement, Committed
  <2> QED BY <1>2, <2>2, <2>3, Typed DEF Rewritten, Backed
<1>4. disk[server.aof_fd.file].synced = Len(disk[server.aof_fd.file].data)
  BY <1>3, Typed DEF DiskOK, ContentOK
<1>5. Told' /\ Books' /\ Flushed'
  BY <1>1, <1>2, <1>4 DEF Rest, Told, Books, Flushed
<1>6. SameLive
  BY <1>1, SameLiveSame
<1>7. Unpaid
  BY <1>1, <1>2, PromisedOwed DEF Unpaid
<1> QED BY <1>1, <1>2, <1>5, <1>6, <1>7, FilesRest

\* CONFIG SET appendonly yes has succeeded.
LEMMA StartDoneRest ==
    ASSUME LogInv, Rest, LogInv', StartDone
    PROVE  Rest'
<1>1. /\ UNCHANGED <<disk_manifest, disk, logged, promised, dataset, uncounted>>
      /\ pc = "start_done" /\ pc' = "idle"
  BY DEF StartDone, Goto, observed, fs, memory
<1>2. server \in ServerState /\ server.aof_buf = <<>> /\ Adopted /\ ~Adopted' /\ Ready
  BY <1>1, Typed DEF Rewritten, InStart, Adopted, Ready, At, Persisting
<1>3. /\ server'.aof_last_incr_size = server.aof_last_incr_size
      /\ server'.aof_last_incr_fsync_offset = server.aof_last_incr_fsync_offset
      /\ server'.fsynced_reploff_pending = server.fsynced_reploff_pending
      /\ server'.aof_fd = server.aof_fd /\ server'.aof_buf = <<>>
  BY <1>2 DEF StartDone, ServerState
<1>4. logged = dataset /\ promised = Len(dataset)
  BY <1>2 DEF Rest, Told
<1>5. MasterReplOffset' = MasterReplOffset
  BY <1>1 DEF MasterReplOffset
<1>6. Told' /\ Books' /\ Flushed'
  BY <1>1, <1>2, <1>3, <1>4, <1>5 DEF Rest, Told, Books, Flushed
<1>7. Covers
  <2> SUFFICES ASSUME NEW n \in Owed' PROVE \E j \in Owed : n <= j
    BY DEF Covers
  <2>1. n \in Nat /\ Owes(n)'
    BY DEF Owed
  <2>2. promised \in Owed /\ promised \in Nat
    BY PromisedOwed, Typed
  <2>3. n <= promised
    BY <1>1, <1>3, <1>4, <2>1, <2>2 DEF Owes, Rest, Books
  <2> QED BY <2>2, <2>3
<1>8. SameLive
  BY <1>1, SameLiveSame
<1>9. Begins(logged, logged')
  BY <1>1, Typed, BeginsFacts DEF Image
<1>10. Kept'
  BY <1>1, <1>7, <1>8, <1>9, KeptStays DEF Rest
<1> QED BY <1>6, <1>10 DEF Rest

\* unlink of a file that no manifest lists.
LEMMA UnlinkOneRest ==
    ASSUME LogInv, Rest, LogInv', NEW f \in unlinking, UnlinkOne(f)
    PROVE  Rest'
<1>1. /\ UNCHANGED <<disk_manifest, logged, promised, dataset, uncounted, pc, cont>>
      /\ pc = "unlink" /\ disk' = Without(f)
      /\ server' = server \/ server' = [server EXCEPT !.aof_fd.file = Unlinked]
      /\ server.aof_fd.file # f => server' = server
  BY DEF UnlinkOne, observed, memory
<1>2. f \notin Live(disk_manifest) /\ f \notin Live(aof_manifest)
  BY Typed DEF Inv
<1>3. server \in ServerState /\ DiskOK(disk)
  BY Typed
<1>4. /\ server'.aof_state = server.aof_state
      /\ server'.aof_last_incr_size = server.aof_last_incr_size
      /\ server'.aof_last_incr_fsync_offset = server.aof_last_incr_fsync_offset
      /\ server'.fsynced_reploff_pending = server.fsynced_reploff_pending
      /\ server'.aof_buf = server.aof_buf
  BY <1>1, <1>3 DEF ServerState
<1>5. \A g \in Live(disk_manifest) : g \in DOMAIN disk /\ disk'[g] = disk[g]
  <2>1. Live(disk_manifest) \subseteq DOMAIN disk
    BY Typed DEF Backed
  <2> QED BY <1>1, <1>2, <2>1 DEF Without
<1>6. SameLive
  BY <1>1, <1>5, OtherFiles
<1>7. (Adopted' <=> Adopted) /\ (Ready' <=> Ready)
  BY <1>1, <1>4 DEF Adopted, Ready, At, Persisting
<1>8. Told' /\ Books'
  BY <1>1, <1>4, <1>7 DEF Rest, Told, Books
<1>9. Flushed'
  <2>1. CASE ~Ready
    BY <1>7, <2>1 DEF Flushed
  <2>2. CASE Ready
    <3>1. server.aof_fd.file \in Live(aof_manifest)
      BY <2>2, ReadyFile, Typed
    <3>2. Live(aof_manifest) = Live(disk_manifest)
      BY <1>1, Typed DEF Agreement, Committed, At
    <3>3. server' = server
      BY <1>1, <1>2, <3>1
    <3>4. disk'[server.aof_fd.file] = disk[server.aof_fd.file]
      BY <1>5, <3>1, <3>2
    <3>5. MasterReplOffset' = MasterReplOffset
      BY <1>1 DEF MasterReplOffset
    <3> QED BY <1>7, <3>3, <3>4, <3>5 DEF Rest, Flushed
  <2> QED BY <2>1, <2>2
<1>10. Unpaid
  BY <1>1, <1>7, PromisedOwed DEF Unpaid
<1> QED BY <1>1, <1>4, <1>6, <1>8, <1>9, <1>10, FilesRest

\* A rewrite opens a new INCR file.
LEMMA RewriteOpenRest ==
    ASSUME LogInv, Rest, LogInv', Alone, PowerSafe, RewriteOpen
    PROVE  Rest'
<1>1. /\ UNCHANGED <<server, disk_manifest, logged, promised, dataset, uncounted>>
      /\ pc = "rw_open" /\ pc' = "persist" /\ cont' = "rw"
      /\ disk' = With(disk, Incr(aof_manifest.incr_seq + 1), EmptyFile)
      /\ server.aof_state = "ON"
  BY DEF RewriteOpen, Call, observed
<1>2. "power" \notin MayFail
  BY <1>1, SoleFiles DEF Alone
<1>3. Live(aof_manifest) = Live(disk_manifest) /\ WellFormed(aof_manifest) /\ aof_manifest.incr_seq \in Nat
  BY <1>1, Typed DEF Agreement, Committed, At, WellFormed, Manifest
<1>4. aof_manifest.incr_seq + 1 \notin aof_manifest.incr
  BY <1>3 DEF WellFormed
<1>5. Incr(aof_manifest.incr_seq + 1) \notin Live(disk_manifest)
  BY <1>3, <1>4, LiveMembers
<1>6. Live(disk_manifest) \subseteq DOMAIN disk
  BY Typed DEF Backed
<1>7. \A g \in Live(disk_manifest) : disk'[g] = disk[g]
  BY <1>1, <1>5, <1>6 DEF With
<1>8. SameLive
  BY <1>1, <1>7, OtherFiles
<1>9. ~Adopted' /\ logged = dataset
  BY <1>1 DEF Rest, Told, Adopted, At, Persisting
<1>10. Told' /\ Books' /\ Flushed'
  BY <1>1, <1>2, <1>9 DEF Rest, Told, Books, Flushed
<1>11. Unpaid
  BY <1>1, <1>9, PromisedOwed DEF Unpaid
<1> QED BY <1>1, <1>8, <1>10, <1>11, FilesRest

\* And appends to it from now on.
LEMMA RewriteSwapRest ==
    ASSUME LogInv, Rest, LogInv', Alone, Alone', PowerSafe, RewriteSwap
    PROVE  Rest'
<1>1. /\ UNCHANGED <<disk_manifest, logged, promised, dataset, uncounted>>
      /\ pc = "rw_swap" /\ pc' = "idle"
  BY DEF RewriteSwap, Goto, observed
<1>2. "power" \notin MayFail
  BY <1>1, SoleFiles DEF Alone, Switching
<1>3. /\ server \in ServerState /\ uncounted + MasterReplOffset = Len(dataset)
      /\ uncounted \in Nat /\ Len(dataset) \in Nat /\ MasterReplOffset \in Nat
      /\ server.fsynced_reploff_pending \in Nat /\ server.aof_state = "ON" /\ server.aof_buf = <<>>
      /\ temp_am.incr_seq \in Nat
  BY <1>1, Typed DEF Inv, Appending, Switched, Switching, WellFormed, Manifest
<1>4. PICK synced \in BOOLEAN : server' = SwapFd(Incr(temp_am.incr_seq), synced)
  BY DEF RewriteSwap
<1>5. PICK s : s = SwapFd(Incr(temp_am.incr_seq), synced)
  OBVIOUS
<1>6. /\ s.aof_last_incr_size = 0 /\ s.aof_last_incr_fsync_offset = 0
      /\ s.aof_state = server.aof_state
      /\ s.fsynced_reploff_pending \in {server.fsynced_reploff_pending, MasterReplOffset}
  BY <1>3, <1>5, SwapOffsets
<1>7. server'.aof_buf = <<>>
  <2>1. server' \in ServerState
    <3>1. (server \in ServerState)'
      BY Typed, PTL
    <3> QED BY <3>1
  <2>2. PICK fd, w : /\ fd = [file |-> Incr(temp_am.incr_seq), append |-> FALSE, gap |-> 0]
                     /\ w = [server EXCEPT !.aof_fd = fd, !.aof_last_incr_size = 0,
                                           !.aof_last_incr_fsync_offset = 0]
    OBVIOUS
  <2>3. w.aof_buf = <<>> /\ DOMAIN w = DOMAIN server
    BY <1>3, <2>2 DEF ServerState
  <2>4. \/ s = w
        \/ s = [w EXCEPT !.aof_bio_fsync_status = "OK", !.fsynced_reploff_pending = MasterReplOffset]
        \/ s = [w EXCEPT !.aof_bio_fsync_status = "ERR"]
    BY <1>5, <2>2 DEF SwapFd
  <2> QED BY <1>3, <1>4, <1>5, <2>3, <2>4 DEF ServerState
<1>8. logged = dataset /\ ~Adopted'
  BY <1>1, <1>3 DEF Rest, Told, Adopted, At, Persisting
<1>9. Told' /\ Books' /\ Flushed'
  BY <1>1, <1>2, <1>3, <1>4, <1>5, <1>6, <1>8 DEF Rest, Told, Books, Flushed
<1>10. Live(aof_manifest') = Live(disk_manifest')
  <2>1. Agreement'
    <3>1. (Agreement)'
      BY Typed, PTL
    <3> QED BY <3>1
  <2> QED BY <1>1, <2>1 DEF Agreement, Committed, At
<1>11. promised <= Len(logged)
  BY PromisedLogged DEF Rest
<1>12. Settled'
  BY <1>1, <1>2, <1>3, <1>4, <1>5, <1>6, <1>7, <1>10, <1>11 DEF Settled, Ready
<1>13. Kept'
  BY <1>9, <1>12, SettledNext
<1> QED BY <1>9, <1>13 DEF Rest

\* A BASE file is written at server start.
LEMMA BootBaseRest ==
    ASSUME LogInv, Rest, LogInv', BootBase
    PROVE  Rest'
<1>1. /\ UNCHANGED <<server, disk_manifest, logged, promised, dataset, uncounted>>
      /\ pc = "boot_base" /\ pc' = "boot_open"
      /\ Live(aof_manifest) # {} => disk' = disk
  BY DEF BootBase, Goto, observed
<1>2. Live(aof_manifest) = Live(disk_manifest)
  BY <1>1, Typed DEF Agreement, Committed, At
<1>3. SameLive
  BY <1>1, <1>2, OtherFiles
<1>4. ~Adopted' /\ ~Ready'
  BY <1>1 DEF Adopted, Ready, At, Persisting
<1>5. Told' /\ Books' /\ Flushed'
  BY <1>1, <1>4 DEF Rest, Told, Books, Flushed
<1>6. Unpaid
  BY <1>1, <1>4, PromisedOwed DEF Unpaid
<1> QED BY <1>1, <1>3, <1>5, <1>6, FilesRest

\* The last INCR file is opened at server start.
LEMMA BootOpenRest ==
    ASSUME LogInv, Rest, LogInv', Started, BootOpen
    PROVE  Rest'
<1>1. PICK f : f = Incr(LastIncr(aof_manifest'))
  OBVIOUS
<1>2. /\ UNCHANGED <<disk_manifest, logged, promised, dataset, uncounted>>
      /\ pc = "boot_open"
      /\ disk' = IF f \in DOMAIN disk THEN disk ELSE With(disk, f, EmptyFile)
  BY <1>1 DEF BootOpen, observed
<1>3. /\ server \in ServerState /\ uncounted + MasterReplOffset = Len(dataset) /\ Len(dataset) \in Nat
      /\ uncounted \in Nat /\ MasterReplOffset \in Nat
      /\ uncounted = Len(dataset) /\ Live(disk_manifest) \subseteq DOMAIN disk
  BY <1>2, Typed DEF Started, Backed
<1>4. /\ server'.aof_last_incr_size = Len(disk'[f].data)
      /\ server'.aof_last_incr_fsync_offset = Len(disk'[f].data)
      /\ server'.fsynced_reploff_pending = server.fsynced_reploff_pending
      /\ server'.aof_state = server.aof_state
      /\ pc' = "persist" /\ cont' = "boot"
  BY <1>1, <1>3, BootOpenFields
<1>5. \A g \in Live(disk_manifest) : disk'[g] = disk[g]
  BY <1>2, <1>3 DEF With
<1>6. SameLive
  BY <1>2, <1>5, OtherFiles
<1>7. ~Adopted' /\ ~(MasterReplOffset' > 0)
  BY <1>2, <1>3, <1>4 DEF Adopted, At, Persisting, MasterReplOffset
<1>8. Len(disk'[f].data) \in Nat
  <2>1. (server.aof_last_incr_size \in Nat)'
    BY Typed, PTL
  <2> QED BY <1>4, <2>1
<1>9. Told' /\ Books' /\ Flushed'
  BY <1>2, <1>4, <1>7, <1>8 DEF Rest, Told, Books, Flushed
<1>10. Unpaid
  BY <1>2, <1>4, <1>7, PromisedOwed DEF Unpaid
<1> QED BY <1>2, <1>4, <1>6, <1>9, <1>10, FilesRest

\* startAppendOnly commits its manifest: from here on the log is the dataset.
LEMMA CommitStart ==
    ASSUME LogInv, Rest, LogInv', Alone', PowerSafe, PersistRename, cont = "start"
    PROVE  Rest'
<1>1. /\ UNCHANGED <<server, disk, dataset, uncounted, cont>> /\ logged' = dataset /\ promised' = Len(dataset)
      /\ pc = "persist" /\ pc' = "dirfsync" /\ disk_manifest' \in ManifestDup(temp_am)
  BY DEF PersistRename, Goto, memory, PersistTarget
<1>2. /\ server.aof_state # "ON" /\ ~Ready' /\ Enabling
      /\ server.aof_fd.file = Incr(temp_am.incr_seq) /\ Live(temp_am) \subseteq DOMAIN disk
  BY <1>1, Typed DEF Inv, Starting, Appending, Prepared, Ready, Enabling, At, Persisting
<1>3. Told' /\ Books' /\ Flushed'
  BY <1>1, <1>2 DEF Rest, Told, Books, Flushed
<1>4. PICK m, k, d, ds : m = temp_am /\ k = disk_manifest' /\ d = disk /\ ds = dataset
  OBVIOUS
<1>5. /\ WellFormed(m) /\ DiskOK(d) /\ Plain(d) /\ Live(m) \subseteq DOMAIN d
      /\ Ends(m, d, <<>>, ds, -1) /\ d[Incr(m.incr_seq)].data = <<>>
  BY <1>2, <1>4, Typed DEF Rewritten
<1>6. Whole(m, d, ds)
  BY <1>5, EndsWhole
<1>7. /\ WellFormed(k) /\ Live(k) = Live(m) /\ k.base = m.base /\ k.incr_seq = m.incr_seq
  BY <1>1, <1>4, <1>5, DupFiles
<1>8. Whole(k, d, ds)
  BY <1>5, <1>6, <1>7, WholeSame
<1>9. Backed(k, d)
  <2>1. (Backed(disk_manifest, disk))'
    BY Typed, PTL
  <2> QED BY <1>1, <1>4, <2>1
<1>10. Sole(k)
  BY <1>4 DEF Alone, PowerSafe, Sole, Single, NoRewrite
<1>11. k.incr # {} => Len(d[Incr(k.incr_seq)].data) <= Least(d[Incr(k.incr_seq)])
  <2> SUFFICES ASSUME k.incr # {} PROVE Len(d[Incr(k.incr_seq)].data) <= Least(d[Incr(k.incr_seq)])
    OBVIOUS
  <2>1. Incr(k.incr_seq) \in DOMAIN d
    BY <1>5, <1>7, LastIsLate
  <2>2. PICK c : c = d[Incr(k.incr_seq)]
    OBVIOUS
  <2>3. ContentOK(c) /\ c.data = <<>>
    BY <1>5, <1>7, <2>1, <2>2 DEF DiskOK
  <2> QED BY <2>2, <2>3 DEF Least, ContentOK
<1>12. Exact(k, d)
  BY <1>5, <1>9, <1>10, <1>11, LastExact
<1>13. promised' <= Len(logged')
  BY <1>1, Typed
<1>14. Kept'
  BY <1>1, <1>3, <1>4, <1>8, <1>12, <1>13, KeptWhole
<1> QED BY <1>3, <1>14 DEF Rest

\* A rewrite commits the manifest with one more, empty, INCR file.
LEMMA CommitSwitch ==
    ASSUME LogInv, Rest, LogInv', Alone, PowerSafe, PersistRename, cont = "rw"
    PROVE  Rest'
<1>1. /\ UNCHANGED <<server, disk, dataset, uncounted, cont, logged, promised>>
      /\ pc = "persist" /\ pc' = "dirfsync" /\ disk_manifest' \in ManifestDup(temp_am)
  BY DEF PersistRename, Goto, memory, PersistTarget, observed
<1>2. /\ server.aof_state = "ON" /\ Ready /\ Switching /\ Live(temp_am) \subseteq DOMAIN disk
      /\ Live(aof_manifest) = Live(disk_manifest) /\ ~Adopted'
  BY <1>1, Typed DEF Inv, Appending, Prepared, Ready, Switching, At, Persisting, Agreement, Committed, Adopted
<1>3. "power" \notin MayFail
  BY <1>2, SoleFiles DEF Alone
<1>4. logged = dataset /\ Told' /\ Books' /\ Flushed'
  BY <1>1, <1>2, <1>3 DEF Rest, Told, Books, Flushed
<1>5. PICK a, m, k, p, d, ds : /\ a = aof_manifest /\ m = temp_am /\ k = disk_manifest'
                               /\ p = disk_manifest /\ d = disk /\ ds = logged
  OBVIOUS
<1>6. /\ WellFormed(a) /\ WellFormed(m) /\ WellFormed(p) /\ DiskOK(d) /\ Live(m) \subseteq DOMAIN d
      /\ Live(a) = Live(p) /\ m.base = a.base /\ m.incr_seq = a.incr_seq + 1
      /\ m.incr = a.incr \cup {m.incr_seq} /\ d[Incr(m.incr_seq)].data = <<>>
      /\ server.aof_buf = <<>>
  BY <1>2, <1>5, Typed DEF Switched
<1>7. p.base = a.base /\ p.incr = a.incr /\ p.incr_seq = a.incr_seq
  BY <1>6, SameNumbers
<1>8. Whole(p, d, ds)
  BY <1>2, <1>4, <1>5, <1>6, WholeNow
<1>9. Ends(m, d, <<>>, ds, -1)
  BY <1>6, <1>7, <1>8, EmptyEnds
<1>10. Whole(m, d, ds)
  BY <1>6, <1>9, EndsWhole
<1>11. /\ WellFormed(k) /\ Live(k) = Live(m) /\ k.base = m.base /\ k.incr_seq = m.incr_seq
  BY <1>1, <1>5, <1>6, DupFiles
<1>12. Whole(k, d, ds)
  BY <1>6, <1>10, <1>11, WholeSame
<1>13. Backed(k, d)
  <2>1. (Backed(disk_manifest, disk))'
    BY Typed, PTL
  <2> QED BY <1>1, <1>5, <2>1
<1>14. Exact(k, d)
  BY <1>3, <1>13, KillExact
<1>15. promised' <= Len(logged')
  BY <1>1, PromisedLogged DEF Rest
<1>16. Kept'
  BY <1>1, <1>4, <1>5, <1>12, <1>14, <1>15, KeptWhole
<1> QED BY <1>4, <1>16 DEF Rest

\* A starting server commits the manifest with its first files.
LEMMA CommitBoot ==
    ASSUME LogInv, Rest, LogInv', Alone', PowerSafe, Started, PersistRename, cont = "boot"
    PROVE  Rest'
<1>1. /\ UNCHANGED <<server, aof_manifest, disk, dataset, uncounted, cont, logged, promised>>
      /\ pc = "persist" /\ pc' = "dirfsync" /\ disk_manifest' \in ManifestDup(aof_manifest)
      /\ aof_manifest.dirty
  BY DEF PersistRename, Goto, memory, PersistTarget, observed
<1>2. /\ server.aof_state = "ON" /\ Ready /\ Ready' /\ ~Adopted'
      /\ server.aof_buf = <<>> /\ disk[server.aof_fd.file].data = <<>>
  BY <1>1, Typed DEF Inv, Appending, Ready, At, Persisting, Adopted, Started
<1>3. Told' /\ Books'
  BY <1>1, <1>2 DEF Rest, Told, Books
<1>4. Flushed'
  <2>1. MasterReplOffset' = MasterReplOffset
    BY <1>1 DEF MasterReplOffset
  <2> QED BY <1>1, <1>2, <2>1 DEF Rest, Flushed
<1>5. disk[server.aof_fd.file].synced = Len(disk[server.aof_fd.file].data)
  <2>1. server.aof_fd.file \in DOMAIN disk
    BY <1>2, ReadyFile, Typed
  <2> QED BY <1>2, <2>1, Typed DEF DiskOK, ContentOK
<1>6. Live(aof_manifest') = Live(disk_manifest')
  BY <1>1, DupFiles, Typed
<1>7. promised <= Len(logged)
  BY PromisedLogged DEF Rest
<1>8. Settled'
  BY <1>1, <1>2, <1>5, <1>6, <1>7 DEF Settled
<1>9. Kept'
  BY <1>3, <1>8, SettledNext
<1> QED BY <1>3, <1>4, <1>9 DEF Rest

\* The manifest without its history lists the same files.
LEMMA CommitHistory ==
    ASSUME LogInv, Rest, LogInv', PersistRename, cont \in {"del_start", "del_boot"}
    PROVE  Rest'
<1>1. /\ UNCHANGED <<server, aof_manifest, disk, dataset, uncounted, cont, logged, promised>>
      /\ pc = "persist" /\ pc' = "dirfsync" /\ disk_manifest' \in ManifestDup(aof_manifest)
  BY DEF PersistRename, Goto, memory, PersistTarget, observed
<1>2. Live(aof_manifest) = Live(disk_manifest)
  BY <1>1, Typed DEF Agreement, Committed, At
<1>3. Live(disk_manifest') = Live(disk_manifest)
  BY <1>1, <1>2, DupFiles, Typed
<1>4. (Adopted' <=> Adopted) /\ (Ready' <=> Ready)
  BY <1>1 DEF Adopted, Ready, At, Persisting
<1>5. Told' /\ Books'
  BY <1>1, <1>4 DEF Rest, Told, Books
<1>6. Flushed'
  <2>1. MasterReplOffset' = MasterReplOffset
    BY <1>1 DEF MasterReplOffset
  <2> QED BY <1>1, <1>4, <2>1 DEF Rest, Flushed
<1>7. SameLive
  <2>1. \A f \in Live(disk_manifest) : disk[f].synced \in Nat
    BY Typed DEF Backed, DiskOK, ContentOK
  <2> QED BY <1>1, <1>3, <2>1 DEF SameLive
<1>8. Unpaid
  BY <1>1, <1>4, PromisedOwed DEF Unpaid
<1> QED BY <1>1, <1>5, <1>6, <1>7, <1>8, FilesRest

-----------------------------------------------------------------------------
(* Crashes and server start.                                               *)

\* What a power loss leaves: each file from what was synced on, all of it synced.
LEMMA SurvivorsRemain ==
    ASSUME DiskOK(disk), NEW d \in Survivors, "power" \in MayFail
    PROVE  \A g \in DOMAIN disk : CutFrom(disk[g], d[g].data) /\ d[g].synced = Len(d[g].data)
<1> DEFINE dirty == {f \in DOMAIN disk : disk[f].synced < Len(disk[f].data)}
<1>1. PICK kept : /\ \A f \in dirty : kept[f] \in disk[f].synced .. Len(disk[f].data)
                  /\ d = [f \in DOMAIN disk |->
                            IF f \in dirty THEN Synced(CutAt(disk[f], kept[f])) ELSE disk[f]]
  BY DEF Survivors
<1> SUFFICES ASSUME NEW g \in DOMAIN disk
             PROVE  CutFrom(disk[g], d[g].data) /\ d[g].synced = Len(d[g].data)
  OBVIOUS
<1>2. PICK c, x : c = disk[g] /\ x = d[g]
  OBVIOUS
<1>3. ContentOK(c)
  BY <1>2 DEF DiskOK
<1>4. /\ c.data \in Seq(Token) /\ c.synced \in Nat /\ Len(c.data) \in Nat /\ c.synced <= Len(c.data)
  BY <1>3 DEF ContentOK
<1>5. CASE g \in dirty
  <2>1. PICK n, y : n = kept[g] /\ y = CutAt(c, n)
    OBVIOUS
  <2>2. n \in c.synced .. Len(c.data) /\ x = Synced(y)
    BY <1>1, <1>2, <1>5, <2>1
  <2>3. n \in 0 .. Len(c.data) /\ c.synced <= n
    BY <1>4, <2>2
  <2>4. ContentOK(y) /\ Len(y.data) = n /\ y.data = SubSeq(c.data, 1, n)
    BY <1>3, <2>1, <2>3, CutAtType
  <2>5. x.data = y.data /\ x.synced = Len(y.data)
    BY <2>2, <2>4 DEF Synced, ContentOK
  <2>6. Begins(y.data, c.data)
    BY <1>4, <2>3, <2>4 DEF Begins
  <2>7. CutFrom(c, x.data)
    BY <2>3, <2>4, <2>5, <2>6 DEF CutFrom, Least
  <2> QED BY <1>2, <2>5, <2>7
<1>6. CASE g \notin dirty
  <2>1. x = c /\ c.synced = Len(c.data)
    BY <1>1, <1>2, <1>4, <1>6
  <2>2. Begins(c.data, c.data)
    BY <1>4, BeginsFacts
  <2>3. CutFrom(c, x.data)
    BY <1>4, <2>1, <2>2 DEF CutFrom, Least
  <2> QED BY <1>2, <2>1, <2>3
<1> QED BY <1>5, <1>6

\* A crash leaves files that load, as a beginning of the log with what was promised.
LEMMA CrashLeaves ==
    ASSUME LogInv, Kept, disk' = disk \/ ("power" \in MayFail /\ disk' \in Survivors)
    PROVE  /\ Survives(disk_manifest, disk, disk', Owed)
           /\ Backed(disk_manifest, disk')
<1>1. PICK m, d, e, x, p : m = disk_manifest /\ d = disk /\ e = disk' /\ x = logged /\ p = Owed
  OBVIOUS
<1>2. Backed(m, d) /\ x \in Image /\ p \in SUBSET Nat /\ Firm(m, d, x, p)
  BY <1>1, Typed DEF Kept, Owed
<1>3. Remains(m, d, e)
  <2>1. CASE e = d
    BY <1>2, <2>1, RemainsSelf
  <2>2. CASE "power" \in MayFail /\ e \in Survivors
    <3>1. DiskOK(e) /\ DOMAIN e = DOMAIN d
      BY <1>1, <2>2, SurvivorsType, Typed
    <3>2. \A g \in DOMAIN d : CutFrom(d[g], e[g].data)
      BY <1>1, <2>2, SurvivorsRemain, Typed
    <3> QED BY <1>2, <3>1, <3>2 DEF Remains, Backed
  <2> QED BY <1>1, <2>1, <2>2
<1>4. Survives(m, d, e, p)
  BY <1>2, <1>3 DEF Firm
<1>5. Backed(m, e)
  BY <1>2, <1>3 DEF Backed, Remains
<1> QED BY <1>1, <1>4, <1>5

\* A crash of either kind.
LEMMA CrashRest ==
    ASSUME LogInv, Rest, LogInv', Kill \/ PowerLoss
    PROVE  Rest'
<1>1. /\ UNCHANGED <<disk_manifest, promised>> /\ pc' = "down" /\ server' = FreshServer /\ uncounted' = 0
      /\ logged' = Recovered(disk_manifest, disk') /\ dataset' = <<>>
      /\ disk' = disk \/ ("power" \in MayFail /\ disk' \in Survivors)
  BY DEF Kill, PowerLoss, Stop
<1>2. /\ FreshServer.aof_state = "OFF" /\ FreshServer.fsynced_reploff_pending = 0
      /\ FreshServer.aof_last_incr_size = 0 /\ FreshServer.aof_last_incr_fsync_offset = 0
  BY DEF FreshServer
<1>3. ~Adopted' /\ ~Ready'
  BY <1>1, <1>2 DEF Adopted, Ready, At, Persisting
<1>4. Told' /\ Books' /\ Flushed'
  BY <1>1, <1>2, <1>3 DEF Told, Books, Flushed
<1>5. PICK m, d, e, r : m = disk_manifest /\ d = disk /\ e = disk' /\ r = LoadAppendOnlyFiles(m, e)
  OBVIOUS
<1>6. Backed(m, d) /\ Backed(m, e) /\ Survives(m, d, e, Owed)
  BY <1>1, <1>5, CrashLeaves, Typed DEF Rest
<1>7. r.ret # "FAILED" /\ r.ds \in Image /\ \A n \in Owed : n <= Len(r.ds)
  BY <1>5, <1>6, LoadImage DEF Survives
<1>8. logged' = r.ds
  BY <1>1, <1>5, <1>6, <1>7 DEF Recovered, Backed
<1>9. Owed' = {promised}
  <2>1. promised' \in Nat
    BY <1>1, Typed
  <2> QED BY <1>1, <1>2, <2>1 DEF Owed, Owes
<1>10. Begins(r.ds, r.ds) /\ promised <= Len(r.ds) /\ promised \in Nat
  BY <1>7, PromisedOwed, Typed, BeginsFacts DEF Image
<1>11. PICK due : due = {promised}
  OBVIOUS
<1>12. Firm(m, e, r.ds, due)
  <2>1. due \in SUBSET Nat /\ \A n \in due : n <= Len(r.ds)
    BY <1>10, <1>11
  <2>2. CASE Exact(m, e)
    BY <1>5, <1>6, <1>7, <1>10, <2>1, <2>2, FirmExact
  <2>3. CASE "power" \in MayFail /\ e \in Survivors
    <3>1. \A g \in Live(m) : e[g].synced = Len(e[g].data)
      BY <1>5, <1>6, <2>3, SurvivorsRemain, Typed DEF Backed
    <3>2. ASSUME NEW g \in Live(m) PROVE Len(e[g].data) <= Least(e[g])
      <4>1. Len(e[g].data) \in Nat
        BY <1>6 DEF Backed, DiskOK, ContentOK
      <4> QED BY <2>3, <3>1, <4>1 DEF Least
    <3>3. Exact(m, e)
      BY <3>2 DEF Exact
    <3> QED BY <2>2, <3>3
  <2>4. CASE e = d
    <3>1. PICK x, p : x = logged /\ p = Owed
      OBVIOUS
    <3>2. x \in Image /\ p \in SUBSET Nat /\ Firm(m, d, x, p)
      BY <1>5, <3>1, Typed DEF Rest, Kept, Owed
    <3>3. ASSUME NEW w, Remains(m, e, w) PROVE Survives(m, e, w, due)
      <4>1. Survives(m, d, w, p)
        BY <2>4, <3>2, <3>3 DEF Firm
      <4>2. promised \in p
        BY <3>1, PromisedOwed
      <4> QED BY <1>11, <2>4, <4>1, <4>2 DEF Survives
    <3> QED BY <1>5, <1>10, <3>3 DEF Firm
  <2> QED BY <1>1, <1>5, <2>3, <2>4
<1>13. Kept'
  BY <1>1, <1>5, <1>8, <1>9, <1>11, <1>12 DEF Kept
<1> QED BY <1>4, <1>13 DEF Rest

\* What a stopped server finds, and that it starts.
LEMMA StartFinds ==
    ASSUME LogInv, Kept, pc = "down", NEW r, r = LoadAppendOnlyFiles(disk_manifest, disk)
    PROVE  r.ret # "FAILED" /\ logged = r.ds
<1>1. PICK m, d, x, p : m = disk_manifest /\ d = disk /\ x = logged /\ p = Owed
  OBVIOUS
<1>2. Backed(m, d) /\ x \in Image /\ p \in SUBSET Nat /\ Firm(m, d, x, p)
  BY <1>1, Typed DEF Kept, Owed
<1>3. r.ret # "FAILED"
  BY <1>1, <1>2, FirmHolds
<1> QED BY <1>3 DEF Kept

\* A server starts, with its append-only file or without it.
LEMMA BootRestKept ==
    ASSUME LogInv, Rest, LogInv', Alone, PowerSafe, StartServer \/ StartServerFatal \/ StartServerOff
    PROVE  Rest'
<1>1. pc = "down" /\ UNCHANGED <<logged, promised, disk_manifest>>
  BY DEF StartServer, StartServerFatal, StartServerOff, Booted, observed
<1>2. PICK r : r = LoadAppendOnlyFiles(disk_manifest, disk)
  OBVIOUS
<1>3. r.ret # "FAILED" /\ logged = r.ds
  BY <1>1, <1>2, StartFinds DEF Rest
<1>4. ~StartServerFatal
  BY <1>2, <1>3 DEF StartServerFatal
<1>5. ASSUME NEW s, NEW z, Booted(s, z), s \in {"ON", "OFF"}
      PROVE  /\ server'.aof_state = s /\ server'.fsynced_reploff_pending = 0
             /\ server'.aof_last_incr_size = 0 /\ server'.aof_last_incr_fsync_offset = 0
             /\ uncounted' = Len(dataset')
  BY <1>5 DEF Booted, FreshServer
<1>6. Len(dataset') \in Nat
  <2>1. (Len(dataset) \in Nat)'
    BY Typed, PTL
  <2> QED BY <2>1
<1>7. CASE StartServer
  <2>1. /\ Booted("ON", 0) /\ pc' = "boot_base" /\ dataset' = r.ds /\ disk' = AfterLoad(disk, r)
    BY <1>2, <1>7 DEF StartServer, Goto
  <2>2. ~Adopted' /\ ~Ready'
    BY <2>1 DEF Adopted, Ready, At, Persisting
  <2>3. Told' /\ Books' /\ Flushed'
    BY <1>1, <1>3, <1>5, <1>6, <2>1, <2>2 DEF Told, Books, Flushed
  <2>4. PICK m, d, e, p, x : m = disk_manifest /\ d = disk /\ e = disk' /\ p = Owed /\ x = r.ds
    OBVIOUS
  <2>5. /\ Backed(m, d) /\ Plain(d) /\ Sole(m) /\ r = LoadAppendOnlyFiles(m, d) /\ e = AfterLoad(d, r)
        /\ p \in SUBSET Nat /\ Firm(m, d, r.ds, p) /\ promised \in p
    BY <1>2, <1>3, <2>1, <2>4, Typed, SoleFiles, PromisedOwed DEF Rest, Kept, Owed
  <2>6. Firm(m, e, r.ds, p)
    BY <2>5, FirmLoads
  <2>7. \A n \in Owed' : n \in p
    BY <1>1, <1>5, <2>1, <2>5 DEF Owed, Owes
  <2>8. PICK q : q = Owed'
    OBVIOUS
  <2>9. ASSUME NEW w, Remains(m, e, w) PROVE Survives(m, e, w, q)
    BY <2>6, <2>7, <2>8, <2>9 DEF Firm, Survives
  <2>10. Firm(m, e, r.ds, q)
    BY <2>6, <2>9 DEF Firm
  <2>11. Kept'
    BY <1>1, <1>3, <2>1, <2>4, <2>8, <2>10 DEF Kept
  <2> QED BY <2>3, <2>11 DEF Rest
<1>8. CASE StartServerOff
  <2>1. /\ Booted("OFF", -1) /\ pc' = "del_boot" /\ dataset' = <<>> /\ disk' = disk
    BY <1>8 DEF StartServerOff, Goto
  <2>2. ~Adopted' /\ ~Ready'
    BY <1>5, <2>1 DEF Adopted, Ready, At, Persisting
  <2>3. Told' /\ Books' /\ Flushed'
    BY <1>1, <1>5, <1>6, <2>1, <2>2 DEF Told, Books, Flushed
  <2>4. SameLive
    BY <1>1, <2>1, SameLiveSame
  <2>5. Unpaid
    BY <1>1, <2>1, <2>2, PromisedOwed DEF Unpaid
  <2> QED BY <1>1, <1>5, <2>1, <2>3, <2>4, <2>5, FilesRest
<1> QED BY <1>4, <1>7, <1>8

-----------------------------------------------------------------------------
(* The invariant holds.                                                    *)

\* Every step keeps what is owed.
LEMMA RestStep ==
    ASSUME LogInv, Rest, Alone, Started, LogInv', Alone', Next, Hypotheses
    PROVE  Rest'
<1>1. PowerSafe /\ AofLoadTruncated /\ "dirfsync" \notin MayFail
  BY DEF Hypotheses
<1>2. CASE Flush
  BY <1>1, <1>2, FlushKeeps
<1>3. CASE Reply \/ StopClose \/ ShutdownFsync
  BY <1>3, ReplyRest, StopRest
<1>4. CASE Start
  BY <1>1, <1>4, TempRest, ControlIdles, StartFilesRest, AdoptRest, StartDoneRest DEF Start
<1>5. CASE Persist
  <2>1. CASE PersistClean \/ PersistSynced \/ PersistError
    BY <1>1, <2>1, ControlIdles
  <2>2. CASE PersistRename
    <3>1. cont \in {"start", "rw", "boot", "del_start", "del_boot"}
      BY <2>2, Typed DEF PersistRename
    <3> QED BY <1>1, <2>2, <3>1, CommitStart, CommitSwitch, CommitBoot, CommitHistory
  <2> QED BY <1>5, <2>1, <2>2 DEF Persist
<1>6. CASE Unlink
  BY <1>1, <1>6, ControlIdles, UnlinkOneRest DEF Unlink
<1>7. CASE Rewrite
  BY <1>1, <1>7, ControlIdles, TempRest, RewriteOpenRest, RewriteSwapRest DEF Rewrite
<1>8. CASE Boot
  BY <1>1, <1>8, ControlIdles, BootBaseRest, BootOpenRest DEF Boot
<1>9. CASE Command
  BY <1>9, ExecuteRest, LoopIdles DEF Command
<1>10. CASE EventLoop
  BY <1>10, LoopIdles DEF EventLoop
<1>11. CASE Environment
  BY <1>1, <1>11, CrashRest, BootRestKept DEF Environment
<1> QED BY <1>2, <1>3, <1>4, <1>5, <1>6, <1>7, <1>8, <1>9, <1>10, <1>11 DEF Next, Running

\* The first state: no files, no log.
LEMMA InitPromiseInv ==
    ASSUME Init
    PROVE  PromiseInv
<1>1. LogInv
  BY InitLogInv
<1>2. /\ pc = "down" /\ disk = <<>> /\ server = FreshServer /\ disk_manifest = EmptyManifest
      /\ aof_manifest = EmptyManifest /\ dataset = <<>> /\ logged = <<>> /\ uncounted = 0 /\ promised = 0
  BY DEF Init
<1>3. /\ FreshServer.aof_state = "OFF" /\ FreshServer.fsynced_reploff_pending = 0
      /\ FreshServer.aof_last_incr_size = 0 /\ FreshServer.aof_last_incr_fsync_offset = 0
      /\ ~FreshServer.aof_rewrite_scheduled
  BY DEF FreshServer
<1>4. ~Ready /\ ~Adopted /\ ~Enabling /\ ~Switching
  BY <1>2, <1>3 DEF Ready, Adopted, Enabling, Switching, At, Persisting
<1>5. Single(EmptyManifest)
  BY DEF Single, EmptyManifest
<1>6. Alone /\ Started /\ Told /\ Books /\ Flushed
  BY <1>2, <1>3, <1>4, <1>5 DEF Alone, Started, Told, Books, Flushed, Persisting, At
<1>7. Kept
  <2>1. PICK m, d, x, p : m = disk_manifest /\ d = disk /\ x = logged /\ p = Owed
    OBVIOUS
  <2>2. Backed(m, d) /\ x \in Image /\ Live(m) = {} /\ x = <<>> /\ Len(x) = 0
    BY <1>1, <1>2, <2>1, Typed, EmptyManifestFiles
  <2>3. p = {0}
    BY <1>2, <1>3, <2>1 DEF Owed, Owes
  <2>4. PICK r : r = LoadAppendOnlyFiles(m, d)
    OBVIOUS
  <2>5. r.ret = "OK" /\ r.ds = <<>>
    <3>1. m.base = 0 /\ m.incr_seq = 0
      BY <1>2, <2>1 DEF EmptyManifest
    <3>2. r = Loaded(Live(m), d, 0, 0)
      BY <2>2, <2>4, <3>1, LoadsAsFold, LoadOrderIs DEF Loaded, Backed
    <3>3. r = LoadNext(Live(m), d, NothingLoaded, Base(0))
      BY <3>2, LoadedNext
    <3>4. r = NothingLoaded
      BY <2>2, <3>3 DEF LoadNext
    <3> QED BY <3>4 DEF NothingLoaded
  <2>6. Exact(m, d)
    BY <2>2 DEF Exact
  <2>7. Begins(r.ds, x)
    BY <2>2, <2>5 DEF Begins
  <2>8. p \in SUBSET Nat /\ \A n \in p : n <= Len(r.ds)
    BY <2>2, <2>3, <2>5
  <2>9. Firm(m, d, x, p)
    BY <2>2, <2>4, <2>5, <2>6, <2>7, <2>8, FirmExact
  <2> QED BY <1>2, <2>1, <2>2, <2>4, <2>5, <2>9 DEF Kept
<1> QED BY <1>1, <1>6, <1>7 DEF PromiseInv

\* PromiseInv is inductive.
LEMMA NextPromiseInv ==
    ASSUME PromiseInv, [Next]_vars, Hypotheses
    PROVE  PromiseInv'
<1>1. LogInv /\ Alone /\ Started /\ Rest
  BY DEF PromiseInv, Rest
<1>2. LogInv'
  BY <1>1, NextLogInv DEF Hypotheses
<1>3. CASE UNCHANGED vars
  <2>1. /\ UNCHANGED <<server, aof_manifest, temp_am, disk, disk_manifest, dataset, uncounted,
                       pc, cont, logged, promised>>
    BY <1>3 DEF vars, memory, control, fs, observed
  <2>2. Alone' /\ Started'
    BY <1>1, <2>1 DEF Alone, Started, Single, NoRewrite, Enabling, Switching, At, Persisting
  <2>3. Told' /\ Books' /\ Flushed'
    BY <1>1, <2>1 DEF Rest, Told, Books, Flushed, Adopted, Ready, At, Persisting, MasterReplOffset
  <2>4. Owed' = Owed
    BY <2>1 DEF Owed, Owes, MasterReplOffset
  <2>5. Kept'
    BY <1>1, <2>1, <2>4 DEF Rest, Kept
  <2> QED BY <1>2, <2>2, <2>3, <2>5 DEF PromiseInv
<1>4. CASE Next
  <2>1. Alone' /\ Started'
    BY <1>1, <1>2, <1>4, AloneStep, StartedStep DEF Hypotheses
  <2>2. Rest'
    BY <1>1, <1>2, <1>4, <2>1, RestStep
  <2> QED BY <1>2, <2>1, <2>2 DEF PromiseInv, Rest
<1> QED BY <1>3, <1>4

\* At every step of every operation, whatever a kill or a power loss would leave
\* of the files loads, as a beginning of the log that has every write reported
\* durable and every write about to be.
THEOREM PromiseInvHolds ==
    ASSUME Hypotheses
    PROVE  Spec => []PromiseInv
  BY InitPromiseInv, NextPromiseInv, PTL DEF Spec

-----------------------------------------------------------------------------
(* Every step is a step of DurableLog.                                     *)

\* The step changes nothing that DurableLog sees.
Unseen ==
    /\ UNCHANGED <<dataset, logged, promised>>
    /\ server'.aof_state = "ON" <=> server.aof_state = "ON"
    /\ pc # "down" /\ pc' # "down"

\* Then it is a stuttering step of DurableLog.
LEMMA UnseenStutters ==
    ASSUME Unseen
    PROVE  UNCHANGED Promises!vars
  BY DEF Unseen, Promises!vars

\* flushAppendOnlyFile, the steps of a start but the last, of a rewrite, of the
\* deletion of files and of a boot.
LEMMA InnerUnseen ==
    ASSUME LogInv,
           \/ Flush \/ ShutdownFsync \/ Unlink \/ Rewrite \/ Boot
           \/ StartOpen \/ StartOpenError \/ StartRewrite \/ StartRenameBase \/ StartRenameIncr
           \/ StartError \/ StartAdopt
    PROVE  Unseen
<1>1. /\ server \in ServerState /\ Starting /\ temp_am.incr_seq \in Nat
      /\ pc \in {"flush", "fsync"} => cont \in FlushReturn
      /\ pc = "unlink" => cont \in {"start_failed", "del_start", "del_boot"}
  BY Typed DEF Inv, WellFormed, Manifest
<1>2. CASE Flush
  <2>1. /\ cont' = cont /\ pc \in {"flush", "fsync"} /\ pc' \in {"fsync", "exit", cont}
        /\ UNCHANGED <<dataset, logged, promised>>
    BY <1>2 DEF Flush, FlushEmpty, FlushWrite, FlushError, FlushShort, FlushFsync,
         FlushFsyncError, WriteError, Goto, memory, observed
  <2>2. server'.aof_state = server.aof_state
    <3>1. CASE \E due \in BOOLEAN : FlushEmpty(due)
      BY <1>1, <3>1 DEF FlushEmpty, ServerState
    <3>2. CASE \E due \in BOOLEAN : FlushWrite(due)
      BY <1>1, <3>2 DEF FlushWrite, ServerState
    <3>3. CASE FlushError
      BY <1>1, <3>3 DEF FlushError, WriteError, ServerState
    <3>4. CASE \E k \in 1 .. Len(server.aof_buf) - 1 : FlushShort(k)
      <4>1. PICK k \in 1 .. Len(server.aof_buf) - 1 : FlushShort(k)
        BY <3>4
      <4>2. k \in Nat
        OBVIOUS
      <4> QED BY <1>1, <4>1, <4>2, FlushShortFields DEF ShortSame
    <3>5. CASE FlushFsync \/ FlushFsyncError
      BY <1>1, <3>5 DEF FlushFsync, FlushFsyncError, ServerState
    <3> QED BY <1>2, <3>1, <3>2, <3>3, <3>4, <3>5 DEF Flush
  <2> QED BY <1>1, <2>1, <2>2 DEF Unseen, FlushReturn
<1>3. CASE ShutdownFsync
  BY <1>3 DEF ShutdownFsync, Goto, memory, observed, Unseen
<1>4. CASE Unlink
  <2>1. server'.aof_state = server.aof_state
    BY <1>1, <1>4 DEF Unlink, UnlinkDone, UnlinkOne, ServerState
  <2> QED BY <1>4, <2>1 DEF Unlink, UnlinkDone, UnlinkOne, Goto, memory, observed, Unseen
<1>5. CASE StartOpen \/ RewriteWait \/ RewriteSwap
  <2>1. /\ pc \in {"start_open", "rw_open", "rw_swap"} /\ pc' \in {"start_rewrite", "idle"}
        /\ UNCHANGED <<dataset, logged, promised>>
    BY <1>5 DEF StartOpen, RewriteWait, RewriteSwap, Goto, memory, observed
  <2>2. ASSUME NEW f \in File, NEW synced \in BOOLEAN, NEW s, s = SwapFd(f, synced),
               \/ server' = s
               \/ server' = [s EXCEPT !.fsynced_reploff_pending = MasterReplOffset, !.fsynced_reploff = 0]
        PROVE  server'.aof_state = server.aof_state
    <3>1. s.aof_state = server.aof_state
      BY <1>1, <2>2, SwapOffsets
    <3>2. s \in ServerState
      BY <1>1, <2>2, SwapFdType, Typed
    <3> QED BY <2>2, <3>1, <3>2 DEF ServerState
  <2>3. TempIncr \in File /\ Incr(temp_am.incr_seq) \in File
    BY <1>1 DEF File, Incr
  <2>4. CASE StartOpen \/ RewriteWait
    <3>1. server'.aof_state = server.aof_state
      BY <2>2, <2>3, <2>4 DEF StartOpen, RewriteWait
    <3> QED BY <2>1, <3>1 DEF Unseen
  <2>5. CASE RewriteSwap
    <3>1. server'.aof_state = server.aof_state
      BY <2>2, <2>3, <2>5 DEF RewriteSwap
    <3> QED BY <2>1, <3>1 DEF Unseen
  <2> QED BY <1>5, <2>4, <2>5
<1>6. CASE RewriteOff \/ RewriteOpen \/ RewriteOpenError
  BY <1>6 DEF RewriteOff, RewriteOpen, RewriteOpenError, Goto, Call, memory, observed, Unseen
<1>7. CASE StartOpenError \/ StartError
  <2>1. pc \in {"start_open", "start_rewrite", "start_rename_base", "start_rename_incr", "start_undo"}
    BY <1>7 DEF StartOpenError, StartError
  <2>2. server.aof_state # "ON"
    BY <1>1, <2>1 DEF Starting
  <2>3. server'.aof_state = "OFF"
    BY <1>1, <1>7 DEF StartOpenError, StartError, ServerState
  <2> QED BY <1>7, <2>1, <2>2, <2>3 DEF StartOpenError, StartError, Goto, UnlinkThen, memory, observed, Unseen
<1>8. CASE StartRewrite \/ StartRenameBase \/ StartRenameIncr \/ StartAdopt
  <2>1. server'.aof_state = server.aof_state
    BY <1>1, <1>8 DEF StartRewrite, StartRenameBase, StartRenameIncr, StartAdopt, ServerState
  <2> QED BY <1>8, <2>1 DEF StartRewrite, StartRenameBase, StartRenameIncr, StartAdopt, Goto, Call,
         UnlinkThen, observed, Unseen
<1>9. CASE Boot
  <2>1. server'.aof_state = server.aof_state
    BY <1>1, <1>9, BootOpenFields DEF Boot, BootBase, BootError, BootDelHistory
  <2> QED BY <1>9, <2>1 DEF Boot, BootBase, BootOpen, BootError, BootDelHistory, Goto, Call,
         UnlinkThen, memory, observed, Unseen
<1> QED BY <1>2, <1>3, <1>4, <1>5, <1>6, <1>7, <1>8, <1>9 DEF Rewrite

\* The event loop and the requests that only start something.
LEMMA LoopUnseen ==
    ASSUME LogInv,
           \/ EventLoop \/ StartAppendOnly \/ StartAppendOnlyInExec \/ StopAppendOnly
           \/ BgRewriteAof \/ BgRewriteAofInExec \/ Shutdown
           \/ PersistClean \/ PersistSynced \/ PersistError
           \/ PersistRename /\ cont # "start"
    PROVE  Unseen
<1>1. /\ server \in ServerState
      /\ pc \in {"persist", "dirfsync"} => cont \in {"start", "rw", "boot", "del_start", "del_boot"}
  BY Typed
<1>2. CASE PersistClean \/ PersistSynced \/ PersistError \/ (PersistRename /\ cont # "start")
  <2>1. /\ UNCHANGED <<server, dataset, logged, promised>> /\ pc \in {"persist", "dirfsync"}
        /\ pc' \in {"dirfsync", AfterPersist[cont], AfterPersistError[cont]}
    BY <1>2 DEF PersistClean, PersistRename, PersistSynced, PersistError, Goto, memory, observed
  <2> QED BY <1>1, <2>1 DEF AfterPersist, AfterPersistError, Unseen
<1>3. CASE EventLoop \/ BgRewriteAof \/ BgRewriteAofInExec \/ StopAppendOnly \/ Shutdown
  <2>1. server'.aof_state = server.aof_state
    BY <1>1, <1>3 DEF EventLoop, BgRewriteAof, BgRewriteAofInExec, StopAppendOnly, Shutdown,
       BeforeSleep, CronFlush, CronRewrite, RewriteBackground, ServerState
  <2> QED BY <1>3, <2>1 DEF EventLoop, BgRewriteAof, BgRewriteAofInExec, StopAppendOnly, Shutdown,
       BeforeSleep, CronFlush, CronRewrite, RewriteBackground, Goto, Call, memory, observed, control, Unseen
<1>4. CASE StartAppendOnly \/ StartAppendOnlyInExec
  <2>1. server.aof_state = "OFF" /\ server'.aof_state = "WAIT_REWRITE"
    BY <1>1, <1>4 DEF StartAppendOnly, StartAppendOnlyInExec, ServerState
  <2> QED BY <1>4, <2>1 DEF StartAppendOnly, StartAppendOnlyInExec, Goto, memory, observed, control, Unseen
<1> QED BY <1>2, <1>3, <1>4

\* A beginning of a sequence is one of its prefixes.
LEMMA BeginsPrefixes ==
    ASSUME NEW X, NEW s \in Seq(X), NEW p \in Seq(X), Begins(p, s)
    PROVE  p \in Promises!Prefixes(s)
<1>1. PICK n : n = Len(p)
  OBVIOUS
<1>2. n \in Nat /\ Len(s) \in Nat /\ n <= Len(s)
  BY <1>1 DEF Begins
<1>3. PICK t : t = SubSeq(s, 1, n)
  OBVIOUS
<1>4. t \in Seq(X) /\ Len(t) = n /\ \A i \in 1 .. n : t[i] = s[i]
  BY <1>2, <1>3
<1>5. \A i \in 1 .. n : t[i] = p[i]
  BY <1>1, <1>4 DEF Begins
<1>6. t = p
  BY <1>1, <1>4, <1>5
<1>7. n \in 0 .. Len(s)
  BY <1>2
<1> QED BY <1>3, <1>6, <1>7 DEF Promises!Prefixes

\* A crash forgets a suffix of the log, and nothing that was promised.
LEMMA CrashCrashes ==
    ASSUME LogInv, Kept, LogInv', Kept', Kill \/ PowerLoss
    PROVE  Promises!Crash
<1>1. /\ UNCHANGED promised /\ pc # "down" /\ pc' = "down" /\ server' = FreshServer
      /\ logged' = Recovered(disk_manifest, disk') /\ dataset' = <<>>
      /\ disk' = disk \/ ("power" \in MayFail /\ disk' \in Survivors)
  BY DEF Kill, PowerLoss, Stop
<1>2. PICK m, d, e, r, x, p : /\ m = disk_manifest /\ d = disk /\ e = disk' /\ r = LoadAppendOnlyFiles(m, e)
                              /\ x = logged /\ p = Owed
  OBVIOUS
<1>3. Backed(m, d) /\ Backed(m, e) /\ Survives(m, d, e, p) /\ Firm(m, d, x, p) /\ x \in Image /\ promised \in p
  BY <1>1, <1>2, CrashLeaves, Typed, PromisedOwed DEF Kept
<1>4. PICK y : y = LoadAppendOnlyFiles(m, d).ds
  OBVIOUS
<1>5. /\ r.ret # "FAILED" /\ r.ds \in Image /\ y \in Image /\ Begins(r.ds, y) /\ Begins(y, x)
      /\ promised <= Len(r.ds)
  BY <1>2, <1>3, <1>4, LoadImage DEF Survives, Firm
<1>6. logged' = r.ds
  BY <1>1, <1>2, <1>3, <1>5 DEF Recovered, Backed
<1>7. Begins(r.ds, x)
  BY <1>3, <1>5, BeginsFacts DEF Image
<1>8. r.ds \in Promises!Prefixes(x)
  BY <1>3, <1>5, <1>7, BeginsPrefixes DEF Image
<1>9. Len(r.ds) >= promised
  <2>1. Len(r.ds) \in Nat /\ promised \in Nat
    BY <1>5, Typed DEF Image
  <2> QED BY <1>5, <2>1
<1>10. FreshServer.aof_state = "OFF"
  BY DEF FreshServer
<1>11. logged' \in {s \in Promises!Prefixes(logged) : Len(s) >= promised}
  BY <1>2, <1>6, <1>8, <1>9
<1>12. server'.aof_state # "ON"
  BY <1>1, <1>10
<1>13. (pc # "down")' = FALSE /\ (server.aof_state = "ON")' = FALSE
  BY <1>1, <1>12
<1> QED BY <1>1, <1>11, <1>13 DEF Promises!Crash

\* The steps that DurableLog sees.
LEMMA SeenSteps ==
    ASSUME LogInv, Rest, LogInv', Rest',
           \/ \E d \in Db : Execute(d)
           \/ Reply \/ StopClose \/ StartDone \/ (PersistRename /\ cont = "start")
           \/ Environment
    PROVE  [Promises!Next]_(Promises!vars)
<1>1. server \in ServerState /\ promised \in Nat /\ Len(logged) \in Nat
  BY Typed
<1>2. CASE \E d \in Db : Execute(d)
  <2>1. PICK d \in Db : Execute(d)
    BY <1>2
  <2>2. PICK w : /\ w = [id |-> bounds.writes + 1, db |-> d]
                 /\ dataset' = Append(dataset, w) /\ server' = Feed(w)
                 /\ logged' = IF server.aof_state = "ON" THEN Append(logged, w) ELSE logged
    BY <2>1 DEF Execute
  <2>3. w \in [id : 1 .. MaxWrites, db : Db]
    <3>1. bounds.writes \in 0 .. MaxWrites /\ bounds.writes < MaxWrites /\ MaxWrites \in Nat
      <4>1. TypeOK
        BY Typed DEF TypeInv
      <4> QED BY <2>1, <4>1, TypeParts, BoundAssumption DEF BoundType, Execute
    <3>2. PICK n : n = bounds.writes + 1
      OBVIOUS
    <3>3. n \in 1 .. MaxWrites
      BY <3>1, <3>2
    <3> QED BY <2>2, <3>2, <3>3
  <2>4. server'.aof_state = server.aof_state
    BY <1>1, <2>2 DEF Feed, ServerState
  <2>5. pc = "idle" /\ pc' = "idle" /\ promised' = promised
    BY <2>1 DEF Execute, control
  <2>6. Promises!Execute(w)
    BY <2>2, <2>4, <2>5 DEF Promises!Execute
  <2> QED BY <2>3, <2>6 DEF Promises!Next
<1>3. CASE Reply
  <2>1. /\ UNCHANGED <<dataset, logged>> /\ pc = "reply" /\ pc' = "idle"
        /\ server' = server \/ \E x : server' = [server EXCEPT !.fsynced_reploff = x]
        /\ promised' = promised \/ \E x : promised' = Reported(x) /\ Reported(x) > promised
    BY <1>3 DEF Reply, Goto, memory
  <2>2. server'.aof_state = server.aof_state
    BY <1>1, <2>1 DEF ServerState
  <2>3. CASE promised' = promised
    BY <2>1, <2>2, <2>3, UnseenStutters DEF Unseen
  <2>4. CASE promised' # promised
    <3>1. promised' > promised
      BY <2>1, <2>4
    <3>2. promised' \in Nat /\ promised' <= Len(logged)
      <4>1. (promised \in Nat /\ promised <= Len(logged))'
        BY Typed, PromisedLogged, PTL DEF Rest
      <4> QED BY <2>1, <4>1
    <3>3. promised' \in promised .. Len(logged)
      BY <1>1, <3>1, <3>2
    <3>4. Promises!Promise
      BY <2>1, <2>2, <2>4, <3>3 DEF Promises!Promise
    <3> QED BY <3>4 DEF Promises!Next
  <2> QED BY <2>3, <2>4
<1>4. CASE StopClose
  <2>1. /\ UNCHANGED <<dataset, logged, promised>> /\ pc = "stop" /\ pc' = "idle" /\ server'.aof_state = "OFF"
    BY <1>4 DEF StopClose, Goto, memory, observed, FreshServer
  <2>2. CASE server.aof_state # "ON"
    BY <2>1, <2>2, UnseenStutters DEF Unseen
  <2>3. CASE server.aof_state = "ON"
    BY <2>1, <2>3 DEF Promises!TurnOff, Promises!Next
  <2> QED BY <2>2, <2>3
<1>5. CASE StartDone
  <2>1. /\ UNCHANGED <<dataset, logged, promised>> /\ pc = "start_done" /\ pc' = "idle"
    BY <1>5 DEF StartDone, Goto, memory, observed
  <2>2. server'.aof_state = "ON"
    BY <1>1, <1>5 DEF StartDone, ServerState
  <2>3. logged = dataset
    BY <2>1 DEF Rest, Told, Adopted
  <2>4. CASE server.aof_state = "ON"
    BY <2>1, <2>2, <2>4, UnseenStutters DEF Unseen
  <2>5. CASE server.aof_state # "ON"
    BY <2>1, <2>2, <2>3, <2>5 DEF Promises!TurnOn, Promises!Next
  <2> QED BY <2>4, <2>5
<1>6. CASE PersistRename /\ cont = "start"
  <2>1. /\ UNCHANGED <<server, dataset>> /\ logged' = dataset /\ promised' = Len(dataset)
        /\ pc = "persist" /\ pc' = "dirfsync"
    BY <1>6 DEF PersistRename, Goto, memory
  <2> QED BY <2>1 DEF Promises!Snapshot, Promises!Next
<1>7. CASE Kill \/ PowerLoss
  BY <1>7, CrashCrashes DEF Rest, Promises!Next
<1>8. CASE StartServer \/ StartServerFatal \/ StartServerOff
  <2>1. pc = "down" /\ UNCHANGED <<logged, promised>>
    BY <1>8 DEF StartServer, StartServerFatal, StartServerOff, Booted, observed
  <2>2. PICK r : r = LoadAppendOnlyFiles(disk_manifest, disk)
    OBVIOUS
  <2>3. r.ret # "FAILED" /\ logged = r.ds
    BY <2>1, <2>2, StartFinds DEF Rest
  <2>4. CASE StartServer
    <3>1. dataset' = logged /\ pc' = "boot_base" /\ server'.aof_state = "ON"
      BY <2>2, <2>3, <2>4 DEF StartServer, Booted, Goto, FreshServer
    <3>2. server.aof_state = "OFF"
      BY <2>1, Typed DEF TypeInv, Down, FreshServer
    <3>3. Promises!Restart
      BY <2>1, <3>1, <3>2 DEF Promises!Restart
    <3> QED BY <3>3 DEF Promises!Next
  <2>5. CASE StartServerOff
    <3>1. dataset' = <<>> /\ pc' = "del_boot" /\ server'.aof_state = "OFF"
      BY <2>5 DEF StartServerOff, Booted, Goto, FreshServer
    <3>2. Promises!Restart
      BY <2>1, <3>1 DEF Promises!Restart
    <3> QED BY <3>2 DEF Promises!Next
  <2>6. ~StartServerFatal
    BY <2>2, <2>3 DEF StartServerFatal
  <2> QED BY <1>8, <2>4, <2>5, <2>6
<1> QED BY <1>2, <1>3, <1>4, <1>5, <1>6, <1>7, <1>8 DEF Environment

\* The first state of the one is the first state of the other.
LEMMA InitRefines ==
    ASSUME Init
    PROVE  Promises!Init
<1>1. FreshServer.aof_state = "OFF"
  BY DEF FreshServer
<1> QED BY <1>1 DEF Init, Promises!Init

\* Every step of RedisAof is a step of DurableLog, or none.
LEMMA NextRefines ==
    ASSUME PromiseInv, PromiseInv', [Next]_vars
    PROVE  [Promises!Next]_(Promises!vars)
<1>1. LogInv /\ Rest /\ LogInv' /\ Rest'
  BY DEF PromiseInv, Rest
<1>2. CASE UNCHANGED vars
  BY <1>2 DEF vars, memory, control, observed, Promises!vars
<1>3. CASE Next
  <2>1. CASE \/ \E d \in Db : Execute(d)
             \/ Reply \/ StopClose \/ StartDone \/ (PersistRename /\ cont = "start")
             \/ Environment
    BY <1>1, <2>1, SeenSteps
  <2>2. CASE \/ Flush \/ ShutdownFsync \/ Unlink \/ Rewrite \/ Boot
             \/ StartOpen \/ StartOpenError \/ StartRewrite \/ StartRenameBase \/ StartRenameIncr
             \/ StartError \/ StartAdopt
    BY <1>1, <2>2, InnerUnseen, UnseenStutters
  <2>3. CASE \/ EventLoop \/ StartAppendOnly \/ StartAppendOnlyInExec \/ StopAppendOnly
             \/ BgRewriteAof \/ BgRewriteAofInExec \/ Shutdown
             \/ PersistClean \/ PersistSynced \/ PersistError
             \/ PersistRename /\ cont # "start"
    BY <1>1, <2>3, LoopUnseen, UnseenStutters
  <2>4. CASE Start
    <3>1. StartDone \/ StartOpen \/ StartOpenError \/ StartRewrite \/ StartRenameBase
          \/ StartRenameIncr \/ StartError \/ StartAdopt
      BY <2>4 DEF Start
    <3> QED BY <2>1, <2>2, <3>1
  <2>5. CASE Persist
    BY <2>1, <2>3, <2>5 DEF Persist
  <2>6. CASE Command
    BY <2>1, <2>3, <2>6 DEF Command
  <2>7. CASE Running
    BY <2>1, <2>2, <2>4, <2>5, <2>7 DEF Running
  <2> QED BY <1>3, <2>1, <2>3, <2>6, <2>7 DEF Next
<1> QED BY <1>2, <1>3

\* The append-only file is a durable log: a write reported durable (by the reply
\* to it under appendfsync always, by WAITAOF, or by the +OK of CONFIG SET
\* appendonly) is found by every later start, whatever was being done when the
\* process was killed or the machine lost power; a crash loses a suffix of the
\* log and nothing else; and a start finds exactly what was left.
THEOREM PromisesAreKept ==
    ASSUME Hypotheses
    PROVE  Spec => KeepsItsPromises
<1>1. Init => Promises!Init
  BY InitRefines
<1>2. PromiseInv /\ PromiseInv' /\ [Next]_vars => [Promises!Next]_(Promises!vars)
  BY NextRefines
<1>3. Spec => []PromiseInv
  BY PromiseInvHolds
<1> QED BY <1>1, <1>2, <1>3, PTL DEF Spec, KeepsItsPromises, Promises!Spec
=============================================================================
