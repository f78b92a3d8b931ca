------------------------- MODULE MisterFilesProofs -------------------------
(***************************************************************************)
(* Proofs about the files of the MiSTer: reads return the block of the     *)
(* file that was opened, names find the right file, writes stay on one     *)
(* image and settings can be written, for any images, directories, names,  *)
(* ids, tables and numbers of descriptors and mishaps.                     *)
(***************************************************************************)
EXTENDS MisterFiles, SequenceTheorems, FiniteSetTheorems, TLAPS

LEMMA Turns == Turn(1) = 1 /\ Turn(2) = 2 /\ Turn(0) = 3
BY DEF Turn, VolOrder

LEMMA ThreeVols == Vols = {0, 1, 2}
BY DEF Vols

LEMMA FileShape ==
    ASSUME NEW p \in Files
    PROVE  /\ p = File(p.vol, p.dir, p.name)
           /\ p.vol \in Vols /\ p.name \in DOMAIN Base /\ p.dir \in STRING
           /\ p \in OnImage(p.vol)
<1>1. PICK v \in Vols : p \in OnImage(v)
  BY DEF Files
<1>2. PICK e \in ToSet(Tree[v]) : p = File(v, e.dir, e.name)
  BY <1>1 DEF OnImage
<1>3. e.name \in DOMAIN Base /\ e.dir \in STRING
  <2>1. Tree[v] \in Seq([dir : STRING, name : DOMAIN Base])
    BY NameAssumption
  <2>2. PICK i \in DOMAIN Tree[v] : e = Tree[v][i]
    BY DEF ToSet
  <2>3. e \in [dir : STRING, name : DOMAIN Base]
    <3> DEFINE S == [dir : STRING, name : DOMAIN Base]
               t == Tree[v]
    <3>1. t \in Seq(S) /\ i \in DOMAIN t /\ e = t[i]
      BY <2>1, <2>2
    <3> HIDE DEF S, t
    <3>2. i \in 1..Len(t)
      BY <3>1
    <3>3. e \in S
      BY <3>1, <3>2, ElementOfSeq
    <3> QED BY <3>3 DEF S
  <2> QED BY <2>3
<1> QED BY <1>1, <1>2, <1>3 DEF File

\* Of the files of a name, no mounted one comes before this one.
Foremost(p, f, r) ==
    \A q \in Files :
        f[q.vol] = "mounted" /\ q.dir \in {"common", r} /\ q.name = p.name
            => q = p \/ Earlier(p, q)

IsFirst(p, m, dirs, n) ==
    /\ p \in Files /\ p.vol \in m /\ p.dir \in dirs /\ p.name = n
    /\ \A q \in Files : q.vol \in m /\ q.dir \in dirs /\ q.name = n
          => q = p \/ Earlier(p, q)

LEMMA FirstPlaceFirst ==
    ASSUME NEW m \in SUBSET Vols, NEW r \in Roots,
           NEW dirs \in SUBSET {"common", r}, NEW n,
           FirstPlace(m, dirs, n) # None
    PROVE  IsFirst(FirstPlace(m, dirs, n), m, dirs, n)
<1> DEFINE p == FirstPlace(m, dirs, n)
<1> DEFINE hits == {q \in Files : q.vol \in m /\ q.dir \in dirs /\ q.name = n}
<1>1. /\ hits # {}
      /\ p = CHOOSE q \in hits : \A s \in hits : s = q \/ Earlier(q, s)
  BY DEF FirstPlace
<1>2. \A q, s \in hits : q.vol = s.vol /\ q.dir = s.dir => q = s
  <2> SUFFICES ASSUME NEW q \in hits, NEW s \in hits, q.vol = s.vol,
                      q.dir = s.dir
               PROVE  q = s
    OBVIOUS
  <2>1. q = File(q.vol, q.dir, q.name) /\ s = File(s.vol, s.dir, s.name)
    BY FileShape
  <2> QED BY <2>1
<1>3. r # "common"
  BY NameAssumption
<1>4. \E q \in hits : \A s \in hits : s = q \/ Earlier(q, s)
  <2>1. PICK q \in hits : \A s \in hits : Turn(q.vol) <= Turn(s.vol)
    <3>1. \A s \in hits : s.vol \in {0, 1, 2}
      BY ThreeVols
    <3>2. CASE \E q \in hits : q.vol = 1
      BY <3>1, <3>2, Turns
    <3>3. CASE (\A q \in hits : q.vol # 1) /\ \E q \in hits : q.vol = 2
      BY <3>1, <3>3, Turns
    <3>4. CASE \A q \in hits : q.vol = 0
      BY <1>1, <3>4, Turns
    <3> QED BY <3>1, <3>2, <3>3, <3>4
  <2>2. \A s \in hits : s.vol = q.vol \/ Turn(q.vol) < Turn(s.vol)
    <3>1. q.vol \in {0, 1, 2} /\ \A s \in hits : s.vol \in {0, 1, 2}
      BY ThreeVols
    <3> HIDE DEF hits
    <3> QED BY <3>1, <2>1, Turns
  <2>3. \A s \in hits : s.vol = q.vol => s.dir \in {"common", r}
    OBVIOUS
  <2>4. CASE \E s \in hits : s.vol = q.vol /\ s.dir = "common"
    <3>1. PICK c \in hits : c.vol = q.vol /\ c.dir = "common"
      BY <2>4
    <3>2. \A s \in hits : s = c \/ Earlier(c, s)
      BY <3>1, <2>2, <1>2 DEF Earlier
    <3> QED BY <3>2
  <2>5. CASE \A s \in hits : s.vol = q.vol => s.dir # "common"
    <3>1. \A s \in hits : s = q \/ Earlier(q, s)
      BY <2>2, <2>3, <2>5, <1>2 DEF Earlier
    <3> QED BY <3>1
  <2> QED BY <2>4, <2>5
<1>5. p \in hits /\ \A s \in hits : s = p \/ Earlier(p, s)
  BY <1>1, <1>4
<1> QED BY <1>5 DEF IsFirst

LEMMA FirstPlaceIs ==
    ASSUME NEW m, m \subseteq Vols, NEW r \in Roots,
           NEW dirs, dirs \subseteq {"common", r}, NEW n,
           NEW p, p = FirstPlace(m, dirs, n), p # None
    PROVE  /\ p \in Files /\ p.vol \in m /\ p.dir \in dirs /\ p.name = n
           /\ 1 \in m /\ p.vol # 1 =>
                 \A dir \in dirs : File(1, dir, n) \notin Files
<1>1. /\ p \in Files /\ p.vol \in m /\ p.dir \in dirs /\ p.name = n
      /\ \A q \in Files : q.vol \in m /\ q.dir \in dirs /\ q.name = n
            => q = p \/ Earlier(p, q)
  <2>1. m \in SUBSET Vols /\ dirs \in SUBSET {"common", r}
    OBVIOUS
  <2>2. IsFirst(p, m, dirs, n)
    BY <2>1, FirstPlaceFirst
  <2> QED BY <2>2 DEF IsFirst
<1>2. ASSUME 1 \in m, p.vol # 1, NEW dir \in dirs, File(1, dir, n) \in Files
      PROVE  FALSE
  <2>1. Earlier(p, File(1, dir, n))
    BY <1>1, <1>2 DEF File
  <2>2. p.vol \in {0, 2}
    BY <1>1, <1>2, ThreeVols
  <2> QED BY <2>1, <2>2, <1>2, Turns DEF Earlier, File
<1> QED BY <1>1, <1>2

LEMMA FreshIs ==
    ASSUME NEW m, m \subseteq Vols, NEW r \in Roots, NEW p \in Fresh(m, r)
    PROVE  /\ p \in Files /\ p.vol \in m /\ p.dir \in {"common", r}
           /\ Base[p.name] = p.name
           /\ 1 \in m /\ p.vol # 1 =>
                 \A dir \in {"common", r} : File(1, dir, p.name) \notin Files
           /\ \A q \in Fresh(m, r) : q.name = p.name => q.vol = p.vol
           /\ \A q \in Files :
                 /\ q.vol \in m /\ q.dir \in {"common", r} /\ q.name = p.name
                    => ~(Turn(q.vol) < Turn(p.vol))
<1>1. \A q \in Fresh(m, r) :
         /\ ~Shadowed(m, r, q)
         /\ \E v \in m : q \in Listed(v, r)
  BY DEF Fresh
<1>2. \A v \in m : \A q : q \in Listed(v, r) =>
         /\ q \in Files /\ q.vol = v /\ q.dir \in {"common", r}
         /\ Base[q.name] = q.name /\ q.name # "app.elf"
  BY DEF Listed, Files, OnImage, File
<1>3. \A q \in Fresh(m, r) :
         /\ q \in Files /\ q.vol \in m /\ q.dir \in {"common", r}
         /\ Base[q.name] = q.name /\ q.name # "app.elf"
         /\ q \in Listed(q.vol, r)
  BY <1>1, <1>2
<1>4. ASSUME NEW q \in Fresh(m, r), q.name = p.name
      PROVE  q.vol = p.vol
  <2>1. ~(Turn(q.vol) < Turn(p.vol)) /\ ~(Turn(p.vol) < Turn(q.vol))
    BY <1>1, <1>3, <1>4 DEF Shadowed
  <2>2. q.vol \in {0, 1, 2} /\ p.vol \in {0, 1, 2}
    BY <1>3, ThreeVols
  <2> QED BY <2>1, <2>2, Turns
<1>5. ASSUME 1 \in m, p.vol # 1, NEW dir \in {"common", r},
             File(1, dir, p.name) \in Files
      PROVE  FALSE
  <2> DEFINE q == File(1, dir, p.name)
  <2>1. q.vol = 1 /\ q.name = p.name /\ q.dir = dir
    BY DEF File
  <2>2. q \in OnImage(1)
    BY <1>5, <2>1, FileShape
  <2>3. q \in Listed(1, r)
    BY <2>1, <2>2, <1>3 DEF Listed
  <2>4. p.vol \in {0, 2}
    BY <1>3, <1>5, ThreeVols
  <2>5. Turn(1) < Turn(p.vol)
    BY <2>4, Turns
  <2> QED BY <1>1, <1>5, <2>1, <2>3, <2>5 DEF Shadowed
<1>6. ASSUME NEW q \in Files, q.vol \in m, q.dir \in {"common", r},
             q.name = p.name
      PROVE  ~(Turn(q.vol) < Turn(p.vol))
  <2>1. q \in Listed(q.vol, r)
    BY <1>3, <1>6, FileShape DEF Listed
  <2> QED BY <1>1, <1>6, <2>1 DEF Shadowed
<1> QED BY <1>3, <1>4, <1>5, <1>6

---------------------------------------------------------------------------
States == {"unmounted", "mounted", "failed"}
IsView(v) ==
    \E r \in Roots, f \in [Vols -> States], o \in Seq(Files),
       c \in Seq(DOMAIN Base) :
        /\ Len(o) <= OvfCount /\ Len(c) <= CfgCount
        /\ v = ViewOf(r, f, o, c)

LEMMA FieldsOfView ==
    ASSUME NEW r, NEW f, NEW o, NEW c
    PROVE  LET v == ViewOf(r, f, o, c) IN
           /\ v.root = r /\ v.fs = f /\ v.ovf = o /\ v.cfg = c
           /\ v.dyn = Enumerated[MountedOf(f)][r]
           /\ v.find = Found[MountedOf(f)][r]
           /\ v.app = Shared[MountedOf(f)]
BY DEF ViewOf

LEMMA DynIs ==
    ASSUME NEW v, IsView(v), NEW i \in DOMAIN v.dyn
    PROVE  /\ i \in DOMAIN DynIds
           /\ v.dyn[i] \in Fresh(MountedOf(v.fs), v.root)
           /\ \A j \in DOMAIN v.dyn : v.dyn[j] = v.dyn[i] => j = i
<1>1. PICK r \in Roots, f \in [Vols -> States] :
         v.fs = f /\ v.root = r /\ v.dyn = Enumerated[MountedOf(f)][r]
  BY FieldsOfView DEF IsView
<1> DEFINE m == MountedOf(f)
           D == {Rank(m, r, p) : p \in Fresh(m, r)} \cap DOMAIN DynIds
<1>2. m \in SUBSET Vols
  BY DEF MountedOf
<1>3. v.dyn = [k \in D |-> CHOOSE p \in Fresh(m, r) : Rank(m, r, p) = k]
  BY <1>1, <1>2 DEF Enumerated
<1>4. \A k \in D : \E p \in Fresh(m, r) : Rank(m, r, p) = k
  OBVIOUS
<1> HIDE DEF m
<1>5. \A k \in D : v.dyn[k] \in Fresh(m, r) /\ Rank(m, r, v.dyn[k]) = k
  BY <1>3, <1>4
<1>6. DOMAIN v.dyn = D
  BY <1>3
<1> QED BY <1>1, <1>5, <1>6 DEF m

LEMMA FindIs ==
    ASSUME NEW v, IsView(v), NEW n \in DOMAIN Base, v.find[n] # None
    PROVE  LET p == v.find[n] IN
           /\ p \in Files /\ p.name = n /\ v.fs[p.vol] = "mounted"
           /\ v.fs[1] = "mounted" /\ p.vol # 1 =>
                 \A dir \in {"common", v.root} : File(1, dir, n) \notin Files
           /\ Foremost(p, v.fs, v.root)
<1>1. PICK r \in Roots, f \in [Vols -> States] :
         v.fs = f /\ v.root = r /\ v.find = Found[MountedOf(f)][r]
  BY FieldsOfView DEF IsView
<1>2. MountedOf(f) \in SUBSET Vols
  BY DEF MountedOf
<1>3. v.find[n] = FirstPlace(MountedOf(f), {"common", r}, n)
  BY <1>1, <1>2 DEF Found
<1>4. 1 \in Vols
  BY ThreeVols
<1>5. Foremost(v.find[n], v.fs, v.root)
  <2> DEFINE p == v.find[n]
             m == MountedOf(f)
             dirs == {"common", r}
  <2>1. p = FirstPlace(m, dirs, n) /\ p # None /\ m \in SUBSET Vols
        /\ dirs \in SUBSET {"common", r}
    BY <1>2, <1>3
  <2>2. \A u \in Vols : u \in m <=> f[u] = "mounted"
    BY DEF MountedOf, Mounted
  <2> HIDE DEF p, m, dirs
  <2>3. /\ p.name = n
        /\ \A q \in Files : q.vol \in m /\ q.dir \in dirs /\ q.name = n
              => q = p \/ Earlier(p, q)
    BY <2>1, FirstPlaceFirst DEF IsFirst
  <2>4. \A q \in Files : q.vol \in Vols
    BY FileShape
  <2>5. Foremost(p, f, r)
    BY <2>2, <2>3, <2>4 DEF Foremost, dirs
  <2> QED BY <1>1, <2>5 DEF p
<1>6. LET p == v.find[n] IN
      /\ p \in Files /\ p.name = n /\ v.fs[p.vol] = "mounted"
      /\ v.fs[1] = "mounted" /\ p.vol # 1 =>
            \A dir \in {"common", v.root} : File(1, dir, n) \notin Files
  BY <1>1, <1>2, <1>3, <1>4, FirstPlaceIs DEF MountedOf, Mounted
<1> QED BY <1>5, <1>6

LEMMA AppIs ==
    ASSUME NEW v, IsView(v), NEW i \in DOMAIN FixedRead, v.app[i] # None
    PROVE  LET p == v.app[i] IN
           /\ p \in Files /\ p.name = FixedRead[i] /\ p.dir = "common"
           /\ v.fs[1] = "mounted" /\ p.vol # 1 =>
                 File(1, "common", p.name) \notin Files
<1>1. PICK r \in Roots, f \in [Vols -> States] :
         v.fs = f /\ v.root = r /\ v.app = Shared[MountedOf(f)]
  BY FieldsOfView DEF IsView
<1>2. MountedOf(f) \in SUBSET Vols
  BY DEF MountedOf
<1>3. v.app[i] = FirstPlace(MountedOf(f), {"common"}, FixedRead[i])
  BY <1>1, <1>2 DEF Shared
<1>4. 1 \in Vols
  BY ThreeVols
<1> QED BY <1>1, <1>2, <1>3, <1>4, FirstPlaceIs DEF MountedOf, Mounted

LEMMA ViewTypes ==
    ASSUME NEW v, IsView(v)
    PROVE  /\ v.root \in Roots /\ v.fs \in [Vols -> States]
           /\ v.ovf \in Seq(Files) /\ Len(v.ovf) <= OvfCount
           /\ v.cfg \in Seq(DOMAIN Base) /\ Len(v.cfg) <= CfgCount
           /\ v = ViewOf(v.root, v.fs, v.ovf, v.cfg)
BY FieldsOfView DEF IsView

\* The ids of a view do not overlap.
LEMMA IdsApart ==
    ASSUME NEW v, IsView(v)
    PROVE  /\ \A i \in DOMAIN v.dyn :
                /\ DynIds[i] \in 1..OvfBase - 1
                /\ DynIds[i] \notin DOMAIN FixedNv \cup DOMAIN FixedRead
                /\ \A j \in DOMAIN v.dyn : DynIds[i] = DynIds[j] => i = j
           /\ \A i \in DOMAIN FixedNv \cup DOMAIN FixedRead :
                i \in 1..OvfBase - 1
           /\ DOMAIN FixedNv \cap DOMAIN FixedRead = {}
           /\ \A i \in OvfIds(v.ovf) :
                /\ i \in OvfBase..CfgBase - 1
                /\ i - OvfBase + 1 \in DOMAIN v.ovf
           /\ \A i \in CfgIds(v.cfg) :
                /\ i \in CfgBase..CfgBase + CfgCount - 1
                /\ i - CfgBase + 1 \in DOMAIN v.cfg
           /\ OvfBase \in Nat /\ CfgBase \in Nat /\ OvfBase <= CfgBase
           /\ CfgCount \in Nat /\ OvfCount \in Nat
<1>1. OvfBase \in Nat /\ CfgBase \in Nat /\ OvfBase + OvfCount <= CfgBase
      /\ OvfCount \in Nat /\ CfgCount \in Nat /\ DynIds \in Seq(Nat)
  BY IdAssumption
<1>2. ASSUME NEW i \in DOMAIN v.dyn
      PROVE  /\ DynIds[i] \in 1..OvfBase - 1
             /\ DynIds[i] \notin DOMAIN FixedNv \cup DOMAIN FixedRead
  <2>1. i \in DOMAIN DynIds
    BY DynIs
  <2>2. DynIds[i] \in ToSet(DynIds)
    BY <2>1 DEF ToSet
  <2> QED BY <2>2, IdAssumption DEF FixedIds
<1>3. ASSUME NEW i \in DOMAIN v.dyn, NEW j \in DOMAIN v.dyn,
             DynIds[i] = DynIds[j]
      PROVE  i = j
  <2>1. i \in DOMAIN DynIds /\ j \in DOMAIN DynIds
    BY DynIs
  <2>2. i \in Nat /\ j \in Nat /\ DynIds[i] \in Nat
    BY <2>1, <1>1
  <2>3. ~(i < j) /\ ~(j < i)
    BY <2>1, <2>2, <1>3, IdAssumption
  <2> QED BY <2>2, <2>3
<1>4. \A i \in DOMAIN FixedNv \cup DOMAIN FixedRead : i \in 1..OvfBase - 1
  BY IdAssumption DEF FixedIds
<1>5. ASSUME NEW i \in OvfIds(v.ovf)
      PROVE  i \in OvfBase..CfgBase - 1 /\ i - OvfBase + 1 \in DOMAIN v.ovf
  <2>1. PICK k \in DOMAIN v.ovf : i = OvfBase + k - 1
    BY DEF OvfIds
  <2> DEFINE n == Len(v.ovf)
  <2>2. n \in Nat /\ n <= OvfCount /\ DOMAIN v.ovf = 1..n
    BY ViewTypes
  <2> HIDE DEF n
  <2> QED BY <2>1, <2>2, <1>1
<1>6. ASSUME NEW i \in CfgIds(v.cfg)
      PROVE  /\ i \in CfgBase..CfgBase + CfgCount - 1
             /\ i - CfgBase + 1 \in DOMAIN v.cfg
  <2>1. PICK k \in DOMAIN v.cfg : i = CfgBase + k - 1
    BY DEF CfgIds
  <2> DEFINE n == Len(v.cfg)
  <2>2. n \in Nat /\ n <= CfgCount /\ DOMAIN v.cfg = 1..n
    BY ViewTypes
  <2> HIDE DEF n
  <2> QED BY <2>1, <2>2, <1>1
<1>7. OvfBase <= CfgBase
  BY <1>1
<1> QED BY <1>1, <1>2, <1>3, <1>4, <1>5, <1>6, <1>7, IdAssumption

\* What slot_path returns, by the kind of the id.
IsDyn(v, id) == \E i \in DOMAIN v.dyn : DynIds[i] = id

LEMMA KindsApart ==
    ASSUME NEW v, IsView(v), NEW id
    PROVE  /\ id \in DOMAIN FixedNv =>
                /\ id \notin DOMAIN FixedRead /\ id \notin CfgIds(v.cfg)
                /\ id \notin OvfIds(v.ovf) /\ ~IsDyn(v, id)
           /\ id \in DOMAIN FixedRead =>
                /\ id \notin CfgIds(v.cfg) /\ id \notin OvfIds(v.ovf)
                /\ ~IsDyn(v, id)
           /\ id \in CfgIds(v.cfg) => id \notin OvfIds(v.ovf) /\ ~IsDyn(v, id)
           /\ id \in OvfIds(v.ovf) => ~IsDyn(v, id)
<1>1. IsDyn(v, id) => /\ id \in 1..OvfBase - 1
                      /\ id \notin DOMAIN FixedNv \cup DOMAIN FixedRead
  BY IdsApart DEF IsDyn
<1>2. id \in OvfIds(v.ovf) => id \in OvfBase..CfgBase - 1
  BY IdsApart
<1>3. id \in CfgIds(v.cfg) => id \in CfgBase..CfgBase + CfgCount - 1
  BY IdsApart
<1>4. id \in DOMAIN FixedNv \cup DOMAIN FixedRead => id \in 1..OvfBase - 1
  BY IdsApart
<1>5. DOMAIN FixedNv \cap DOMAIN FixedRead = {}
  BY IdsApart
<1>6. OvfBase \in Nat /\ CfgBase \in Nat /\ OvfBase <= CfgBase
      /\ CfgCount \in Nat
  BY IdsApart
<1> QED BY <1>1, <1>2, <1>3, <1>4, <1>5, <1>6

LEMMA PathIs ==
    ASSUME NEW v, IsView(v), NEW id
    PROVE  /\ id \in DOMAIN FixedNv =>
                Path(v, id) = File(NvVolume(v.fs), v.root, FixedNv[id])
           /\ id \in DOMAIN FixedRead => Path(v, id) = v.app[id]
           /\ id \in CfgIds(v.cfg) =>
                Path(v, id) = File(NvVolume(v.fs), v.root,
                                   v.cfg[id - CfgBase + 1])
           /\ id \in OvfIds(v.ovf) => Path(v, id) = v.ovf[id - OvfBase + 1]
           /\ \A i \in DOMAIN v.dyn : DynIds[i] = id => Path(v, id) = v.dyn[i]
           /\ \/ id \in DOMAIN FixedNv \cup DOMAIN FixedRead
              \/ id \in CfgIds(v.cfg) \cup OvfIds(v.ovf)
              \/ IsDyn(v, id)
              \/ Path(v, id) = None
<1>1. id \in DOMAIN FixedNv =>
         Path(v, id) = File(NvVolume(v.fs), v.root, FixedNv[id])
  BY KindsApart DEF Path, IsDyn
<1>2. id \in DOMAIN FixedRead => Path(v, id) = v.app[id]
  BY KindsApart DEF Path, IsDyn
<1>3. id \in CfgIds(v.cfg) =>
         Path(v, id) = File(NvVolume(v.fs), v.root, v.cfg[id - CfgBase + 1])
  BY KindsApart DEF Path, IsDyn
<1>4. id \in OvfIds(v.ovf) => Path(v, id) = v.ovf[id - OvfBase + 1]
  BY KindsApart DEF Path, IsDyn
<1>5. ASSUME NEW i \in DOMAIN v.dyn, DynIds[i] = id
      PROVE  Path(v, id) = v.dyn[i]
  <2>1. IsDyn(v, id)
    BY <1>5 DEF IsDyn
  <2>2. Path(v, id) = v.dyn[CHOOSE k \in DOMAIN v.dyn : DynIds[k] = id]
    BY <2>1, KindsApart DEF Path, IsDyn
  <2>3. \A k \in DOMAIN v.dyn : DynIds[k] = id => k = i
    BY <1>5, IdsApart
  <2>4. (CHOOSE k \in DOMAIN v.dyn : DynIds[k] = id) = i
    BY <2>3, <1>5
  <2> QED BY <2>2, <2>4
<1>6. \/ id \in DOMAIN FixedNv \cup DOMAIN FixedRead
      \/ id \in CfgIds(v.cfg) \cup OvfIds(v.ovf)
      \/ IsDyn(v, id)
      \/ Path(v, id) = None
  BY DEF Path, IsDyn
<1> QED BY <1>1, <1>2, <1>3, <1>4, <1>5, <1>6

\* What was bound stays bound when more is.
Extended(o, p) == p = o \/ \E x : p = Append(o, x)
Grown(v, w) ==
    /\ IsView(v) /\ IsView(w) /\ w.root = v.root /\ w.fs = v.fs
    /\ Extended(v.ovf, w.ovf) /\ Extended(v.cfg, w.cfg)

LEMMA ExtendedIs ==
    ASSUME NEW S, NEW o \in Seq(S), NEW p \in Seq(S), Extended(o, p)
    PROVE  \A i \in DOMAIN o : i \in DOMAIN p /\ p[i] = o[i]
BY DEF Extended

LEMMA SameFields ==
    ASSUME NEW v, NEW w, Grown(v, w)
    PROVE  v.dyn = w.dyn /\ v.find = w.find /\ v.app = w.app
<1>1. v = ViewOf(v.root, v.fs, v.ovf, v.cfg)
  BY ViewTypes DEF Grown
<1>2. w = ViewOf(v.root, v.fs, w.ovf, w.cfg)
  BY ViewTypes DEF Grown
<1>3. /\ v.dyn = Enumerated[MountedOf(v.fs)][v.root]
      /\ v.find = Found[MountedOf(v.fs)][v.root]
      /\ v.app = Shared[MountedOf(v.fs)]
  BY <1>1 DEF ViewOf
<1>4. /\ w.dyn = Enumerated[MountedOf(v.fs)][v.root]
      /\ w.find = Found[MountedOf(v.fs)][v.root]
      /\ w.app = Shared[MountedOf(v.fs)]
  BY <1>2 DEF ViewOf
<1> QED BY <1>3, <1>4

LEMMA PathKept ==
    ASSUME NEW v, NEW w, Grown(v, w), NEW id
    PROVE  /\ Path(v, id) # None => Path(w, id) = Path(v, id)
           /\ NvSupported(v.cfg, id) => NvSupported(w.cfg, id)
<1>1. IsView(v) /\ IsView(w) /\ w.root = v.root /\ w.fs = v.fs
  BY DEF Grown
<1>2. \A i \in DOMAIN v.cfg : i \in DOMAIN w.cfg /\ w.cfg[i] = v.cfg[i]
  BY <1>1, ViewTypes, ExtendedIs DEF Grown
<1>3. \A i \in DOMAIN v.ovf : i \in DOMAIN w.ovf /\ w.ovf[i] = v.ovf[i]
  BY <1>1, ViewTypes, ExtendedIs DEF Grown
<1>4. id \in CfgIds(v.cfg) => id \in CfgIds(w.cfg)
  BY <1>2 DEF CfgIds
<1>5. id \in OvfIds(v.ovf) => id \in OvfIds(w.ovf)
  BY <1>3 DEF OvfIds
<1>6. CASE id \in DOMAIN FixedNv
  BY <1>1, <1>6, PathIs DEF NvSupported
<1>7. CASE id \in DOMAIN FixedRead
  BY <1>1, <1>4, <1>7, PathIs, SameFields DEF NvSupported
<1>8. CASE id \in CfgIds(v.cfg)
  <2>1. id - CfgBase + 1 \in DOMAIN v.cfg
    BY <1>1, <1>8, IdsApart
  <2>2. w.cfg[id - CfgBase + 1] = v.cfg[id - CfgBase + 1]
    BY <2>1, <1>2
  <2> QED BY <1>1, <1>4, <1>8, <2>2, PathIs DEF NvSupported
<1>9. CASE id \in OvfIds(v.ovf)
  <2>1. id - OvfBase + 1 \in DOMAIN v.ovf
    BY <1>1, <1>9, IdsApart
  <2>2. w.ovf[id - OvfBase + 1] = v.ovf[id - OvfBase + 1]
    BY <2>1, <1>3
  <2> QED BY <1>1, <1>4, <1>5, <1>9, <2>2, PathIs DEF NvSupported
<1>10. CASE IsDyn(v, id)
  <2>1. PICK i \in DOMAIN v.dyn : DynIds[i] = id
    BY <1>10 DEF IsDyn
  <2>2. Path(v, id) = v.dyn[i]
    BY <1>1, <2>1, PathIs
  <2>3. v.dyn = w.dyn
    BY SameFields
  <2>4. Path(w, id) = w.dyn[i]
    BY <1>1, <2>1, <2>3, PathIs
  <2> QED BY <1>4, <2>2, <2>3, <2>4 DEF NvSupported
<1>11. CASE Path(v, id) = None
  BY <1>4, <1>11 DEF NvSupported
<1> QED BY <1>1, <1>6, <1>7, <1>8, <1>9, <1>10, <1>11, PathIs

---------------------------------------------------------------------------
\* Sequences: what is left when elements go.
PartOf(s, t) ==
    \E f \in [DOMAIN s -> DOMAIN t] :
        /\ \A i \in DOMAIN s : s[i] = t[f[i]]
        /\ \A i, j \in DOMAIN s : f[i] = f[j] => i = j

LEMMA PartOfPart ==
    ASSUME NEW s, NEW t, NEW u, PartOf(s, t), PartOf(t, u)
    PROVE  PartOf(s, u)
<1>1. PICK f \in [DOMAIN s -> DOMAIN t] :
        /\ \A i \in DOMAIN s : s[i] = t[f[i]]
        /\ \A i, j \in DOMAIN s : f[i] = f[j] => i = j
  BY DEF PartOf
<1>2. PICK g \in [DOMAIN t -> DOMAIN u] :
        /\ \A i \in DOMAIN t : t[i] = u[g[i]]
        /\ \A i, j \in DOMAIN t : g[i] = g[j] => i = j
  BY DEF PartOf
<1> DEFINE h == [i \in DOMAIN s |-> g[f[i]]]
<1>3. h \in [DOMAIN s -> DOMAIN u]
  BY <1>1, <1>2
<1>4. \A i \in DOMAIN s : s[i] = u[h[i]]
  BY <1>1, <1>2
<1>5. \A i, j \in DOMAIN s : h[i] = h[j] => i = j
  BY <1>1, <1>2
<1> QED BY <1>3, <1>4, <1>5 DEF PartOf

LEMMA PartOfSelf ==
    ASSUME NEW s
    PROVE  PartOf(s, s)
<1> DEFINE h == [i \in DOMAIN s |-> i]
<1>1. /\ h \in [DOMAIN s -> DOMAIN s] /\ \A i \in DOMAIN s : s[i] = s[h[i]]
      /\ \A i, j \in DOMAIN s : h[i] = h[j] => i = j
  OBVIOUS
<1> QED BY <1>1 DEF PartOf

LEMMA RemoveAtIs ==
    ASSUME NEW S, NEW s \in Seq(S), NEW i \in DOMAIN s
    PROVE  /\ RemoveAt(s, i) \in Seq(S)
           /\ Len(RemoveAt(s, i)) = Len(s) - 1
           /\ \A k \in 1..Len(s) - 1 :
                RemoveAt(s, i)[k] = IF k < i THEN s[k] ELSE s[k + 1]
<1> DEFINE n == Len(s)
           a == SubSeq(s, 1, i - 1)
           b == SubSeq(s, i + 1, n)
<1>1. n \in Nat /\ i \in 1..n /\ \A k \in 1..n : s[k] \in S
  OBVIOUS
<1>2. /\ a \in Seq(S) /\ Len(a) = i - 1
      /\ \A k \in 1..i - 1 : a[k] = s[k]
  <2>1. i - 1 \in Nat /\ i - 1 <= n
    BY <1>1
  <2> QED BY <1>1, <2>1, SubSeqProperties
<1>3. /\ b \in Seq(S) /\ Len(b) = n - i
      /\ \A k \in 1..n - i : b[k] = s[i + k]
  BY <1>1, SubSeqProperties
<1>4. RemoveAt(s, i) = a \o b
  BY DEF RemoveAt
<1> HIDE DEF a, b
<1>5. /\ a \o b \in Seq(S) /\ Len(a \o b) = Len(a) + Len(b)
      /\ \A k \in 1..Len(a) + Len(b) :
            (a \o b)[k] = IF k <= Len(a) THEN a[k] ELSE b[k - Len(a)]
  <2>1. a \in Seq(S) /\ b \in Seq(S)
    BY <1>2, <1>3
  <2> QED BY <2>1, ConcatProperties
<1>6. Len(a) + Len(b) = n - 1 /\ Len(a \o b) = n - 1
  BY <1>1, <1>2, <1>3, <1>5
<1>7. ASSUME NEW k \in 1..n - 1
      PROVE  (a \o b)[k] = IF k < i THEN s[k] ELSE s[k + 1]
  <2>1. (a \o b)[k] = IF k <= Len(a) THEN a[k] ELSE b[k - Len(a)]
    BY <1>5, <1>6
  <2>2. CASE k < i
    BY <1>1, <1>2, <2>1, <2>2
  <2>3. CASE ~(k < i)
    <3>1. k - (i - 1) \in 1..n - i
      BY <1>1, <2>3
    <3>2. b[k - (i - 1)] = s[i + (k - (i - 1))]
      BY <3>1, <1>3
    <3>3. i + (k - (i - 1)) = k + 1
      BY <1>1
    <3> QED BY <1>1, <1>2, <2>1, <2>3, <3>2, <3>3
  <2> QED BY <2>2, <2>3
<1> QED BY <1>4, <1>5, <1>6, <1>7

LEMMA RemovedPart ==
    ASSUME NEW S, NEW s \in Seq(S), NEW i \in DOMAIN s
    PROVE  /\ PartOf(RemoveAt(s, i), s)
           /\ \A j \in DOMAIN RemoveAt(s, i) :
                \E k \in DOMAIN s : k # i /\ RemoveAt(s, i)[j] = s[k]
<1> DEFINE n == Len(s)
           r == RemoveAt(s, i)
<1>1. n \in Nat /\ i \in 1..n /\ DOMAIN s = 1..n
  OBVIOUS
<1>2. /\ DOMAIN r = 1..n - 1
      /\ \A k \in 1..n - 1 : r[k] = IF k < i THEN s[k] ELSE s[k + 1]
  BY RemoveAtIs
<1> HIDE DEF r, n
<1> DEFINE h == [k \in DOMAIN r |-> IF k < i THEN k ELSE k + 1]
<1>3. h \in [DOMAIN r -> DOMAIN s]
  BY <1>1, <1>2
<1>4. \A k \in DOMAIN r : r[k] = s[h[k]] /\ h[k] # i
  BY <1>1, <1>2
<1>5. \A k, j \in DOMAIN r : h[k] = h[j] => k = j
  BY <1>1, <1>2
<1>6. PartOf(r, s)
  BY <1>3, <1>4, <1>5 DEF PartOf
<1>7. \A j \in DOMAIN r : \E k \in DOMAIN s : k # i /\ r[j] = s[k]
  BY <1>3, <1>4
<1> QED BY <1>6, <1>7 DEF r

LEMMA TailPart ==
    ASSUME NEW S, NEW s \in Seq(S), s # <<>>
    PROVE  Tail(s) \in Seq(S) /\ Len(Tail(s)) = Len(s) - 1 /\ PartOf(Tail(s), s)
<1> DEFINE n == Len(s)
           r == Tail(s)
<1>1. n \in Nat \ {0} /\ DOMAIN s = 1..n
  OBVIOUS
<1>2. /\ r \in Seq(S) /\ Len(r) = n - 1 /\ DOMAIN r = 1..n - 1
      /\ \A k \in 1..n - 1 : r[k] = s[k + 1]
  OBVIOUS
<1> HIDE DEF r, n
<1> DEFINE h == [k \in DOMAIN r |-> k + 1]
<1>3. /\ h \in [DOMAIN r -> DOMAIN s] /\ \A k \in DOMAIN r : r[k] = s[h[k]]
      /\ \A k, j \in DOMAIN r : h[k] = h[j] => k = j
  BY <1>1, <1>2
<1>4. PartOf(r, s)
  BY <1>3 DEF PartOf
<1> QED BY <1>2, <1>4 DEF r, n

---------------------------------------------------------------------------
\* The handles that are kept: FatFs' rule on open files, and each on the file
\* of its id.
Handle == [id : Int, path : Files, wr : BOOLEAN, bad : BOOLEAN]
Lawful(fl) ==
    \A i, j \in DOMAIN fl : i # j =>
        /\ fl[i].id # fl[j].id
        /\ fl[i].path = fl[j].path => ~fl[i].wr /\ ~fl[j].wr
OnTheirFiles(v, fl) == \A i \in DOMAIN fl : fl[i].path = Path(v, fl[i].id)
FilOK(v, fl) ==
    /\ fl \in Seq(Handle) /\ Len(fl) <= FilSlots
    /\ Lawful(fl) /\ OnTheirFiles(v, fl)
Shrunk(s, fl) == s \in Seq(Handle) /\ Len(s) <= Len(fl) /\ PartOf(s, fl)

LEMMA FilPart ==
    ASSUME NEW v, NEW fl, FilOK(v, fl), NEW s, Shrunk(s, fl)
    PROVE  FilOK(v, s)
<1>1. PICK f \in [DOMAIN s -> DOMAIN fl] :
        /\ \A i \in DOMAIN s : s[i] = fl[f[i]]
        /\ \A i, j \in DOMAIN s : f[i] = f[j] => i = j
  BY DEF Shrunk, PartOf
<1>2. Lawful(s)
  BY <1>1 DEF Lawful, FilOK
<1>3. OnTheirFiles(v, s)
  BY <1>1 DEF OnTheirFiles, FilOK
<1>4. Len(s) <= FilSlots
  <2> DEFINE a == Len(s)
             b == Len(fl)
  <2>1. a \in Nat /\ b \in Nat /\ a <= b /\ b <= FilSlots /\ FilSlots \in Nat
    BY BoundAssumption DEF Shrunk, FilOK
  <2> HIDE DEF a, b
  <2> QED BY <2>1 DEF a
<1> QED BY <1>2, <1>3, <1>4 DEF FilOK, Shrunk

LEMMA ShrunkMore ==
    ASSUME NEW s, NEW t, NEW u, Shrunk(s, t), Shrunk(t, u),
           u \in Seq(Handle)
    PROVE  Shrunk(s, u)
<1> DEFINE a == Len(s)
           b == Len(t)
           c == Len(u)
<1>1. a \in Nat /\ b \in Nat /\ c \in Nat /\ a <= b /\ b <= c
  BY DEF Shrunk
<1> HIDE DEF a, b, c
<1>2. a <= c
  BY <1>1
<1> QED BY <1>2, PartOfPart DEF Shrunk, a, c

LEMMA WithoutIs ==
    ASSUME NEW v, NEW fl, FilOK(v, fl), NEW id
    PROVE  /\ Shrunk(Without(fl, id), fl)
           /\ \A i \in DOMAIN Without(fl, id) : Without(fl, id)[i].id # id
           /\ (\E i \in DOMAIN fl : fl[i].id = id)
                => Len(Without(fl, id)) = Len(fl) - 1
<1>1. fl \in Seq(Handle) /\ Len(fl) \in Nat
  BY DEF FilOK
<1>2. CASE ~\E i \in DOMAIN fl : fl[i].id = id
  <2>1. Without(fl, id) = fl
    BY <1>2 DEF Without
  <2> QED BY <1>1, <1>2, <2>1, PartOfSelf DEF Shrunk
<1>3. CASE \E i \in DOMAIN fl : fl[i].id = id
  <2>1. PICK i \in DOMAIN fl : /\ fl[i].id = id
                              /\ Without(fl, id) = RemoveAt(fl, i)
    BY <1>3 DEF Without
  <2> DEFINE r == RemoveAt(fl, i)
  <2>2. r \in Seq(Handle) /\ Len(r) = Len(fl) - 1
    BY <1>1, RemoveAtIs
  <2>3. PartOf(r, fl)
        /\ \A j \in DOMAIN r : \E k \in DOMAIN fl : k # i /\ r[j] = fl[k]
    BY <1>1, RemovedPart
  <2> HIDE DEF r
  <2>4. \A j \in DOMAIN r : r[j].id # id
    BY <2>1, <2>3 DEF FilOK, Lawful
  <2>5. Len(r) <= Len(fl)
    BY <1>1, <2>2
  <2> QED BY <2>1, <2>2, <2>3, <2>4, <2>5 DEF r, Shrunk
<1> QED BY <1>2, <1>3

LEMMA DropIs ==
    ASSUME NEW v, NEW fl, FilOK(v, fl), NEW ids
    PROVE  /\ Shrunk(Drop(fl, ids), fl)
           /\ (\A a \in ids : \E b \in ids : ids \subseteq {a, b}) =>
                \A i \in DOMAIN Drop(fl, ids) : Drop(fl, ids)[i].id \notin ids
<1>1. fl \in Seq(Handle) /\ Shrunk(fl, fl)
  BY PartOfSelf DEF FilOK, Shrunk
<1>2. CASE ids = {}
  BY <1>1, <1>2 DEF Drop
<1>3. CASE ids # {}
  <2> DEFINE a == CHOOSE a \in ids : TRUE
             b == CHOOSE b \in ids : ids \subseteq {a, b}
             s == Without(fl, a)
             t == Without(s, b)
  <2>1. Drop(fl, ids) = t /\ a \in ids
    BY <1>3 DEF Drop
  <2>2. (\A c \in ids : \E d \in ids : ids \subseteq {c, d})
           => ids \subseteq {a, b}
    BY <2>1
  <2> HIDE DEF a, b
  <2>3. Shrunk(s, fl) /\ \A i \in DOMAIN s : s[i].id # a
    BY WithoutIs
  <2>4. FilOK(v, s)
    BY <2>3, FilPart
  <2>5. Shrunk(t, s) /\ \A i \in DOMAIN t : t[i].id # b
    BY <2>4, WithoutIs
  <2>6. Shrunk(t, fl)
    BY <1>1, <2>3, <2>5, ShrunkMore
  <2>7. \A i \in DOMAIN t : \E j \in DOMAIN s : t[i] = s[j]
    BY <2>5 DEF Shrunk, PartOf
  <2> HIDE DEF s, t
  <2> QED BY <2>1, <2>2, <2>3, <2>5, <2>6, <2>7
<1> QED BY <1>2, <1>3

LEMMA FilAppend ==
    ASSUME NEW v, NEW s, FilOK(v, s), NEW h \in Handle,
           Len(s) < FilSlots, h.path = Path(v, h.id),
           \A i \in DOMAIN s :
              /\ s[i].id # h.id
              /\ s[i].path = h.path => ~s[i].wr /\ ~h.wr
    PROVE  /\ FilOK(v, Append(s, h)) /\ Append(s, h) # <<>>
           /\ Last(Append(s, h)) = h
<1> DEFINE n == Len(s)
           t == Append(s, h)
<1>1. s \in Seq(Handle) /\ n \in Nat /\ n < FilSlots /\ FilSlots \in Nat
      /\ DOMAIN s = 1..n
  BY BoundAssumption DEF FilOK
<1>2. /\ t \in Seq(Handle) /\ Len(t) = n + 1 /\ DOMAIN t = 1..n + 1
      /\ \A i \in 1..n : t[i] = s[i]
      /\ t[n + 1] = h
  BY <1>1
<1>3. Last(t) = h /\ t # <<>>
  BY <1>1, <1>2 DEF Last
<1> HIDE DEF n, t
<1>4. Len(t) <= FilSlots
  BY <1>1, <1>2
<1>5. \A i \in DOMAIN t : (i \in DOMAIN s /\ t[i] = s[i])
                            \/ (i = n + 1 /\ t[i] = h)
  BY <1>1, <1>2
<1>6. Lawful(t)
  BY <1>5 DEF Lawful, FilOK
<1>7. OnTheirFiles(v, t)
  BY <1>5 DEF OnTheirFiles, FilOK
<1> QED BY <1>2, <1>3, <1>4, <1>6, <1>7 DEF FilOK, t

\* open_slot_impl
LEMMA EvictedIs ==
    ASSUME NEW v, NEW fl, FilOK(v, fl), NEW id
    PROVE  /\ Shrunk(Evicted(v, fl, id), fl)
           /\ Len(Evicted(v, fl, id)) < FilSlots
           /\ \A i \in DOMAIN Evicted(v, fl, id) :
                Evicted(v, fl, id)[i].id # id
<1> DEFINE held == \E e \in ToSet(fl) : e.id = id
           rest == IF held THEN Without(fl, id)
                   ELSE IF HasRoom(fl) THEN fl ELSE Tail(fl)
           ev == Evicted(v, fl, id)
           n == Len(fl)
<1>1. fl \in Seq(Handle) /\ n \in Nat /\ n <= FilSlots
      /\ FilSlots \in Nat \ {0} /\ Shrunk(fl, fl)
  BY BoundAssumption, PartOfSelf DEF FilOK, Shrunk
<1>2. held <=> \E i \in DOMAIN fl : fl[i].id = id
  BY DEF ToSet
<1>3. /\ Shrunk(rest, fl) /\ Len(rest) < FilSlots
      /\ \A i \in DOMAIN rest : rest[i].id # id
  <2>1. CASE held
    <3>1. Len(Without(fl, id)) = n - 1 /\ rest = Without(fl, id)
      BY <1>2, <2>1, WithoutIs
    <3>2. n - 1 < FilSlots
      BY <1>1
    <3> QED BY <3>1, <3>2, WithoutIs
  <2>2. CASE ~held /\ HasRoom(fl)
    BY <1>1, <1>2, <2>2 DEF HasRoom
  <2>3. CASE ~held /\ ~HasRoom(fl)
    <3>1. n = FilSlots /\ fl # <<>>
      BY <1>1, <2>3 DEF HasRoom
    <3>2. Tail(fl) \in Seq(Handle) /\ Len(Tail(fl)) = n - 1
          /\ PartOf(Tail(fl), fl)
      BY <1>1, <3>1, TailPart
    <3>3. n - 1 < FilSlots /\ n - 1 <= n
      BY <1>1
    <3>4. rest = Tail(fl)
      BY <2>3
    <3>5. \A i \in DOMAIN Tail(fl) : Tail(fl)[i].id # id
      BY <3>2, <1>2, <2>3 DEF PartOf
    <3> HIDE DEF rest
    <3> QED BY <3>2, <3>3, <3>4, <3>5 DEF Shrunk
  <2> QED BY <2>1, <2>2, <2>3
<1>4. \/ ev = rest
      \/ \E ids : ev = Drop(rest, ids)
  BY DEF Evicted
<1> HIDE DEF rest, ev
<1>5. FilOK(v, rest)
  BY <1>3, FilPart
<1>6. Shrunk(ev, rest)
  BY <1>4, <1>5, DropIs, PartOfSelf DEF FilOK, Shrunk
<1>7. Len(ev) < FilSlots
  <2> DEFINE a == Len(ev)
             b == Len(rest)
  <2>1. a \in Nat /\ b \in Nat /\ a <= b /\ b < FilSlots
    BY <1>3, <1>6 DEF Shrunk
  <2> HIDE DEF a, b
  <2>2. a < FilSlots
    BY <2>1, <1>1
  <2> QED BY <2>2 DEF a
<1>8. \A i \in DOMAIN ev : ev[i].id # id
  BY <1>3, <1>6 DEF Shrunk, PartOf
<1>9. Shrunk(ev, fl)
  BY <1>1, <1>3, <1>6, ShrunkMore
<1> QED BY <1>7, <1>8, <1>9 DEF ev

\* What an open leaves, and what it returns: a handle on the file of the id.
LEMMA OpenFilIs ==
    ASSUME NEW v, IsView(v), NEW fl, FilOK(v, fl), NEW id \in Int,
           NEW wr \in BOOLEAN, NEW r, r = OpenFil(v, fl, id, wr)
    PROVE  /\ FilOK(v, r.fil) /\ r.ok \in BOOLEAN
           /\ r.ok => /\ r.fil # <<>> /\ Last(r.fil).id = id
                      /\ Last(r.fil).path = Path(v, id)
                      /\ Path(v, id) \in Files
<1> DEFINE hit == {e \in ToSet(fl) : e.id = id}
<1>1. fl \in Seq(Handle) /\ \A i \in DOMAIN fl : fl[i] \in Handle
  BY DEF FilOK
<1>2. CASE \E e \in hit : e.wr \/ ~wr
  <2> DEFINE h == CHOOSE e \in hit : TRUE
             s == Without(fl, id)
  <2>1. r = [ok |-> TRUE, fil |-> Append(s, h)]
    BY <1>2 DEF OpenFil
  <2>2. h \in hit
    BY <1>2
  <2>3. PICK k \in DOMAIN fl : h = fl[k] /\ h.id = id
    BY <2>2 DEF ToSet
  <2> HIDE DEF h
  <2>4. /\ Shrunk(s, fl) /\ \A i \in DOMAIN s : s[i].id # id
        /\ Len(s) = Len(fl) - 1
    BY <2>3, WithoutIs
  <2>5. Len(s) < FilSlots
    <3> DEFINE n == Len(fl)
    <3>1. n \in Nat /\ n <= FilSlots /\ FilSlots \in Nat /\ Len(s) = n - 1
      BY <2>4, BoundAssumption DEF FilOK
    <3> HIDE DEF n, s
    <3> QED BY <3>1
  <2> HIDE DEF s
  <2>6. FilOK(v, s)
    BY <2>4, FilPart
  <2>7. h.path = Path(v, id) /\ h \in Handle
    BY <2>3, <1>1 DEF FilOK, OnTheirFiles
  <2>8. \A i \in DOMAIN s : s[i].path = h.path => ~s[i].wr /\ ~h.wr
    <3>1. \A i \in DOMAIN s : \E j \in DOMAIN fl : s[i] = fl[j]
      BY <2>4 DEF Shrunk, PartOf
    <3>2. \A j \in DOMAIN fl : fl[j].id # id /\ fl[j].path = h.path
             => ~fl[j].wr /\ ~h.wr
      BY <2>3 DEF FilOK, Lawful
    <3> QED BY <3>1, <3>2, <2>4
  <2>9. FilOK(v, Append(s, h)) /\ Append(s, h) # <<>>
        /\ Last(Append(s, h)) = h
    BY <2>3, <2>4, <2>5, <2>6, <2>7, <2>8, FilAppend
  <2>10. r.ok = TRUE /\ r.fil = Append(s, h)
    BY <2>1
  <2>11. h.path \in Files
    BY <2>7 DEF Handle
  <2> QED BY <2>3, <2>7, <2>9, <2>10, <2>11
<1>3. CASE ~\E e \in hit : e.wr \/ ~wr
  <2> DEFINE path == Path(v, id)
             room == Evicted(v, fl, id)
             locked == \E e \in ToSet(room) : e.path = path /\ (wr \/ e.wr)
             h == [id |-> id, path |-> path, wr |-> wr, bad |-> FALSE]
  <2>1. r = OpenAt(v, fl, id, wr, path, room)
    BY <1>3 DEF OpenFil
  <2>2. /\ Shrunk(room, fl) /\ Len(room) < FilSlots
        /\ \A i \in DOMAIN room : room[i].id # id
    BY EvictedIs
  <2> HIDE DEF room
  <2>3. FilOK(v, room)
    BY <2>2, FilPart
  <2>4. CASE path = None
    <3>1. r = [ok |-> FALSE, fil |-> fl]
      BY <2>1, <2>4 DEF OpenAt
    <3> QED BY <3>1
  <2>5. CASE path # None /\ (locked \/ ~Exists(v.fs, path))
    BY <2>1, <2>3, <2>5 DEF OpenAt
  <2>6. CASE path # None /\ ~(locked \/ ~Exists(v.fs, path))
    <3>1. r = [ok |-> TRUE, fil |-> Append(room, h)]
      BY <2>1, <2>6 DEF OpenAt
    <3>2. path \in Files
      BY <2>6 DEF Exists
    <3>3. h \in Handle /\ h.id = id /\ h.path = path /\ h.wr = wr
      BY <3>2 DEF Handle
    <3> HIDE DEF h
    <3>4. \A i \in DOMAIN room : room[i].path = h.path
             => ~room[i].wr /\ ~h.wr
      BY <2>6, <3>3 DEF ToSet
    <3>5. FilOK(v, Append(room, h)) /\ Append(room, h) # <<>>
          /\ Last(Append(room, h)) = h
      BY <2>2, <2>3, <3>3, <3>4, FilAppend
    <3>6. r.ok = TRUE /\ r.fil = Append(room, h)
      BY <3>1
    <3> QED BY <3>2, <3>3, <3>5, <3>6
  <2> QED BY <2>4, <2>5, <2>6
<1> QED BY <1>2, <1>3

LEMMA SpoiltIs ==
    ASSUME NEW v, NEW fl, FilOK(v, fl), fl # <<>>
    PROVE  FilOK(v, Spoilt(fl))
<1> DEFINE n == Len(fl)
           h == [fl[n] EXCEPT !.bad = TRUE]
           a == SubSeq(fl, 1, n - 1)
           t == a \o <<h>>
<1>1. fl \in Seq(Handle) /\ n \in Nat \ {0} /\ DOMAIN fl = 1..n
      /\ \A k \in 1..n : fl[k] \in Handle
  BY DEF FilOK
<1>2. /\ h \in Handle /\ h.id = fl[n].id /\ h.path = fl[n].path
      /\ h.wr = fl[n].wr
  <2> DEFINE g == fl[n]
  <2>1. g \in Handle
    BY <1>1
  <2> HIDE DEF g
  <2>2. [g EXCEPT !.bad = TRUE] \in Handle
        /\ [g EXCEPT !.bad = TRUE].id = g.id
        /\ [g EXCEPT !.bad = TRUE].path = g.path
        /\ [g EXCEPT !.bad = TRUE].wr = g.wr
    BY <2>1 DEF Handle
  <2> QED BY <2>2 DEF g
<1>3. /\ a \in Seq(Handle) /\ Len(a) = n - 1
      /\ \A k \in 1..n - 1 : a[k] = fl[k]
  BY <1>1, SubSeqProperties
<1>4. Spoilt(fl) = t
  BY DEF Spoilt, Front, Last
<1> HIDE DEF a, h
<1>5. /\ t \in Seq(Handle) /\ Len(t) = n /\ DOMAIN t = 1..n
      /\ \A k \in 1..n : t[k] = IF k <= n - 1 THEN a[k] ELSE h
  <2>1. <<h>> \in Seq(Handle) /\ Len(<<h>>) = 1 /\ <<h>>[1] = h
    BY <1>2
  <2> DEFINE b == <<h>>
  <2> HIDE DEF b
  <2>2. b \in Seq(Handle) /\ Len(b) = 1 /\ b[1] = h
    BY <2>1 DEF b
  <2>3. /\ a \o b \in Seq(Handle) /\ Len(a \o b) = Len(a) + Len(b)
        /\ \A k \in 1..Len(a) + Len(b) :
              (a \o b)[k] = IF k <= Len(a) THEN a[k] ELSE b[k - Len(a)]
    BY <1>3, <2>2, ConcatProperties
  <2>4. Len(a) = n - 1 /\ Len(a) + Len(b) = n
    BY <1>1, <1>3, <2>2
  <2>5. \A k \in 1..n : (a \o b)[k] = IF k <= n - 1 THEN a[k] ELSE h
    BY <1>1, <2>2, <2>3, <2>4
  <2>6. DOMAIN (a \o b) = 1..n
    BY <2>3, <2>4
  <2> QED BY <2>3, <2>4, <2>5, <2>6 DEF b
<1> HIDE DEF t
<1>6. \A k \in 1..n : /\ t[k].id = fl[k].id /\ t[k].path = fl[k].path
                      /\ t[k].wr = fl[k].wr
  <2> SUFFICES ASSUME NEW k \in 1..n
               PROVE  /\ t[k].id = fl[k].id /\ t[k].path = fl[k].path
                      /\ t[k].wr = fl[k].wr
    OBVIOUS
  <2> HIDE DEF n
  <2>1. CASE k <= n - 1
    <3>1. k \in 1..n - 1
      BY <2>1
    <3> QED BY <3>1, <1>3, <1>5
  <2>2. CASE ~(k <= n - 1)
    <3>1. k = n /\ t[k] = h
      BY <1>1, <1>5, <2>2
    <3> QED BY <3>1, <1>2
  <2> QED BY <2>1, <2>2
<1>7. Lawful(t)
  BY <1>1, <1>5, <1>6 DEF Lawful, FilOK
<1>8. OnTheirFiles(v, t)
  BY <1>1, <1>5, <1>6 DEF OnTheirFiles, FilOK
<1>9. Len(t) <= FilSlots
  BY <1>5 DEF FilOK
<1> QED BY <1>4, <1>5, <1>7, <1>8, <1>9 DEF FilOK

\* The handles and the memo stay true to a view that grows.
MemoOK(v, m) ==
    /\ m \in [id : Int, size : -1..Cap]
    /\ m.size > 0 => Path(v, m.id) # None

LEMMA FilKept ==
    ASSUME NEW v, NEW w, Grown(v, w), NEW fl, FilOK(v, fl)
    PROVE  FilOK(w, fl)
<1>1. ASSUME NEW i \in DOMAIN fl
      PROVE  fl[i].path # None /\ fl[i].path = Path(v, fl[i].id)
  <2>1. fl[i] \in Handle
    BY DEF FilOK
  <2>2. fl[i].path \in Files
    BY <2>1 DEF Handle
  <2> QED BY <2>2, NameAssumption DEF FilOK, OnTheirFiles
<1> QED BY <1>1, PathKept DEF FilOK, OnTheirFiles

LEMMA MemoKept ==
    ASSUME NEW v, NEW w, Grown(v, w), NEW m, MemoOK(v, m)
    PROVE  MemoOK(w, m)
BY PathKept DEF MemoOK

LEMMA TextLenIs ==
    ASSUME NEW p
    PROVE  TextLen(p) \in 0..Cap
<1> DEFINE T == {n \in 1..Cap : \A i \in 1..n : data[p][i] # Blank}
<1>1. Cap \in Nat
  BY BoundAssumption
<1>2. IsFiniteSet(1..Cap) /\ Cardinality(1..Cap) = Cap
  <2> DEFINE one == 1
  <2>1. one \in Int
    OBVIOUS
  <2>2. IsFiniteSet(one..Cap)
        /\ Cardinality(one..Cap) = IF one > Cap THEN 0 ELSE Cap - one + 1
    BY <1>1, FS_Interval
  <2> QED BY <1>1, <2>2
<1>3. T \subseteq 1..Cap
  OBVIOUS
<1> DEFINE U == 1..Cap
<1> HIDE DEF T, U
<1>4. IsFiniteSet(T) /\ Cardinality(T) <= Cardinality(U)
  BY <1>2, <1>3, FS_Subset DEF U
<1>5. Cardinality(T) \in Nat
  BY <1>4, FS_CardinalityType
<1>6. Cardinality(T) \in 0..Cap
  BY <1>1, <1>2, <1>4, <1>5 DEF U
<1>7. TextLen(p) = Cap \/ TextLen(p) = Cardinality(T)
  BY DEF TextLen, T
<1> QED BY <1>1, <1>6, <1>7

LEMMA SizeOfIs ==
    ASSUME NEW v, IsView(v), NEW fl, FilOK(v, fl), NEW m, MemoOK(v, m),
           NEW id \in Int, NEW s, s = SizeOf(v, fl, m, id)
    PROVE  /\ FilOK(v, s.fil) /\ MemoOK(v, s.memo)
           /\ s.size \in -1..Cap /\ (s.size > 0 => Path(v, id) # None)
<1> DEFINE path == Path(v, id)
           r == OpenFil(v, fl, id, FALSE)
           text == IF Usable(r) THEN TextLen(Last(r.fil).path) ELSE 0
           size == IF id \in CfgIds(v.cfg) THEN IF text > 0 THEN text ELSE -1
                   ELSE IF path # None /\ Exists(v.fs, path) THEN Cap ELSE -1
<1>1. CASE m.id = id
  <2>1. s = [size |-> m.size, fil |-> fl, memo |-> m]
    BY <1>1 DEF SizeOf
  <2> QED BY <2>1, <1>1 DEF MemoOK
<1>2. CASE m.id # id
  <2>1. s = [size |-> size, memo |-> [id |-> id, size |-> size],
             fil |-> IF id \in CfgIds(v.cfg) THEN r.fil ELSE fl]
    BY <1>2 DEF SizeOf, SizeFrom
  <2>2. FilOK(v, r.fil) /\ (r.ok => path \in Files)
    BY OpenFilIs
  <2>3. text \in 0..Cap /\ (text > 0 => r.ok) /\ Cap \in Nat \ {0}
    <3> DEFINE t == TextLen(Last(r.fil).path)
    <3>1. t \in 0..Cap
      BY TextLenIs
    <3>2. Cap \in Nat \ {0}
      BY BoundAssumption
    <3> HIDE DEF t, r
    <3>3. Usable(r) => r.ok
      BY DEF Usable
    <3>4. text = IF Usable(r) THEN t ELSE 0
      BY DEF t
    <3> HIDE DEF text
    <3> QED BY <3>1, <3>2, <3>3, <3>4
  <2> HIDE DEF text, r, path
  <2>4. size \in -1..Cap /\ (size > 0 => path # None)
    BY <2>2, <2>3, NameAssumption
  <2> HIDE DEF size
  <2>5. MemoOK(v, [id |-> id, size |-> size])
    BY <2>4 DEF MemoOK, path
  <2> QED BY <2>1, <2>2, <2>4, <2>5 DEF path
<1> QED BY <1>1, <1>2

---------------------------------------------------------------------------
\* A view is a record that changes by field.
LEMMA WithOvf ==
    ASSUME NEW r, NEW f, NEW o, NEW c, NEW x
    PROVE  [ViewOf(r, f, o, c) EXCEPT !.ovf = x] = ViewOf(r, f, x, c)
BY DEF ViewOf

LEMMA WithCfg ==
    ASSUME NEW r, NEW f, NEW o, NEW c, NEW x
    PROVE  [ViewOf(r, f, o, c) EXCEPT !.cfg = x] = ViewOf(r, f, o, x)
BY DEF ViewOf

\* The names that were bound: each once, and the instance's image first.
NotOnFirst(r, n) == \A dir \in {"common", r} : File(1, dir, n) \notin Files
Shaded(v) ==
    \A i \in DOMAIN v.ovf :
        v.fs[1] = "mounted" /\ v.ovf[i].vol # 1
            => NotOnFirst(v.root, v.ovf[i].name)
OvfOnce(v) == \A i, j \in DOMAIN v.ovf : v.ovf[i].name = v.ovf[j].name => i = j
Leading(v) == \A i \in DOMAIN v.ovf : Foremost(v.ovf[i], v.fs, v.root)
CfgOnce(v) == \A i, j \in DOMAIN v.cfg : v.cfg[i] = v.cfg[j] => i = j
CfgFlat(v) == \A i \in DOMAIN v.cfg : Base[v.cfg[i]] = v.cfg[i]
NamesOK(v) == Shaded(v) /\ Leading(v) /\ OvfOnce(v) /\ CfgOnce(v) /\ CfgFlat(v)

\* of_file_config_slot
LEMMA ConfigSlotIs ==
    ASSUME NEW v, IsView(v), NamesOK(v), NEW n \in DOMAIN Base, Base[n] = n,
           NEW s, s = ConfigSlot(v, n)
    PROVE  /\ s.cfg \in Seq(DOMAIN Base) /\ Len(s.cfg) <= CfgCount
           /\ Extended(v.cfg, s.cfg) /\ s.id \in Int
           /\ s.id = NotFound => s.cfg = v.cfg
           /\ s.id # NotFound => /\ s.id \in CfgIds(s.cfg)
                                 /\ s.cfg[s.id - CfgBase + 1] = n
           /\ \A i, j \in DOMAIN s.cfg : s.cfg[i] = s.cfg[j] => i = j
           /\ \A i \in DOMAIN s.cfg : Base[s.cfg[i]] = s.cfg[i]
<1> DEFINE c == v.cfg
           held == {i \in DOMAIN c : c[i] = n}
           k == Len(c)
<1>1. c \in Seq(DOMAIN Base) /\ k \in Nat /\ k <= CfgCount
      /\ DOMAIN c = 1..k /\ CfgBase \in Nat /\ CfgCount \in Nat
  BY ViewTypes, IdsApart
<1>2. /\ \A i, j \in DOMAIN c : c[i] = c[j] => i = j
      /\ \A i \in DOMAIN c : Base[c[i]] = c[i]
  BY DEF NamesOK, CfgOnce, CfgFlat
<1>3. NotFound \in Int /\ NotFound < 0
  BY DEF NotFound
<1>4. CASE s = [id |-> NotFound, cfg |-> c]
  BY <1>1, <1>2, <1>3, <1>4 DEF Extended
<1>5. CASE held # {} /\ s = [id |-> CfgBase + (CHOOSE i \in held : TRUE) - 1,
                             cfg |-> c]
  <2> DEFINE i == CHOOSE i \in held : TRUE
  <2>1. i \in DOMAIN c /\ c[i] = n /\ i \in Nat \ {0}
    BY <1>1, <1>5
  <2>2. s.id = CfgBase + i - 1 /\ s.cfg = c
    BY <1>5
  <2> HIDE DEF i
  <2>3. s.id \in CfgIds(c) /\ s.id \in Int /\ s.id - CfgBase + 1 = i
    BY <1>1, <2>1, <2>2 DEF CfgIds
  <2>4. s.id # NotFound
    BY <1>1, <1>3, <2>1, <2>2
  <2>5. c[s.id - CfgBase + 1] = n
    BY <2>1, <2>3
  <2>6. Extended(c, c)
    BY DEF Extended
  <2> QED BY <1>1, <1>2, <2>2, <2>3, <2>4, <2>5, <2>6
<1>6. CASE /\ held = {} /\ Len(c) # CfgCount
           /\ s = [id |-> CfgBase + Len(c), cfg |-> Append(c, n)]
  <2> DEFINE e == Append(c, n)
  <2>1. /\ e \in Seq(DOMAIN Base) /\ Len(e) = k + 1 /\ DOMAIN e = 1..k + 1
        /\ \A i \in 1..k : e[i] = c[i]
        /\ e[k + 1] = n
    BY <1>1
  <2>2. s.id = CfgBase + k /\ s.cfg = e
    BY <1>6
  <2>3. Extended(c, e)
    BY DEF Extended
  <2>4. \A i \in 1..k : c[i] # n
    BY <1>1, <1>6
  <2> HIDE DEF e, k
  <2>5. Len(e) <= CfgCount
    BY <1>1, <1>6, <2>1 DEF k
  <2>6. \A i, j \in DOMAIN e : e[i] = e[j] => i = j
    BY <1>1, <1>2, <2>1, <2>4
  <2>7. \A i \in DOMAIN e : Base[e[i]] = e[i]
    BY <1>1, <1>2, <2>1
  <2>8. s.id \in CfgIds(e) /\ s.id \in Int /\ s.id - CfgBase + 1 = k + 1
    <3>1. k + 1 \in DOMAIN e /\ s.id = CfgBase + (k + 1) - 1
      BY <1>1, <2>1, <2>2
    <3> QED BY <1>1, <2>2, <3>1 DEF CfgIds
  <2>9. s.id # NotFound
    BY <1>1, <2>2, <1>3
  <2> QED BY <2>1, <2>2, <2>3, <2>5, <2>6, <2>7, <2>8, <2>9
<1> DEFINE none == \/ n \in {"shared.cfg", "duke3d.cfg"}
                   \/ held = {} /\ Len(c) = CfgCount
                   \/ /\ held = {}
                      /\ ~Exists(v.fs, File(NvVolume(v.fs), v.root, n))
<1>7. CASE none
  BY <1>4, <1>7 DEF ConfigSlot
<1>8. CASE ~none /\ held # {}
  <2>1. s = [id |-> CfgBase + (CHOOSE i \in held : TRUE) - 1, cfg |-> c]
    BY <1>8 DEF ConfigSlot
  <2> QED BY <1>5, <1>8, <2>1
<1>9. CASE ~none /\ held = {}
  <2>1. s = [id |-> CfgBase + Len(c), cfg |-> Append(c, n)]
    BY <1>9 DEF ConfigSlot
  <2> QED BY <1>6, <1>9, <2>1
<1> QED BY <1>7, <1>8, <1>9

\* A lookup returns an id whose file has the name and is not shadowed by the
\* instance's image.
NameFound(w, id, n) ==
    LET p == Path(w, id) IN
    p = None \/ /\ p.name = n
                /\ w.fs[1] = "mounted" /\ p.vol # 1 =>
                      \A dir \in ReadDirs(w.root, n) :
                          File(1, dir, n) \notin Files

LEMMA FewerDirs ==
    ASSUME NEW r, NEW n
    PROVE  /\ ReadDirs(r, n) \subseteq {"common", r}
           /\ NotOnFirst(r, n) =>
                \A dir \in ReadDirs(r, n) : File(1, dir, n) \notin Files
BY DEF ReadDirs, NotOnFirst

LEMMA ViewIs ==
    ASSUME NEW v, IsView(v), NEW o \in Seq(Files), Len(o) <= OvfCount,
           NEW c \in Seq(DOMAIN Base), Len(c) <= CfgCount,
           NEW w, w = ViewOf(v.root, v.fs, o, c),
           Extended(v.ovf, o), Extended(v.cfg, c)
    PROVE  IsView(w) /\ Grown(v, w) /\ w.ovf = o /\ w.cfg = c
           /\ w.root = v.root /\ w.fs = v.fs
<1>1. v.root \in Roots /\ v.fs \in [Vols -> States]
  BY ViewTypes
<1>2. w.root = v.root /\ w.fs = v.fs /\ w.ovf = o /\ w.cfg = c
  BY FieldsOfView
<1>3. IsView(w)
  BY <1>1 DEF IsView
<1> QED BY <1>2, <1>3 DEF Grown

LEMMA DynIdIs ==
    ASSUME NEW v, IsView(v), NEW n
    PROVE  \/ /\ DynId(v, n) = NotFound
              /\ \A i \in DOMAIN v.dyn : v.dyn[i].name # n
           \/ \E i \in DOMAIN v.dyn : /\ v.dyn[i].name = n
                                      /\ DynId(v, n) = DynIds[i]
                                      /\ DynIds[i] \in Nat \ {0}
<1> DEFINE hits == {i \in DOMAIN v.dyn : v.dyn[i].name = n}
           first == {i \in hits : v.dyn[i].dir = "common"}
<1>1. CASE first # {}
  <2> DEFINE i == CHOOSE i \in first : TRUE
  <2>1. i \in first /\ DynId(v, n) = DynIds[i]
    BY <1>1 DEF DynId
  <2> HIDE DEF i
  <2>2. DynIds[i] \in Nat \ {0}
    BY <2>1, IdsApart
  <2> QED BY <2>1, <2>2
<1>2. CASE first = {} /\ hits # {}
  <2> DEFINE i == CHOOSE i \in hits : TRUE
  <2>1. i \in hits /\ DynId(v, n) = DynIds[i]
    BY <1>2 DEF DynId
  <2> HIDE DEF i
  <2>2. DynIds[i] \in Nat \ {0}
    BY <2>1, IdsApart
  <2> QED BY <2>1, <2>2
<1>3. CASE hits = {}
  <2>1. first = {}
    BY <1>3
  <2>2. DynId(v, n) = NotFound
    BY <1>3, <2>1 DEF DynId
  <2> QED BY <1>3, <2>2
<1> QED BY <1>1, <1>2, <1>3

LEMMA DynFound ==
    ASSUME NEW v, IsView(v), NEW i \in DOMAIN v.dyn
    PROVE  /\ Path(v, DynIds[i]) = v.dyn[i] /\ v.dyn[i] \in Files
           /\ Base[v.dyn[i].name] = v.dyn[i].name
           /\ NameFound(v, DynIds[i], v.dyn[i].name)
<1> DEFINE p == v.dyn[i]
           m == MountedOf(v.fs)
<1>1. p \in Fresh(m, v.root) /\ m \subseteq Vols /\ v.root \in Roots
  BY DynIs, ViewTypes DEF MountedOf
<1>2. Path(v, DynIds[i]) = p
  BY PathIs
<1>3. 1 \in m <=> v.fs[1] = "mounted"
  BY ThreeVols DEF MountedOf, Mounted
<1> HIDE DEF p, m
<1>4. /\ p \in Files /\ Base[p.name] = p.name
      /\ 1 \in m /\ p.vol # 1 => NotOnFirst(v.root, p.name)
  <2> DEFINE r == v.root
  <2>1. m \subseteq Vols /\ r \in Roots /\ p \in Fresh(m, r)
    BY <1>1
  <2> HIDE DEF r
  <2>2. /\ p \in Files /\ Base[p.name] = p.name
        /\ 1 \in m /\ p.vol # 1 =>
              \A dir \in {"common", r} : File(1, dir, p.name) \notin Files
    BY <2>1, FreshIs
  <2> QED BY <2>2 DEF NotOnFirst, r
<1>5. NameFound(v, DynIds[i], p.name)
  BY <1>2, <1>3, <1>4, FewerDirs DEF NameFound
<1> QED BY <1>2, <1>4, <1>5 DEF p

LEMMA ResolveIs ==
    ASSUME NEW v, IsView(v), NamesOK(v), NEW n \in DOMAIN Base,
           NEW l, l = Resolve(v, n),
           NEW w, w = ViewOf(v.root, v.fs, l.ovf, v.cfg)
    PROVE  /\ l.id \in Int /\ l.ovf \in Seq(Files) /\ Len(l.ovf) <= OvfCount
           /\ Extended(v.ovf, l.ovf) /\ Grown(v, w) /\ NamesOK(w)
           /\ l.id # NotFound => NameFound(w, l.id, n)
<1> DEFINE o == v.ovf
           held == {i \in DOMAIN o : o[i].name = n}
           k == Len(o)
<1>1. /\ o \in Seq(Files) /\ k \in Nat /\ k <= OvfCount /\ DOMAIN o = 1..k
      /\ OvfBase \in Nat /\ OvfCount \in Nat
      /\ v.cfg \in Seq(DOMAIN Base) /\ Len(v.cfg) <= CfgCount
      /\ v = ViewOf(v.root, v.fs, v.ovf, v.cfg)
  BY ViewTypes, IdsApart
<1>2. Extended(o, o) /\ Extended(v.cfg, v.cfg)
  BY DEF Extended
<1>3. ASSUME l.ovf = o
      PROVE  w = v /\ Grown(v, w) /\ NamesOK(w)
  BY <1>1, <1>2, <1>3 DEF Grown
<1>4. CASE DynId(v, n) # NotFound
  <2>1. l = [id |-> DynId(v, n), ovf |-> o]
    BY <1>4 DEF Resolve
  <2>2. PICK i \in DOMAIN v.dyn : /\ v.dyn[i].name = n
                                  /\ DynId(v, n) = DynIds[i]
                                  /\ DynIds[i] \in Nat
    BY <1>4, DynIdIs
  <2>3. NameFound(v, DynIds[i], n)
    BY <2>2, DynFound
  <2> QED BY <1>1, <1>2, <1>3, <2>1, <2>2, <2>3
<1>5. CASE DynId(v, n) = NotFound /\ held # {}
  <2> DEFINE i == CHOOSE i \in held : TRUE
  <2>1. l = [id |-> OvfBase + i - 1, ovf |-> o]
    BY <1>5 DEF Resolve
  <2>2. i \in DOMAIN o /\ o[i].name = n /\ i \in Nat \ {0}
    BY <1>1, <1>5
  <2> HIDE DEF i
  <2>3. l.id \in OvfIds(o) /\ l.id \in Int /\ l.id - OvfBase + 1 = i
    BY <1>1, <2>1, <2>2 DEF OvfIds
  <2>4. Path(v, l.id) = o[i]
    BY <2>3, PathIs
  <2>5. NameFound(v, l.id, n)
    BY <2>2, <2>4, FewerDirs DEF NameFound, NamesOK, Shaded
  <2>6. l.ovf = o
    BY <2>1
  <2> QED BY <1>1, <1>2, <1>3, <2>3, <2>5, <2>6
<1>6. CASE DynId(v, n) = NotFound /\ held = {}
           /\ l = [id |-> NotFound, ovf |-> o]
  <2>1. l.id = NotFound /\ NotFound \in Int /\ l.ovf = o
    BY <1>6 DEF NotFound
  <2> QED BY <1>1, <1>2, <1>3, <2>1
<1>7. CASE /\ DynId(v, n) = NotFound /\ held = {} /\ v.find[n] # None
           /\ Len(o) # OvfCount
           /\ l = [id |-> OvfBase + Len(o), ovf |-> Append(o, v.find[n])]
  <2> DEFINE p == v.find[n]
             e == Append(o, p)
  <2>1. /\ p \in Files /\ p.name = n
        /\ v.fs[1] = "mounted" /\ p.vol # 1 => NotOnFirst(v.root, n)
        /\ Foremost(p, v.fs, v.root)
    BY <1>7, FindIs DEF NotOnFirst
  <2> HIDE DEF p
  <2>2. /\ e \in Seq(Files) /\ Len(e) = k + 1 /\ DOMAIN e = 1..k + 1
        /\ \A i \in 1..k : e[i] = o[i]
        /\ e[k + 1] = p
    BY <1>1, <2>1
  <2>3. l.id = OvfBase + k /\ l.ovf = e
    BY <1>7 DEF p
  <2>4. Extended(o, e)
    BY DEF Extended
  <2>5. \A i \in 1..k : o[i].name # n
    BY <1>1, <1>7
  <2> HIDE DEF e, k
  <2>6. Len(e) <= OvfCount
    BY <1>1, <1>7, <2>2 DEF k
  <2>7. /\ IsView(w) /\ Grown(v, w) /\ w.ovf = e /\ w.cfg = v.cfg
        /\ w.root = v.root /\ w.fs = v.fs
    <3>1. w = ViewOf(v.root, v.fs, e, v.cfg)
      BY <2>3
    <3> QED BY <1>1, <1>2, <2>2, <2>4, <2>6, <3>1, ViewIs
  <2>8. Shaded(w)
    BY <1>1, <2>1, <2>2, <2>7 DEF Shaded, NamesOK
  <2>14. Leading(w)
    BY <1>1, <2>1, <2>2, <2>7 DEF Leading, NamesOK
  <2>9. OvfOnce(w)
    BY <1>1, <2>1, <2>2, <2>5, <2>7 DEF OvfOnce, NamesOK
  <2>10. CfgOnce(w) /\ CfgFlat(w)
    BY <2>7 DEF CfgOnce, CfgFlat, NamesOK
  <2>11. l.id \in OvfIds(e) /\ l.id \in Int /\ l.id - OvfBase + 1 = k + 1
    <3>1. k + 1 \in DOMAIN e /\ l.id = OvfBase + (k + 1) - 1
      BY <1>1, <2>2, <2>3
    <3> QED BY <1>1, <2>3, <3>1 DEF OvfIds
  <2>12. Path(w, l.id) = p
    BY <2>2, <2>7, <2>11, PathIs
  <2>13. NameFound(w, l.id, n)
    BY <2>1, <2>7, <2>12, FewerDirs DEF NameFound
  <2> QED BY <2>2, <2>3, <2>4, <2>6, <2>7, <2>8, <2>9, <2>10, <2>11, <2>13,
             <2>14 DEF NamesOK
<1>8. CASE DynId(v, n) = NotFound /\ held = {}
  <2>1. l = IF n = "app.elf" \/ Len(o) = OvfCount \/ v.find[n] = None
            THEN [id |-> NotFound, ovf |-> o]
            ELSE [id |-> OvfBase + Len(o), ovf |-> Append(o, v.find[n])]
    BY <1>8 DEF Resolve
  <2> QED BY <1>6, <1>7, <1>8, <2>1
<1> QED BY <1>4, <1>5, <1>8

\* file_slot_lookup
RegOK(g) == g \subseteq [id : FixedIds \cup ToSet(DynIds), name : DOMAIN Base]

LEMMA RegisteredIs ==
    ASSUME NEW v, IsView(v), RegOK(registry), NEW n \in DOMAIN Base,
           NEW e, e = Registered(v, n), e # None
    PROVE  e.id \in Int /\ e.id # NotFound
           /\ (Base[n] = n => NameFound(v, e.id, n))
<1> DEFINE id == e.id
           p == Path(v, id)
<1>1. /\ e \in registry /\ Current(v, e, n)
  BY DEF Registered
<1>2. id \in FixedIds \cup ToSet(DynIds) /\ id \in 1..OvfBase - 1
      /\ OvfBase \in Nat
  BY <1>1, IdAssumption DEF RegOK
<1>3. p = None \/ Base[p.name] = Base[n]
  BY <1>1 DEF Current
<1> HIDE DEF id
<1>4. ASSUME Base[n] = n, p # None
      PROVE  NameFound(v, id, n)
  <2>1. CASE id \in DOMAIN FixedNv
    <3> DEFINE q == FixedNv[id]
    <3>1. p = File(NvVolume(v.fs), v.root, q)
      BY <2>1, PathIs
    <3>2. Base[q] = q
      BY <2>1, NameAssumption DEF FixedNames
    <3>3. p.name = q /\ p.vol = NvVolume(v.fs)
      BY <3>1 DEF File
    <3>4. p.name = n
      BY <1>3, <1>4, <3>2, <3>3
    <3>5. v.fs[1] = "mounted" => p.vol = 1
      BY <3>3 DEF NvVolume, Mounted
    <3> QED BY <3>4, <3>5 DEF NameFound
  <2>2. CASE id \in DOMAIN FixedRead
    <3>1. p = v.app[id]
      BY <2>2, PathIs
    <3>2. /\ p.name = FixedRead[id]
          /\ v.fs[1] = "mounted" /\ p.vol # 1 =>
                File(1, "common", p.name) \notin Files
      BY <1>4, <2>2, <3>1, AppIs
    <3>3. Base[FixedRead[id]] = FixedRead[id]
      BY <2>2, NameAssumption
    <3>4. p.name = n
      BY <1>3, <1>4, <3>2, <3>3
    <3>5. ReadDirs(v.root, n) = {"common"}
      BY <2>2, <3>2, <3>4 DEF ReadDirs
    <3> QED BY <3>2, <3>4, <3>5 DEF NameFound
  <2>3. CASE IsDyn(v, id)
    <3>1. PICK i \in DOMAIN v.dyn : DynIds[i] = id
      BY <2>3 DEF IsDyn
    <3>2. /\ p = v.dyn[i] /\ Base[p.name] = p.name
          /\ NameFound(v, id, p.name)
      BY <3>1, DynFound
    <3> QED BY <1>3, <1>4, <3>2
  <2>4. id \notin CfgIds(v.cfg) /\ id \notin OvfIds(v.ovf)
    <3>1. \A i \in CfgIds(v.cfg) \cup OvfIds(v.ovf) : i >= OvfBase
      BY IdsApart
    <3> QED BY <1>2, <3>1
  <2> QED BY <1>4, <2>1, <2>2, <2>3, <2>4, PathIs
<1>5. p = None => NameFound(v, id, n)
  BY DEF NameFound
<1> QED BY <1>2, <1>4, <1>5 DEF id, NotFound

LEMMA LookupIs ==
    ASSUME NEW v, IsView(v), NamesOK(v), RegOK(registry), NEW n \in DOMAIN Base,
           NEW l, l = Lookup(v, n),
           NEW w, w = ViewOf(v.root, v.fs, l.ovf, v.cfg)
    PROVE  /\ l.id \in Int /\ l.ovf \in Seq(Files) /\ Len(l.ovf) <= OvfCount
           /\ Extended(v.ovf, l.ovf) /\ Grown(v, w) /\ NamesOK(w)
           /\ l.id # NotFound /\ Base[n] = n => NameFound(w, l.id, n)
<1> DEFINE b == Base[n]
           full == Registered(v, n)
           base == Registered(v, b)
           sub == IF b = n THEN [id |-> NotFound, ovf |-> v.ovf]
                  ELSE Resolve(v, n)
<1>1. b \in DOMAIN Base
  BY NameAssumption
<1>2. /\ v.ovf \in Seq(Files) /\ Len(v.ovf) <= OvfCount
      /\ Extended(v.ovf, v.ovf) /\ Extended(v.cfg, v.cfg)
      /\ v = ViewOf(v.root, v.fs, v.ovf, v.cfg)
  BY ViewTypes DEF Extended
<1>3. ASSUME NEW i \in Int, l = [id |-> i, ovf |-> v.ovf],
             i # NotFound /\ b = n => NameFound(v, i, n)
      PROVE  /\ l.id \in Int /\ l.ovf \in Seq(Files) /\ Len(l.ovf) <= OvfCount
             /\ Extended(v.ovf, l.ovf) /\ Grown(v, w) /\ NamesOK(w)
             /\ l.id # NotFound /\ b = n => NameFound(w, l.id, n)
  <2>1. l.id = i /\ l.ovf = v.ovf /\ w = v
    BY <1>2, <1>3
  <2>2. Grown(v, v)
    BY <1>2 DEF Grown
  <2> QED BY <1>2, <1>3, <2>1, <2>2
<1>4. l = LookupFrom(v, n, full, sub, base)
  BY DEF Lookup
<1>5. CASE full # None
  <2>1. l = [id |-> full.id, ovf |-> v.ovf]
    BY <1>4, <1>5 DEF LookupFrom
  <2>2. full.id \in Int /\ (b = n => NameFound(v, full.id, n))
    BY <1>5, RegisteredIs
  <2> QED BY <1>3, <2>1, <2>2
<1>6. CASE full = None /\ sub.id # NotFound
  <2>1. l = sub
    BY <1>4, <1>6 DEF LookupFrom
  <2>2. b # n
    BY <1>6
  <2>3. l = Resolve(v, n)
    BY <2>1, <2>2
  <2> QED BY <2>2, <2>3, ResolveIs
<1>7. CASE full = None /\ sub.id = NotFound /\ base # None
  <2>1. l = [id |-> base.id, ovf |-> v.ovf]
    BY <1>4, <1>7 DEF LookupFrom
  <2>2. base.id \in Int /\ (Base[b] = b => NameFound(v, base.id, b))
    BY <1>1, <1>7, RegisteredIs
  <2>3. b = n => NameFound(v, base.id, n)
    BY <2>2
  <2> QED BY <1>3, <2>1, <2>2, <2>3
<1>8. CASE full = None /\ sub.id = NotFound /\ base = None
  <2>1. l = Resolve(v, b)
    BY <1>4, <1>8 DEF LookupFrom
  <2>2. /\ l.id \in Int /\ l.ovf \in Seq(Files) /\ Len(l.ovf) <= OvfCount
        /\ Extended(v.ovf, l.ovf) /\ Grown(v, w) /\ NamesOK(w)
        /\ l.id # NotFound => NameFound(w, l.id, b)
    BY <1>1, <2>1, ResolveIs
  <2> QED BY <2>2
<1> QED BY <1>5, <1>6, <1>7, <1>8

---------------------------------------------------------------------------
\* The parts of the inductive invariant, as operators on what they are about.
Images(p, f) ==
    \A v \in Vols : /\ p[v] => f[v] # "unmounted"
                    /\ f[v] = "mounted" => v \in Formatted
                    /\ f[v] = "failed" => v \notin Formatted
Place == [vol : Vols, dir : STRING \cup Roots, name : DOMAIN Base] \cup {None}
Fd == [id : Int, nv : BOOLEAN, wr : BOOLEAN, off : 0..Cap, size : 0..Cap,
       dirty : BOOLEAN, name : DOMAIN Base \cup {None}, file : Place]
Desc == 1..FDs
FdOK(v, fd) == /\ fd \in Fd
               /\ fd.nv => NvSupported(v.cfg, fd.id)
               /\ fd.wr \/ fd.dirty => fd.nv
FdsOK(v, t) == t \in [Desc -> Fd] /\ \A d \in Desc : FdOK(v, t[d])
Src == [file : Files, at : 0..Cap] \cup {None}
IoEntry == [id : Int, off : 0..Cap, src : Src]
IoOK(c) == c \in Seq(IoEntry) /\ Len(c) <= IoEntries
DataOK(a) == a \in [NvFiles -> [1..Cap -> {Blank, Text}]]
KnownOK(k) == k \in [NvIds -> Unknown..Cap]

\* While no image went and no disk access failed.
FdTrue(v, fd) ==
    fd # Closed => fd.file # None /\ fd.file = Path(v, fd.id)
IoTrue(v, e) ==
    Path(v, e.id) # None /\ e.src = [file |-> Path(v, e.id), at |-> e.off]
Calm(v, p, o, t, c) ==
    /\ o /\ \A u \in Vols : p[u] <=> v.fs[u] # "unmounted"
    /\ \A d \in Desc : FdTrue(v, t[d])
    /\ \A i \in DOMAIN c : IoTrue(v, c[i])

V == View(fs, ovf, cfg)
Inv ==
    /\ present \in [Vols -> BOOLEAN] /\ IsView(V) /\ Images(present, fs)
    /\ NamesOK(V) /\ RegOK(registry)
    /\ FilOK(V, fil) /\ MemoOK(V, memo)
    /\ FdsOK(V, fds) /\ IoOK(io) /\ DataOK(data) /\ KnownOK(known)
    /\ mishaps \in 0..Mishaps
    /\ mishaps = Mishaps => Calm(V, present, own, fds, io)

\* The view of an operation of the file layer, once the images are settled.
VS == View(SettledFs, ovf, cfg)

LEMMA Fields ==
    /\ V = ViewOf(root, fs, ovf, cfg) /\ V.root = root /\ V.fs = fs
    /\ V.ovf = ovf /\ V.cfg = cfg
    /\ VS = ViewOf(root, SettledFs, ovf, cfg) /\ VS.root = root
    /\ VS.fs = SettledFs /\ VS.ovf = ovf /\ VS.cfg = cfg
BY FieldsOfView DEF V, VS, View

LEMMA Settled ==
    ASSUME Inv
    PROVE  /\ IsView(VS) /\ NamesOK(VS) /\ Images(present, SettledFs)
           /\ \A u \in Vols : present[u] <=> SettledFs[u] # "unmounted"
           /\ FilOK(VS, SettledFil) /\ MemoOK(VS, SettledMemo)
           /\ FdsOK(VS, fds)
           /\ mishaps = Mishaps => VS = V /\ SettledFs = fs
<1>1. /\ fs \in [Vols -> States] /\ root \in Roots /\ ovf \in Seq(Files)
      /\ Len(ovf) <= OvfCount /\ cfg \in Seq(DOMAIN Base)
      /\ Len(cfg) <= CfgCount /\ present \in [Vols -> BOOLEAN]
  BY Fields, ViewTypes DEF Inv
<1>2. SettledFs \in [Vols -> States]
  BY <1>1 DEF SettledFs, MountState, States
<1>3. IsView(VS)
  BY <1>1, <1>2, Fields DEF IsView
<1>4. \A u \in Vols :
         /\ present[u] <=> SettledFs[u] # "unmounted"
         /\ SettledFs[u] = "mounted" => fs[u] = "mounted"
         /\ SettledFs[u] = "mounted" => u \in Formatted
         /\ SettledFs[u] = "failed" => u \notin Formatted
  BY <1>1 DEF SettledFs, MountState, Inv, Images, Changed, States
<1>5. Images(present, SettledFs)
  BY <1>4 DEF Images
<1>6. NamesOK(VS)
  <2>1. 1 \in Vols
    BY ThreeVols
  <2>2. Leading(VS)
    BY <1>4, Fields, FileShape DEF Inv, NamesOK, Leading, Foremost
  <2> QED BY <2>1, <2>2, <1>4, Fields
          DEF Inv, NamesOK, Shaded, OvfOnce, CfgOnce, CfgFlat
<1>7. Changed = {} => SettledFs = fs /\ VS = V /\ SettledFil = fil
                      /\ SettledMemo = memo
  BY <1>1, Fields DEF SettledFs, SettledFil, SettledMemo
<1>8. Changed # {} => SettledFil = <<>> /\ SettledMemo = NoMemo
  BY <1>1 DEF SettledFil, SettledMemo, Changed, Inv, Images
<1>9. FilOK(VS, <<>>)
  BY BoundAssumption DEF FilOK, Lawful, OnTheirFiles
<1>10. MemoOK(VS, NoMemo)
  BY BoundAssumption DEF MemoOK, NoMemo
<1>11. FilOK(VS, SettledFil) /\ MemoOK(VS, SettledMemo)
  BY <1>7, <1>8, <1>9, <1>10 DEF Inv
<1>12. FdsOK(VS, fds)
  BY Fields DEF Inv, FdsOK, FdOK
<1>13. mishaps = Mishaps => Changed = {}
  BY Fields DEF Inv, Calm, Changed
<1> QED BY <1>3, <1>4, <1>5, <1>6, <1>7, <1>11, <1>12, <1>13

---------------------------------------------------------------------------
\* sys_openat: what an open may leave.
LEMMA PathPlace ==
    ASSUME NEW w, IsView(w), NEW id
    PROVE  /\ Path(w, id) \in Place
           /\ NvSupported(w.cfg, id) =>
                /\ Path(w, id) # None /\ Path(w, id).vol = NvVolume(w.fs)
                /\ id \in NvIds /\ id \in Int
<1>1. \A p \in Files : p \in Place
  <2> SUFFICES ASSUME NEW p \in Files
               PROVE  p \in Place
    OBVIOUS
  <2>1. p = File(p.vol, p.dir, p.name) /\ p.vol \in Vols
        /\ p.name \in DOMAIN Base /\ p.dir \in STRING
    BY FileShape
  <2> QED BY <2>1 DEF Place, File
<1>2. /\ w.root \in Roots /\ NvVolume(w.fs) \in Vols
      /\ w.ovf \in Seq(Files) /\ w.cfg \in Seq(DOMAIN Base)
  BY ViewTypes, ThreeVols DEF NvVolume
<1>3. ASSUME NEW n \in DOMAIN Base
      PROVE  /\ File(NvVolume(w.fs), w.root, n) \in Place
             /\ File(NvVolume(w.fs), w.root, n).vol = NvVolume(w.fs)
             /\ File(NvVolume(w.fs), w.root, n) # None
  <2>1. File(NvVolume(w.fs), w.root, n) # None
    BY <1>2, NameAssumption
  <2> QED BY <1>2, <2>1 DEF Place, File
<1>4. CASE id \in DOMAIN FixedNv
  <2>1. FixedNv[id] \in DOMAIN Base
    BY <1>4, NameAssumption DEF FixedNames
  <2>2. id \in Int /\ id \in NvIds
    BY <1>4, IdsApart DEF NvIds
  <2> QED BY <1>3, <1>4, <2>1, <2>2, PathIs
<1>5. CASE id \in CfgIds(w.cfg)
  <2>1. w.cfg[id - CfgBase + 1] \in DOMAIN Base
    BY <1>2, <1>5, IdsApart
  <2>2. id \in Int /\ id \in NvIds
    BY <1>5, IdsApart DEF NvIds
  <2> QED BY <1>3, <1>5, <2>1, <2>2, PathIs
<1>6. CASE ~NvSupported(w.cfg, id)
  <2>1. CASE id \in DOMAIN FixedRead
    BY <1>1, <1>6, <2>1, PathIs, AppIs DEF Place
  <2>2. CASE id \in OvfIds(w.ovf)
    <3>1. w.ovf[id - OvfBase + 1] \in Files
      BY <1>2, <2>2, IdsApart
    <3> QED BY <1>1, <1>6, <2>2, <3>1, PathIs
  <2>3. CASE IsDyn(w, id)
    <3>1. PICK i \in DOMAIN w.dyn : DynIds[i] = id
      BY <2>3 DEF IsDyn
    <3> QED BY <1>1, <1>6, <3>1, DynFound
  <2>4. CASE Path(w, id) = None
    BY <1>6, <2>4 DEF Place
  <2> QED BY <1>6, <2>1, <2>2, <2>3, <2>4, PathIs DEF NvSupported
<1> QED BY <1>4, <1>5, <1>6 DEF NvSupported

Lands(w, d, n, id, t) ==
    \/ t = fds
    \/ \E fd : /\ FdOK(w, fd) /\ FdTrue(w, fd) /\ fd.name = n /\ fd.id = id
               /\ t = [fds EXCEPT ![d] = fd]
Pinned(w, a) ==
    \A p \in NvFiles : a[p] # data[p] => p.vol = NvVolume(w.fs)
OpenedFine(w, d, n, id, t, fl, m, a, k) ==
    /\ Lands(w, d, n, id, t) /\ FilOK(w, fl) /\ MemoOK(w, m)
    /\ DataOK(a) /\ KnownOK(k) /\ Pinned(w, a)

LEMMA ClosedIs ==
    Closed \in Fd /\ ~Closed.nv /\ ~Closed.wr /\ ~Closed.dirty
<1>1. 0 \in 0..Cap
  BY BoundAssumption
<1> QED BY <1>1 DEF Closed, Fd, Place

LEMMA OpenDataIs ==
    ASSUME NEW d, NEW w, IsView(w), NEW id \in Int,
           NEW n \in DOMAIN Base \cup {None},
           FilOK(w, SettledFil), MemoOK(w, SettledMemo),
           DataOK(data), KnownOK(known), OpenData(d, w, id, n)
    PROVE  OpenedFine(w, d, n, id, fds', fil', memo', data', known')
<1>1. PICK s : /\ s = SizeOf(w, SettledFil, SettledMemo, id)
               /\ memo' = s.memo /\ fil' = s.fil
               /\ fds' = IF s.size <= 0 THEN fds
                         ELSE [fds EXCEPT ![d] =
                                 [Closed EXCEPT !.id = id, !.size = s.size,
                                    !.name = n, !.file = Path(w, id)]]
               /\ known' = known /\ data' = data
  BY DEF OpenData
<1>2. /\ FilOK(w, s.fil) /\ MemoOK(w, s.memo) /\ s.size \in -1..Cap
      /\ s.size > 0 => Path(w, id) # None
  BY <1>1, SizeOfIs
<1>3. CASE s.size <= 0
  BY <1>1, <1>2, <1>3 DEF OpenedFine, Lands, Pinned
<1>4. CASE ~(s.size <= 0)
  <2> DEFINE fd == [Closed EXCEPT !.id = id, !.size = s.size,
                                  !.name = n, !.file = Path(w, id)]
  <2>1. fds' = [fds EXCEPT ![d] = fd]
    BY <1>1, <1>4
  <2>2. s.size \in 0..Cap /\ 0 \in 0..Cap /\ s.size > 0
    BY <1>2, <1>4, BoundAssumption
  <2>3. fd \in Fd /\ fd.nv = FALSE /\ fd.wr = FALSE /\ fd.dirty = FALSE
        /\ fd.name = n /\ fd.file = Path(w, id) /\ fd.id = id
    <3>1. Closed \in Fd /\ ~Closed.nv /\ ~Closed.wr /\ ~Closed.dirty
      BY ClosedIs
    <3>2. Path(w, id) \in Place
      BY PathPlace
    <3> DEFINE p == Path(w, id)
               z == s.size
    <3> HIDE DEF p, z
    <3>3. [Closed EXCEPT !.id = id, !.size = z, !.name = n, !.file = p] \in Fd
      BY <2>2, <3>1, <3>2 DEF Fd, p, z
    <3>4. fd = [Closed EXCEPT !.id = id, !.size = z, !.name = n, !.file = p]
      BY DEF p, z
    <3> QED BY <3>1, <3>3, <3>4 DEF Fd, p
  <2> HIDE DEF fd
  <2>4. FdOK(w, fd) /\ FdTrue(w, fd)
    BY <1>2, <2>2, <2>3 DEF FdOK, FdTrue
  <2> QED BY <1>1, <1>2, <2>1, <2>3, <2>4 DEF OpenedFine, Lands, Pinned
<1> QED BY <1>3, <1>4

LEMMA OpenedIs ==
    ASSUME NEW d, NEW w, IsView(w), NEW fd \in Fd, NEW trunc \in BOOLEAN,
           NEW fl, FilOK(w, fl), NEW m, MemoOK(w, m),
           FdOK(w, fd), fd.nv, fd.file = Path(w, fd.id),
           DataOK(data), KnownOK(known), Opened(d, w, fd, trunc, fl, m)
    PROVE  OpenedFine(w, d, fd.name, fd.id, fds', fil', memo', data', known')
<1> DEFINE id == fd.id
           infer == fd.size = 0 /\ ~fd.wr /\ id \in CfgIds(w.cfg) \cup {8}
<1>1. id \in NvIds /\ id \in Int /\ Path(w, id) # None
      /\ Path(w, id).vol = NvVolume(w.fs)
  BY PathPlace DEF FdOK
<1>2. PICK r, seen :
        /\ r = OpenFil(w, fl, id, trunc)
        /\ seen = CASE infer -> IF Usable(r) THEN TextLen(fd.file) ELSE 0
                    [] fd.size = 0 /\ ~fd.wr /\ ~infer -> Cap
                    [] OTHER -> fd.size
        /\ fil' = IF trunc \/ infer THEN r.fil ELSE fl
        /\ memo' = IF trunc THEN NoMemo ELSE m
        /\ IF trunc /\ Usable(r)
           THEN /\ fds' = [fds EXCEPT ![d] =
                             [fd EXCEPT !.size = 0, !.dirty = TRUE]]
                /\ known' = [known EXCEPT ![id] = 0]
                /\ data' = [data EXCEPT ![fd.file][1] = Blank]
           ELSE /\ fds' = IF trunc THEN fds
                          ELSE [fds EXCEPT ![d] = [fd EXCEPT !.size = seen]]
                /\ known' = [known EXCEPT ![id] = fd.size]
                /\ data' = data
  BY DEF Opened
<1>3. FilOK(w, r.fil)
  BY <1>1, <1>2, OpenFilIs
<1>4. FilOK(w, fil') /\ MemoOK(w, memo')
  <2>1. MemoOK(w, NoMemo)
    BY BoundAssumption DEF MemoOK, NoMemo
  <2> QED BY <1>2, <1>3, <2>1
<1>5. /\ fd.size \in 0..Cap /\ 0 \in 0..Cap /\ Cap \in Nat \ {0}
      /\ fd.size \in Unknown..Cap /\ 0 \in Unknown..Cap
  BY BoundAssumption DEF Fd, Unknown
<1>6. KnownOK(known')
  BY <1>1, <1>2, <1>5 DEF KnownOK
<1>7. seen \in 0..Cap
  <2>1. TextLen(fd.file) \in 0..Cap /\ Cap \in 0..Cap
    BY <1>5, TextLenIs
  <2>2. \/ seen \in {TextLen(fd.file), 0, Cap, fd.size}
    BY <1>2
  <2> QED BY <1>5, <2>1, <2>2
<1> HIDE DEF id
<1>8. Lands(w, d, fd.name, fd.id, fds')
  <2>1. ASSUME NEW size \in 0..Cap, NEW dirty \in BOOLEAN, NEW e,
               e = [[fd EXCEPT !.size = size] EXCEPT !.dirty = dirty]
        PROVE  FdOK(w, e) /\ FdTrue(w, e) /\ e.name = fd.name /\ e.id = fd.id
    <3>1. e \in Fd /\ e.nv = fd.nv /\ e.id = fd.id /\ e.name = fd.name
          /\ e.file = fd.file
      BY <2>1 DEF Fd
    <3> QED BY <1>1, <3>1 DEF FdOK, FdTrue, id
  <2>2. CASE trunc /\ Usable(r)
    <3> DEFINE e == [[fd EXCEPT !.size = 0] EXCEPT !.dirty = TRUE]
    <3>1. fds' = [fds EXCEPT ![d] = e]
      BY <1>2, <2>2 DEF Fd
    <3>2. FdOK(w, e) /\ FdTrue(w, e) /\ e.name = fd.name /\ e.id = fd.id
      BY <1>5, <2>1
    <3> HIDE DEF e
    <3> QED BY <3>1, <3>2 DEF Lands
  <2>3. CASE trunc /\ ~Usable(r)
    BY <1>2, <2>3 DEF Lands
  <2>4. CASE ~trunc
    <3> DEFINE e == [[fd EXCEPT !.size = seen] EXCEPT !.dirty = fd.dirty]
    <3>1. fds' = [fds EXCEPT ![d] = e]
      <4>1. fds' = [fds EXCEPT ![d] = [fd EXCEPT !.size = seen]]
        BY <1>2, <2>4
      <4>2. e = [fd EXCEPT !.size = seen]
        BY DEF Fd
      <4> QED BY <4>1, <4>2
    <3>2. fd.dirty \in BOOLEAN
      BY DEF Fd
    <3>3. FdOK(w, e) /\ FdTrue(w, e) /\ e.name = fd.name /\ e.id = fd.id
      BY <1>7, <2>1, <3>2
    <3> HIDE DEF e
    <3> QED BY <3>1, <3>3 DEF Lands
  <2> QED BY <2>2, <2>3, <2>4
<1>9. DataOK(data') /\ Pinned(w, data')
  <2>1. CASE data' = data
    BY <2>1 DEF Pinned
  <2>2. CASE data' = [data EXCEPT ![fd.file][1] = Blank]
    <3>1. 1 \in 1..Cap
      BY <1>5
    <3>2. DataOK(data')
      BY <2>2, <3>1 DEF DataOK
    <3>3. \A p \in NvFiles : data'[p] # data[p] => p = fd.file
      BY <2>2 DEF DataOK
    <3> QED BY <1>1, <3>2, <3>3 DEF Pinned, id
  <2> QED BY <1>2, <2>1, <2>2
<1> QED BY <1>4, <1>6, <1>8, <1>9 DEF OpenedFine

LEMMA OpenNvIs ==
    ASSUME NEW d, NEW w, IsView(w), NEW id \in Int, NvSupported(w.cfg, id),
           NEW n \in DOMAIN Base, NEW wr \in BOOLEAN, NEW trunc \in BOOLEAN,
           FilOK(w, SettledFil), MemoOK(w, SettledMemo),
           DataOK(data), KnownOK(known), OpenNv(d, w, id, n, wr, trunc)
    PROVE  OpenedFine(w, d, n, id, fds', fil', memo', data', known')
<1> DEFINE fd(size) == [id |-> id, nv |-> TRUE, wr |-> wr, off |-> 0,
                        size |-> size, dirty |-> FALSE, name |-> n,
                        file |-> Path(w, id)]
<1>1. ASSUME NEW size \in 0..Cap
      PROVE  /\ fd(size) \in Fd /\ FdOK(w, fd(size)) /\ fd(size).nv
             /\ fd(size).file = Path(w, fd(size).id)
             /\ fd(size).name = n /\ fd(size).id = id
  <2>1. Path(w, id) \in Place /\ 0 \in 0..Cap
    BY PathPlace, BoundAssumption
  <2>2. fd(size) \in Fd
    BY <2>1 DEF Fd
  <2> QED BY <2>2 DEF FdOK
<1>2. ASSUME NEW size \in 0..Cap, NEW fl, FilOK(w, fl), NEW m, MemoOK(w, m),
             Opened(d, w, fd(size), trunc, fl, m)
      PROVE  OpenedFine(w, d, n, id, fds', fil', memo', data', known')
  <2> DEFINE e == fd(size)
  <2>1. /\ e \in Fd /\ FdOK(w, e) /\ e.nv /\ e.file = Path(w, e.id)
        /\ e.name = n /\ e.id = id
    BY <1>1
  <2>2. Opened(d, w, e, trunc, fl, m)
    BY <1>2
  <2> HIDE DEF e
  <2>3. OpenedFine(w, d, e.name, e.id, fds', fil', memo', data', known')
    BY <1>2, <2>1, <2>2, OpenedIs
  <2> QED BY <2>1, <2>3
<1>3. known[id] \in Unknown..Cap
  BY PathPlace DEF KnownOK
<1>4. CASE known[id] # Unknown
           /\ Opened(d, w, fd(known[id]), trunc, SettledFil, SettledMemo)
  <2>1. known[id] \in 0..Cap
    BY <1>3, <1>4, BoundAssumption DEF Unknown
  <2> QED BY <1>2, <1>4, <2>1
<1>5. CASE \E s \in {SizeOf(w, SettledFil, SettledMemo, id)} :
              Opened(d, w, fd(Greater(s.size, 0)), trunc, s.fil, s.memo)
  <2>1. PICK s : /\ s = SizeOf(w, SettledFil, SettledMemo, id)
                 /\ Opened(d, w, fd(Greater(s.size, 0)), trunc, s.fil, s.memo)
    BY <1>5
  <2>2. FilOK(w, s.fil) /\ MemoOK(w, s.memo) /\ s.size \in -1..Cap
    BY <2>1, SizeOfIs
  <2>3. Greater(s.size, 0) \in 0..Cap
    BY <2>2, BoundAssumption DEF Greater
  <2> QED BY <1>2, <2>1, <2>2, <2>3
<1> QED BY <1>4, <1>5 DEF OpenNv

LEMMA OpenKindIs ==
    ASSUME Inv, NEW d, NEW n \in DOMAIN Base, NEW wr \in BOOLEAN,
           NEW trunc \in BOOLEAN,
           OpenKind(d, VS, n, Lookup(VS, n), ConfigSlot(VS, Base[n]), wr,
                    trunc),
           NEW w, w = ViewOf(root, SettledFs, ovf', cfg')
    PROVE  /\ Grown(VS, w) /\ NamesOK(w)
           /\ \E id \in Int :
                /\ OpenedFine(w, d, n, id, fds', fil', memo', data', known')
                /\ fds' = fds \/ (Base[n] = n => NameFound(w, id, n))
<1> DEFINE v == VS
           l == Lookup(v, n)
           b == Base[n]
           s == ConfigSlot(v, b)
           u == ViewOf(root, SettledFs, l.ovf, cfg)
           x == ViewOf(root, SettledFs, l.ovf, s.cfg)
           nv == NvSupported(v.cfg, l.id)
           save == l.id = NotFound /\ SaveIds(n) # {}
           config == ~nv /\ ~save /\ s.id # NotFound
<1>1. /\ IsView(v) /\ NamesOK(v) /\ RegOK(registry)
      /\ FilOK(v, SettledFil) /\ MemoOK(v, SettledMemo)
      /\ DataOK(data) /\ KnownOK(known)
  BY Settled DEF Inv
<1>2. v = ViewOf(root, SettledFs, ovf, cfg) /\ v.root = root
      /\ v.fs = SettledFs /\ v.ovf = ovf /\ v.cfg = cfg
  BY Fields
<1>3. /\ l.id \in Int /\ l.ovf \in Seq(Files) /\ Len(l.ovf) <= OvfCount
      /\ Extended(v.ovf, l.ovf) /\ Grown(v, u) /\ NamesOK(u)
      /\ l.id # NotFound /\ b = n => NameFound(u, l.id, n)
  <2> DEFINE lk == Lookup(v, n)
  <2> HIDE DEF lk
  <2>1. lk = Lookup(v, n) /\ u = ViewOf(v.root, v.fs, lk.ovf, v.cfg)
    BY <1>2 DEF lk
  <2>2. /\ lk.id \in Int /\ lk.ovf \in Seq(Files) /\ Len(lk.ovf) <= OvfCount
        /\ Extended(v.ovf, lk.ovf) /\ Grown(v, u) /\ NamesOK(u)
        /\ lk.id # NotFound /\ Base[n] = n => NameFound(u, lk.id, n)
    BY <1>1, <2>1, LookupIs
  <2> QED BY <2>2 DEF lk
<1>4. b \in DOMAIN Base /\ Base[b] = b
  BY NameAssumption
<1>5. /\ s.cfg \in Seq(DOMAIN Base) /\ Len(s.cfg) <= CfgCount
      /\ Extended(v.cfg, s.cfg) /\ s.id \in Int
      /\ s.id = NotFound => s.cfg = v.cfg
      /\ s.id # NotFound => /\ s.id \in CfgIds(s.cfg)
                            /\ s.cfg[s.id - CfgBase + 1] = b
      /\ \A i, j \in DOMAIN s.cfg : s.cfg[i] = s.cfg[j] => i = j
      /\ \A i \in DOMAIN s.cfg : Base[s.cfg[i]] = s.cfg[i]
  BY <1>1, <1>4, ConfigSlotIs
<1>6. IsView(u) /\ u.root = root /\ u.fs = SettledFs /\ u.ovf = l.ovf
      /\ u.cfg = cfg
  BY <1>3, FieldsOfView DEF Grown
<1>7. IsView(x) /\ Grown(v, x) /\ NamesOK(x)
  <2> DEFINE o == l.ovf
             c == s.cfg
  <2>1. x = ViewOf(v.root, v.fs, o, c)
    BY <1>2
  <2> HIDE DEF o, c, x
  <2>2. /\ IsView(x) /\ Grown(v, x) /\ x.ovf = o /\ x.cfg = c
        /\ x.root = v.root /\ x.fs = v.fs
    BY <1>1, <1>3, <1>5, <2>1, ViewIs DEF o, c
  <2>3. Shaded(x) /\ Leading(x) /\ OvfOnce(x)
    BY <1>2, <1>3, <1>6, <2>2 DEF NamesOK, Shaded, Leading, OvfOnce, o
  <2>4. CfgOnce(x) /\ CfgFlat(x)
    BY <1>5, <2>2 DEF CfgOnce, CfgFlat, c
  <2> QED BY <2>2, <2>3, <2>4 DEF NamesOK
<1>8. [v EXCEPT !.ovf = l.ovf] = u /\ [u EXCEPT !.cfg = s.cfg] = x
  BY <1>2, WithOvf, WithCfg
<1>9. FilOK(u, SettledFil) /\ MemoOK(u, SettledMemo)
      /\ FilOK(x, SettledFil) /\ MemoOK(x, SettledMemo)
  BY <1>1, <1>3, <1>7, FilKept, MemoKept
<1>10. ovf' = l.ovf /\ cfg' = IF nv \/ save THEN cfg ELSE s.cfg
  BY DEF OpenKind
<1>11. CASE nv /\ OpenNv(d, u, l.id, n, wr, trunc)
  <2>1. w = u
    BY <1>10, <1>11
  <2>2. NvSupported(u.cfg, l.id)
    BY <1>2, <1>6, <1>11
  <2>3. OpenedFine(u, d, n, l.id, fds', fil', memo', data', known')
    BY <1>1, <1>3, <1>6, <1>9, <1>11, <2>2, OpenNvIs
  <2>4. l.id # NotFound
    <3>1. l.id \in Nat
      BY <1>1, <1>11, IdsApart DEF NvSupported
    <3> QED BY <3>1 DEF NotFound
  <2> QED BY <1>3, <2>1, <2>3, <2>4
<1>12. CASE save /\ OpenNv(d, u, CHOOSE i \in SaveIds(n) : TRUE, n, wr, trunc)
            /\ ~nv
  <2> DEFINE i == CHOOSE i \in SaveIds(n) : TRUE
  <2>1. w = u
    BY <1>10, <1>12
  <2>2. i \in DOMAIN FixedNv /\ FixedNv[i] = b
    BY <1>12 DEF SaveIds
  <2>3. OpenNv(d, u, i, n, wr, trunc)
    BY <1>12
  <2> HIDE DEF i
  <2>4. NvSupported(u.cfg, i) /\ i \in Int
    BY <1>6, <2>2, IdsApart DEF NvSupported
  <2>5. OpenedFine(u, d, n, i, fds', fil', memo', data', known')
    BY <1>1, <1>6, <1>9, <2>3, <2>4, OpenNvIs
  <2>6. Path(u, i) = File(NvVolume(u.fs), u.root, b)
    BY <1>6, <2>2, PathIs
  <2>7. b = n => NameFound(u, i, n)
    BY <2>6 DEF NameFound, File, NvVolume, Mounted
  <2> QED BY <1>3, <2>1, <2>4, <2>5, <2>7
<1>13. CASE config /\ OpenNv(d, x, s.id, n, wr, trunc)
  <2>1. w = x
    BY <1>10, <1>13
  <2>2. x.cfg = s.cfg /\ s.id \in CfgIds(x.cfg) /\ x.fs = SettledFs
    BY <1>5, <1>13, FieldsOfView
  <2>3. NvSupported(x.cfg, s.id)
    BY <2>2 DEF NvSupported
  <2>4. OpenedFine(x, d, n, s.id, fds', fil', memo', data', known')
    BY <1>1, <1>5, <1>7, <1>9, <1>13, <2>3, OpenNvIs
  <2>5. Path(x, s.id) = File(NvVolume(x.fs), x.root, b)
    BY <1>5, <1>7, <1>13, <2>2, PathIs
  <2>6. b = n => NameFound(x, s.id, n)
    BY <2>5 DEF NameFound, File, NvVolume, Mounted
  <2> QED BY <1>5, <1>7, <2>1, <2>4, <2>6
<1>14. CASE /\ ~nv /\ l.id # NotFound /\ ~config /\ ~wr
            /\ OpenData(d, u, l.id, n)
  <2>1. w = u
    BY <1>2, <1>5, <1>10, <1>14
  <2>2. OpenedFine(u, d, n, l.id, fds', fil', memo', data', known')
    BY <1>1, <1>3, <1>6, <1>9, <1>14, OpenDataIs
  <2> QED BY <1>3, <1>14, <2>1, <2>2
<1>15. CASE Refused /\ ~nv /\ ~save
  <2>1. w = x /\ fds' = fds /\ fil' = SettledFil /\ memo' = SettledMemo
        /\ data' = data /\ known' = known
    BY <1>10, <1>15 DEF Refused
  <2>2. OpenedFine(x, d, n, 0, fds', fil', memo', data', known')
    BY <1>1, <1>9, <2>1 DEF OpenedFine, Lands, Pinned
  <2> QED BY <1>7, <2>1, <2>2
<1>16. \/ nv /\ OpenNv(d, u, l.id, n, wr, trunc)
       \/ save /\ OpenNv(d, u, CHOOSE i \in SaveIds(n) : TRUE, n, wr, trunc)
            /\ ~nv
       \/ config /\ OpenNv(d, x, s.id, n, wr, trunc)
       \/ /\ ~nv /\ l.id # NotFound /\ ~config /\ ~wr
          /\ OpenData(d, u, l.id, n)
       \/ Refused /\ ~nv /\ ~save
  <2>1. nv => l.id # NotFound
    <3>1. nv => l.id \in Nat
      BY <1>1, IdsApart DEF NvSupported
    <3> QED BY <3>1 DEF NotFound
  <2> HIDE DEF u, x, v, l, s
  <2> QED BY <1>8, <2>1 DEF OpenKind, u, x, v, l, s
<1> QED BY <1>11, <1>12, <1>13, <1>14, <1>15, <1>16

---------------------------------------------------------------------------
\* The descriptors and the cached blocks under a step.
Put(t, d, e, u) == u = [t EXCEPT ![d] = e]

LEMMA FdsPut ==
    ASSUME NEW v, NEW t, FdsOK(v, t), NEW d \in Desc, NEW e, FdOK(v, e),
           NEW u, Put(t, d, e, u)
    PROVE  /\ FdsOK(v, u) /\ u[d] = e
           /\ \A c \in Desc : c # d => u[c] = t[c]
BY DEF FdsOK, FdOK, Put

LEMMA FdsKept ==
    ASSUME NEW v, NEW w, Grown(v, w), NEW t, FdsOK(v, t)
    PROVE  FdsOK(w, t)
BY PathKept DEF FdsOK, FdOK

LEMMA TrueKept ==
    ASSUME NEW v, NEW w, Grown(v, w), NEW t, NEW c, NEW p, NEW o,
           Calm(v, p, o, t, c)
    PROVE  Calm(w, p, o, t, c)
<1>1. w.fs = v.fs
  BY DEF Grown
<1>2. ASSUME NEW fd, FdTrue(v, fd)
      PROVE  FdTrue(w, fd)
  BY <1>2, PathKept DEF FdTrue
<1>3. ASSUME NEW e, IoTrue(v, e)
      PROVE  IoTrue(w, e)
  BY <1>3, PathKept DEF IoTrue
<1> QED BY <1>1, <1>2, <1>3 DEF Calm

LEMMA CalmPut ==
    ASSUME NEW v, NEW p, NEW o, NEW t, NEW c, Calm(v, p, o, t, c),
           NEW d, NEW q, NEW x, q, NEW u, FdTrue(v, u[d]),
           \A b \in Desc : b # d => u[b] = t[b],
           \A i \in DOMAIN x : IoTrue(v, x[i])
    PROVE  Calm(v, p, q, u, x)
BY DEF Calm

Added(c, e, x) == x = Append(IF Len(c) = IoEntries THEN Tail(c) ELSE c, e)
Moved(c, i, x) == x = Append(RemoveAt(c, i), c[i])
Torn(c, x) == x = [c EXCEPT ![1].src = None]

LEMMA IoAppend ==
    ASSUME NEW c, IoOK(c), NEW e \in IoEntry,
           NEW x, Added(c, e, x)
    PROVE  /\ IoOK(x)
           /\ \A i \in DOMAIN x : x[i] = e \/ \E j \in DOMAIN c : x[i] = c[j]
<1> DEFINE n == Len(c)
           s == IF n = IoEntries THEN Tail(c) ELSE c
           k == Len(s)
<1>1. c \in Seq(IoEntry) /\ n \in Nat /\ n <= IoEntries
      /\ IoEntries \in Nat \ {0}
  BY BoundAssumption DEF IoOK
<1>2. s \in Seq(IoEntry) /\ PartOf(s, c) /\ k \in Nat /\ k + 1 <= IoEntries
  <2>1. CASE n = IoEntries
    <3>1. c # <<>>
      BY <1>1, <2>1
    <3>2. s \in Seq(IoEntry) /\ k = n - 1 /\ PartOf(s, c)
      BY <1>1, <2>1, <3>1, TailPart
    <3> QED BY <1>1, <2>1, <3>2
  <2>2. CASE n # IoEntries
    <3>1. n + 1 <= IoEntries
      BY <1>1, <2>2
    <3> QED BY <1>1, <2>2, <3>1, PartOfSelf
  <2> QED BY <2>1, <2>2
<1>3. x = Append(s, e)
  BY DEF Added
<1> HIDE DEF s, n, k
<1>4. /\ x \in Seq(IoEntry) /\ Len(x) = k + 1 /\ DOMAIN x = 1..k + 1
      /\ \A i \in 1..k : x[i] = s[i]
      /\ x[k + 1] = e
  <2>1. Len(s) = k /\ s \in Seq(IoEntry) /\ e \in IoEntry
    BY <1>2 DEF k
  <2>2. /\ Append(s, e) \in Seq(IoEntry) /\ Len(Append(s, e)) = k + 1
        /\ \A i \in 1..k : Append(s, e)[i] = s[i]
        /\ Append(s, e)[k + 1] = e
    BY <2>1, AppendProperties
  <2>3. /\ x \in Seq(IoEntry) /\ Len(x) = k + 1
        /\ \A i \in 1..k : x[i] = s[i]
        /\ x[k + 1] = e
    BY <1>3, <2>2, Zenon
  <2>4. DOMAIN x = 1..k + 1
    BY <2>3
  <2> QED BY <2>3, <2>4
<1>5. DOMAIN s = 1..k /\ \A i \in DOMAIN s : \E j \in DOMAIN c : s[i] = c[j]
  BY <1>2 DEF PartOf, k
<1>6. \A i \in DOMAIN x : x[i] = e \/ \E j \in DOMAIN c : x[i] = c[j]
  BY <1>2, <1>4, <1>5
<1> QED BY <1>2, <1>4, <1>6 DEF IoOK

LEMMA IoMoved ==
    ASSUME NEW c, IoOK(c), NEW i \in DOMAIN c,
           NEW x, Moved(c, i, x)
    PROVE  IoOK(x) /\ \A k \in DOMAIN x : \E j \in DOMAIN c : x[k] = c[j]
<1> DEFINE n == Len(c)
           s == RemoveAt(c, i)
           e == c[i]
<1>1. c \in Seq(IoEntry) /\ n \in Nat \ {0} /\ n <= IoEntries
      /\ e \in IoEntry /\ IoEntries \in Nat
  BY BoundAssumption DEF IoOK
<1>2. s \in Seq(IoEntry) /\ Len(s) = n - 1
      /\ \A k \in DOMAIN s : \E j \in DOMAIN c : s[k] = c[j]
  BY <1>1, RemoveAtIs, RemovedPart
<1> HIDE DEF s, e, n
<1>3. x = Append(s, e)
  BY DEF s, e, Moved
<1>4. /\ x \in Seq(IoEntry) /\ Len(x) = n /\ DOMAIN x = 1..n
      /\ DOMAIN s = 1..n - 1 /\ \A k \in 1..n - 1 : x[k] = s[k]
      /\ x[n] = e
  BY <1>1, <1>2, <1>3
<1>5. \A k \in DOMAIN x : \E j \in DOMAIN c : x[k] = c[j]
  BY <1>1, <1>2, <1>4 DEF e
<1> QED BY <1>1, <1>4, <1>5 DEF IoOK

LEMMA IoTorn ==
    ASSUME NEW c, IoOK(c), Len(c) = IoEntries,
           NEW x, Torn(c, x)
    PROVE  IoOK(x)
<1> DEFINE n == Len(c)
           h == [c[1] EXCEPT !.src = None]
<1>1. c \in Seq(IoEntry) /\ n \in Nat \ {0} /\ DOMAIN c = 1..n
      /\ c[1] \in IoEntry
  BY BoundAssumption DEF IoOK
<1>2. h \in IoEntry
  BY <1>1 DEF IoEntry, Src
<1>3. x = [c EXCEPT ![1] = h]
  BY <1>1 DEF Torn
<1> HIDE DEF h
<1>4. x \in Seq(IoEntry) /\ Len(x) = n
  BY <1>1, <1>2, <1>3
<1> QED BY <1>4 DEF IoOK

---------------------------------------------------------------------------
\* Every operation keeps the invariant, and writes on the pinned image only.
LEMMA Views == V' = ViewOf(root', fs', ovf', cfg')
BY DEF V, View

LEMMA DataSame ==
    ASSUME data' = data
    PROVE  Pinned(VS, data')
BY DEF Pinned

\* What holds of the descriptors in use.
LEMMA FdIs ==
    ASSUME NEW v, IsView(v), NEW t, FdsOK(v, t), NEW d \in Desc
    PROVE  /\ t[d] \in Fd /\ FdOK(v, t[d]) /\ t[d].id \in Int
           /\ t[d].off \in 0..Cap /\ t[d].size \in 0..Cap
           /\ t[d].wr \/ t[d].dirty => t[d].nv
           /\ t[d].nv => /\ NvSupported(v.cfg, t[d].id) /\ t[d].id \in NvIds
                         /\ Path(v, t[d].id).vol = NvVolume(v.fs)
BY PathPlace DEF FdsOK, FdOK, Fd

LEMMA CloseKeeps ==
    ASSUME Inv, NEW d \in Desc, Close(d)
    PROVE  Inv' /\ Pinned(VS, data')
<1>1. /\ present' = present /\ root' = root /\ fs' = fs /\ ovf' = ovf
      /\ cfg' = cfg /\ registry' = registry /\ fil' = fil /\ memo' = memo
      /\ io' = io /\ known' = known /\ data' = data /\ own' = own
      /\ mishaps' = mishaps /\ fds' = [fds EXCEPT ![d] = Closed]
  BY DEF Close, nameVars, bounds
<1>2. V' = V
  BY <1>1, Views, Fields
<1>3. FdOK(V, Closed) /\ FdTrue(V, Closed)
  BY ClosedIs DEF FdOK, FdTrue
<1>4. FdsOK(V, fds') /\ fds'[d] = Closed
      /\ \A c \in Desc : c # d => fds'[c] = fds[c]
  <2>1. FdsOK(V, fds) /\ Put(fds, d, Closed, fds')
    BY <1>1 DEF Inv, Put
  <2> QED BY <1>3, <2>1, FdsPut
<1>5. mishaps = Mishaps => Calm(V, present, own, fds', io)
  BY <1>3, <1>4, CalmPut DEF Inv, Calm
<1>6. Inv'
  BY <1>1, <1>2, <1>4, <1>5 DEF Inv
<1> QED BY <1>1, <1>6, DataSame

\* The offset goes on by one block.
LEMMA OffsetMoves ==
    ASSUME NEW v, NEW fd, FdOK(v, fd), fd # Closed, fd.off < fd.size,
           NEW e, e = [fd EXCEPT !.off = @ + 1]
    PROVE  FdOK(v, e) /\ (FdTrue(v, fd) => FdTrue(v, e))
<1>1. fd \in Fd /\ fd.off + 1 \in 0..Cap
  BY BoundAssumption DEF FdOK, Fd
<1> DEFINE k == fd.off + 1
<1> HIDE DEF k
<1>2. e = [fd EXCEPT !.off = k] /\ k \in 0..Cap
  BY <1>1 DEF k, Fd
<1>3. e \in Fd /\ e.nv = fd.nv /\ e.wr = fd.wr /\ e.dirty = fd.dirty
      /\ e.id = fd.id /\ e.file = fd.file
  BY <1>1, <1>2 DEF Fd
<1> QED BY <1>3 DEF FdOK, FdTrue

LEMMA ReadHitKeeps ==
    ASSUME Inv, NEW d \in Desc, ReadHit(d)
    PROVE  Inv' /\ Pinned(VS, data')
<1> DEFINE fd == fds[d]
           now == [fd EXCEPT !.off = @ + 1]
<1>1. /\ present' = present /\ root' = root /\ fs' = fs /\ ovf' = ovf
      /\ cfg' = cfg /\ registry' = registry /\ fil' = fil /\ memo' = memo
      /\ known' = known /\ data' = data /\ mishaps' = mishaps
      /\ fd # Closed /\ fd.off < fd.size
  BY DEF ReadHit, nameVars, bounds
<1>2. PICK i \in DOMAIN io :
        /\ EntryIs(io[i], fds[d].id, fds[d].off)
        /\ Delivered(d, io[i].src)
        /\ io' = Append(RemoveAt(io, i), io[i])
  BY DEF ReadHit
<1>3. V' = V
  BY <1>1, Views, Fields
<1>4. FdOK(V, fd) /\ fds \in [Desc -> Fd]
  BY DEF Inv, FdsOK
<1>5. FdOK(V, now) /\ (FdTrue(V, fd) => FdTrue(V, now))
  BY <1>1, <1>4, OffsetMoves
<1>6. fds' = [fds EXCEPT ![d] = now]
      /\ own' = (io[i].src = [file |-> fd.file, at |-> fd.off])
  BY <1>2, <1>4 DEF Delivered
<1> HIDE DEF now
<1>7. FdsOK(V, fds') /\ fds'[d] = now
      /\ \A c \in Desc : c # d => fds'[c] = fds[c]
  <2>1. FdsOK(V, fds) /\ Put(fds, d, now, fds')
    BY <1>6 DEF Inv, Put
  <2> QED BY <1>5, <2>1, FdsPut
<1>8. IoOK(io') /\ \A k \in DOMAIN io' : \E j \in DOMAIN io : io'[k] = io[j]
  <2>1. IoOK(io) /\ Moved(io, i, io')
    BY <1>2 DEF Inv, Moved
  <2>2. i \in DOMAIN io
    BY <1>2
  <2>3. IoOK(io')
    BY <2>1, <2>2, IoMoved
  <2>4. \A k \in DOMAIN io' : \E j \in DOMAIN io : io'[k] = io[j]
    BY <2>1, <2>2, IoMoved
  <2> QED BY <2>3, <2>4
<1>9. ASSUME mishaps = Mishaps
      PROVE  Calm(V, present, own', fds', io')
  <2>1. Calm(V, present, own, fds, io)
    BY <1>9 DEF Inv
  <2>2. FdTrue(V, fd) /\ IoTrue(V, io[i])
    BY <2>1 DEF Calm
  <2>3. own'
    BY <1>1, <1>2, <1>6, <2>2 DEF FdTrue, IoTrue, EntryIs
  <2>4. \A k \in DOMAIN io' : IoTrue(V, io'[k])
    BY <1>8, <2>1 DEF Calm
  <2>5. FdTrue(V, fds'[d])
    BY <1>5, <1>7, <2>2
  <2> QED BY <1>7, <2>1, <2>3, <2>4, <2>5, CalmPut
<1>10. Inv'
  BY <1>1, <1>3, <1>7, <1>8, <1>9 DEF Inv
<1> QED BY <1>1, <1>10, DataSame

LEMMA OpenKeeps ==
    ASSUME Inv, NEW d \in Desc, NEW w, Grown(VS, w), NamesOK(w), NEW id, NEW n,
           OpenedFine(w, d, n, id, fds', fil', memo', data', known'), V' = w,
           present' = present, fs' = SettledFs, registry' = registry,
           io' = io, mishaps' = mishaps, own' = own
    PROVE  Inv' /\ Pinned(VS, data')
<1>1. /\ IsView(w) /\ Images(present, SettledFs) /\ FdsOK(VS, fds)
      /\ mishaps = Mishaps => VS = V
      /\ w.fs = VS.fs
  BY Settled DEF Grown
<1>2. /\ FilOK(w, fil') /\ MemoOK(w, memo') /\ DataOK(data') /\ KnownOK(known')
      /\ Lands(w, d, n, id, fds') /\ Pinned(w, data')
  BY DEF OpenedFine
<1>3. FdsOK(w, fds)
  BY <1>1, FdsKept
<1>4. /\ FdsOK(w, fds')
      /\ \/ fds' = fds
         \/ /\ FdTrue(w, fds'[d])
            /\ \A c \in Desc : c # d => fds'[c] = fds[c]
  <2>1. CASE fds' = fds
    BY <1>3, <2>1
  <2>2. CASE \E fd : /\ FdOK(w, fd) /\ FdTrue(w, fd)
                     /\ fds' = [fds EXCEPT ![d] = fd]
    <3>1. PICK fd : FdOK(w, fd) /\ FdTrue(w, fd) /\ Put(fds, d, fd, fds')
      BY <2>2 DEF Put
    <3> QED BY <1>3, <3>1, FdsPut
  <2> QED BY <1>2, <2>1, <2>2 DEF Lands
<1>5. ASSUME mishaps = Mishaps
      PROVE  Calm(w, present, own, fds', io)
  <2>1. Calm(VS, present, own, fds, io)
    BY <1>1, <1>5 DEF Inv
  <2>2. Calm(w, present, own, fds, io)
    BY <2>1, TrueKept
  <2>3. own /\ \A i \in DOMAIN io : IoTrue(w, io[i])
    BY <2>2 DEF Calm
  <2> QED BY <1>4, <2>2, <2>3, CalmPut
<1>6. Inv'
  BY <1>1, <1>2, <1>4, <1>5 DEF Inv
<1>7. Pinned(VS, data')
  BY <1>1, <1>2 DEF Pinned
<1> QED BY <1>6, <1>7

LEMMA OpenNameKeeps ==
    ASSUME Inv, NEW d \in Desc, NEW n \in Names, NEW wr \in BOOLEAN,
           NEW trunc \in BOOLEAN, OpenName(d, n, wr, trunc)
    PROVE  /\ Inv' /\ Pinned(VS, data')
           /\ Grown(VS, V')
           /\ \E id \in Int :
                /\ Lands(V', d, n, id, fds')
                /\ fds' = fds \/ (Base[n] = n => NameFound(V', id, n))
<1>1. /\ present' = present /\ root' = root /\ registry' = registry
      /\ io' = io /\ mishaps' = mishaps /\ own' = own /\ fs' = SettledFs
      /\ OpenKind(d, VS, n, Lookup(VS, n), ConfigSlot(VS, Base[n]), wr, trunc)
  BY DEF OpenName, Keep, bounds, VS
<1>2. V' = ViewOf(root, SettledFs, ovf', cfg')
  BY <1>1, Views
<1>3. n \in DOMAIN Base
  BY NameAssumption
<1>4. /\ Grown(VS, V') /\ NamesOK(V')
      /\ \E id \in Int :
           /\ OpenedFine(V', d, n, id, fds', fil', memo', data', known')
           /\ fds' = fds \/ (Base[n] = n => NameFound(V', id, n))
  BY <1>1, <1>2, <1>3, OpenKindIs
<1>5. PICK id \in Int :
           /\ OpenedFine(V', d, n, id, fds', fil', memo', data', known')
           /\ fds' = fds \/ (Base[n] = n => NameFound(V', id, n))
  BY <1>4
<1>6. Inv' /\ Pinned(VS, data')
  BY <1>1, <1>4, <1>5, OpenKeeps
<1>7. Lands(V', d, n, id, fds')
  BY <1>5 DEF OpenedFine
<1> QED BY <1>4, <1>5, <1>6, <1>7

LEMMA SameView ==
    ASSUME root' = root, fs' = SettledFs, ovf' = ovf, cfg' = cfg
    PROVE  V' = VS
BY Views, Fields

LEMMA OpenSlotKeeps ==
    ASSUME Inv, NEW d \in Desc, NEW id \in Int, OpenSlot(d, id)
    PROVE  /\ Inv' /\ Pinned(VS, data') /\ Lands(VS, d, None, id, fds')
<1>1. /\ present' = present /\ root' = root /\ registry' = registry
      /\ io' = io /\ mishaps' = mishaps /\ own' = own /\ fs' = SettledFs
      /\ ovf' = ovf /\ cfg' = cfg /\ OpenData(d, VS, id, None)
  BY DEF OpenSlot, Keep, bounds, VS
<1>2. V' = VS
  BY <1>1, SameView
<1>3. IsView(VS) /\ NamesOK(VS) /\ FilOK(VS, SettledFil)
      /\ MemoOK(VS, SettledMemo) /\ DataOK(data) /\ KnownOK(known)
  BY Settled DEF Inv
<1>4. Grown(VS, VS)
  BY <1>3 DEF Grown, Extended
<1>5. OpenedFine(VS, d, None, id, fds', fil', memo', data', known')
  BY <1>1, <1>3, OpenDataIs
<1>6. Inv' /\ Pinned(VS, data')
  BY <1>1, <1>2, <1>3, <1>4, <1>5, OpenKeeps
<1> QED BY <1>5, <1>6 DEF OpenedFine

LEMMA LayerKeeps ==
    ASSUME Inv, V' = VS, present' = present, fs' = SettledFs,
           registry' = registry, FilOK(VS, fil'), MemoOK(VS, memo'),
           FdsOK(VS, fds'), IoOK(io'), DataOK(data'), KnownOK(known'),
           \/ /\ mishaps' = mishaps
              /\ mishaps = Mishaps => Calm(VS, present, own', fds', io')
           \/ mishaps' = mishaps - 1 /\ mishaps > 0
    PROVE  Inv'
<1>1. IsView(VS) /\ NamesOK(VS) /\ Images(present, SettledFs)
  BY Settled
<1>2. mishaps' \in 0..Mishaps
      /\ (mishaps' = Mishaps => Calm(VS, present, own', fds', io'))
  <2>1. CASE mishaps' = mishaps
             /\ (mishaps = Mishaps => Calm(VS, present, own', fds', io'))
    BY <2>1 DEF Inv
  <2>2. CASE mishaps' = mishaps - 1 /\ mishaps > 0
    <3> DEFINE k == mishaps - 1
    <3>1. k \in 0..Mishaps /\ k # Mishaps
      BY <2>2, BoundAssumption DEF Inv
    <3> HIDE DEF k
    <3>2. mishaps' = k
      BY <2>2 DEF k
    <3> QED BY <3>1, <3>2
  <2> QED BY <2>1, <2>2
<1> QED BY <1>1, <1>2 DEF Inv

\* The blocks that a read delivers and caches while all is calm.
LEMMA FdInUse ==
    ASSUME Inv, NEW d \in Desc, fds[d] # Closed
    PROVE  /\ fds[d].id \in Int /\ fds[d].off \in 0..Cap
           /\ mishaps = Mishaps =>
                /\ VS = V /\ Calm(VS, present, own, fds, io)
                /\ FdTrue(VS, fds[d]) /\ fds[d].file = Path(VS, fds[d].id)
<1>1. IsView(V) /\ FdsOK(V, fds)
  BY DEF Inv
<1>2. fds[d].id \in Int /\ fds[d].off \in 0..Cap
  BY <1>1, FdIs
<1>3. ASSUME mishaps = Mishaps
      PROVE  /\ VS = V /\ Calm(VS, present, own, fds, io)
             /\ FdTrue(VS, fds[d]) /\ fds[d].file = Path(VS, fds[d].id)
  <2>1. VS = V /\ Calm(V, present, own, fds, io)
    BY <1>3, Settled DEF Inv
  <2>2. FdTrue(V, fds[d])
    BY <2>1 DEF Calm
  <2>3. fds[d].file = Path(V, fds[d].id)
    BY <2>2 DEF FdTrue
  <2> QED BY <2>1, <2>2, <2>3
<1> QED BY <1>2, <1>3

\* A read that delivers a block of the file of its id.
LEMMA DeliveredIs ==
    ASSUME Inv, NEW d \in Desc, fds[d] # Closed, fds[d].off < fds[d].size,
           NEW src, Delivered(d, src), NEW ios,
           mishaps = Mishaps =>
              /\ src = [file |-> fds[d].file, at |-> fds[d].off]
              /\ \A i \in DOMAIN ios : IoTrue(VS, ios[i])
    PROVE  /\ FdsOK(VS, fds')
           /\ mishaps = Mishaps => Calm(VS, present, own', fds', ios)
<1> DEFINE fd == fds[d]
           now == [fd EXCEPT !.off = @ + 1]
<1>1. FdsOK(VS, fds) /\ FdOK(VS, fd) /\ fds \in [Desc -> Fd]
  BY Settled DEF FdsOK
<1>2. FdOK(VS, now) /\ (FdTrue(VS, fd) => FdTrue(VS, now))
  BY <1>1, OffsetMoves
<1>3. Put(fds, d, now, fds')
      /\ own' = (src = [file |-> fd.file, at |-> fd.off])
  BY <1>1 DEF Delivered, Put
<1> HIDE DEF now
<1>4. FdsOK(VS, fds') /\ fds'[d] = now
      /\ \A c \in Desc : c # d => fds'[c] = fds[c]
  BY <1>1, <1>2, <1>3, FdsPut
<1>5. ASSUME mishaps = Mishaps
      PROVE  Calm(VS, present, own', fds', ios)
  <2>1. Calm(VS, present, own, fds, io) /\ FdTrue(VS, fd)
    BY <1>5, FdInUse
  <2>2. own' /\ \A i \in DOMAIN ios : IoTrue(VS, ios[i])
    BY <1>3, <1>5
  <2>3. FdTrue(VS, fds'[d])
    BY <1>2, <1>4, <2>1
  <2> QED BY <1>4, <2>1, <2>2, <2>3, SMTT(30) DEF Calm
<1> QED BY <1>4, <1>5

LEMMA ReadMissKeeps ==
    ASSUME Inv, NEW d \in Desc, ReadMiss(d)
    PROVE  Inv' /\ Pinned(VS, data')
<1> DEFINE id == fds[d].id
           off == fds[d].off
           full == Len(io) = IoEntries
<1>1. /\ present' = present /\ root' = root /\ registry' = registry
      /\ ovf' = ovf /\ cfg' = cfg /\ known' = known /\ data' = data
      /\ fs' = SettledFs /\ fds[d] # Closed /\ off < fds[d].size
  BY DEF ReadMiss
<1>2. PICK s, r :
        /\ s = SizeOf(VS, SettledFil, SettledMemo, id)
        /\ r = OpenFil(VS, s.fil, id, FALSE)
        /\ memo' = s.memo
        /\ \/ /\ Usable(r)
              /\ Delivered(d, [file |-> Last(r.fil).path, at |-> off])
              /\ io' = Append(IF full THEN Tail(io) ELSE io,
                              [id |-> id, off |-> off,
                               src |-> [file |-> Last(r.fil).path,
                                        at |-> off]])
              /\ fil' = r.fil /\ mishaps' = mishaps
           \/ /\ Usable(r) /\ mishaps > 0 /\ mishaps' = mishaps - 1
              /\ io' = IF full THEN [io EXCEPT ![1].src = None] ELSE io
              /\ fil' = Spoilt(r.fil) /\ own' = own /\ fds' = fds
           \/ /\ ~Usable(r) /\ fil' = r.fil
              /\ own' = own /\ fds' = fds /\ io' = io /\ mishaps' = mishaps
  BY DEF ReadMiss, VS
<1>3. V' = VS
  BY <1>1, SameView
<1>4. /\ IsView(VS) /\ FilOK(VS, SettledFil) /\ MemoOK(VS, SettledMemo)
      /\ FdsOK(VS, fds) /\ IoOK(io) /\ DataOK(data') /\ KnownOK(known')
  BY <1>1, Settled DEF Inv
<1>5. id \in Int /\ off \in 0..Cap
      /\ (mishaps = Mishaps => /\ Calm(VS, present, own, fds, io)
                               /\ fds[d].file = Path(VS, id))
  BY <1>1, FdInUse
<1>6. FilOK(VS, s.fil) /\ MemoOK(VS, s.memo)
  BY <1>2, <1>4, <1>5, SizeOfIs
<1>7. /\ FilOK(VS, r.fil)
      /\ Usable(r) => /\ r.fil # <<>> /\ Last(r.fil).path = Path(VS, id)
                      /\ Path(VS, id) \in Files
  <2>1. /\ FilOK(VS, r.fil)
        /\ r.ok => /\ r.fil # <<>> /\ Last(r.fil).path = Path(VS, id)
                   /\ Path(VS, id) \in Files
    BY <1>2, <1>4, <1>5, <1>6, OpenFilIs
  <2> QED BY <2>1 DEF Usable
<1> HIDE DEF id, off
<1>8. CASE /\ Usable(r)
           /\ Delivered(d, [file |-> Last(r.fil).path, at |-> off])
           /\ io' = Append(IF full THEN Tail(io) ELSE io,
                           [id |-> id, off |-> off,
                            src |-> [file |-> Last(r.fil).path, at |-> off]])
           /\ fil' = r.fil /\ mishaps' = mishaps
  <2> DEFINE src == [file |-> Path(VS, id), at |-> off]
             new == [id |-> id, off |-> off, src |-> src]
  <2>1. src \in Src /\ new \in IoEntry
    BY <1>5, <1>7, <1>8 DEF Src, IoEntry
  <2>2. Delivered(d, src) /\ Added(io, new, io')
    BY <1>7, <1>8 DEF Added
  <2>3. new.id = id /\ new.off = off /\ new.src = src
    OBVIOUS
  <2>4. IoTrue(VS, new)
    <3>1. Path(VS, id) # None
      BY <1>7, <1>8, NameAssumption
    <3> QED BY <3>1 DEF IoTrue
  <2>5. mishaps = Mishaps => src = [file |-> fds[d].file, at |-> fds[d].off]
    BY <1>5 DEF off
  <2> HIDE DEF src, new
  <2>6. /\ IoOK(io')
        /\ \A i \in DOMAIN io' :
             io'[i] = new \/ \E j \in DOMAIN io : io'[i] = io[j]
    BY <1>4, <2>1, <2>2, IoAppend
  <2>7. mishaps = Mishaps => \A i \in DOMAIN io' : IoTrue(VS, io'[i])
    BY <1>5, <2>4, <2>6 DEF Calm
  <2>8. /\ FdsOK(VS, fds')
        /\ mishaps = Mishaps => Calm(VS, present, own', fds', io')
    BY <1>1, <2>2, <2>5, <2>7, DeliveredIs DEF off
  <2>9. fil' = r.fil /\ mishaps' = mishaps
    BY <1>8
  <2>10. Inv'
    BY <1>1, <1>2, <1>3, <1>4, <1>6, <1>7, <2>6, <2>8, <2>9, LayerKeeps
  <2> QED BY <1>1, <2>10, DataSame
<1>9. CASE /\ Usable(r) /\ mishaps > 0 /\ mishaps' = mishaps - 1
           /\ io' = IF full THEN [io EXCEPT ![1].src = None] ELSE io
           /\ fil' = Spoilt(r.fil) /\ own' = own /\ fds' = fds
  <2>1. FilOK(VS, fil')
    BY <1>7, <1>9, SpoiltIs
  <2>2. IoOK(io')
    <3>1. CASE full
      <4>1. Torn(io, io')
        BY <1>9, <3>1 DEF Torn
      <4> QED BY <1>4, <3>1, <4>1, IoTorn
    <3>2. CASE ~full
      BY <1>4, <1>9, <3>2
    <3> QED BY <3>1, <3>2
  <2>3. FdsOK(VS, fds')
    BY <1>4, <1>9
  <2>4. Inv'
    BY <1>1, <1>2, <1>3, <1>4, <1>6, <1>9, <2>1, <2>2, <2>3, LayerKeeps
  <2> QED BY <1>1, <2>4, DataSame
<1>10. CASE /\ ~Usable(r) /\ fil' = r.fil
            /\ own' = own /\ fds' = fds /\ io' = io /\ mishaps' = mishaps
  <2>1. FilOK(VS, fil') /\ FdsOK(VS, fds') /\ IoOK(io')
        /\ (mishaps = Mishaps => Calm(VS, present, own', fds', io'))
    BY <1>4, <1>5, <1>7, <1>10
  <2>2. Inv'
    BY <1>1, <1>2, <1>3, <1>4, <1>6, <1>10, <2>1, LayerKeeps
  <2> QED BY <1>1, <2>2, DataSame
<1> QED BY <1>2, <1>8, <1>9, <1>10

LEMMA ReadNvKeeps ==
    ASSUME Inv, NEW d \in Desc, ReadNv(d)
    PROVE  Inv' /\ Pinned(VS, data')
<1> DEFINE id == fds[d].id
           off == fds[d].off
<1>1. /\ present' = present /\ root' = root /\ registry' = registry
      /\ ovf' = ovf /\ cfg' = cfg /\ known' = known /\ data' = data
      /\ io' = io /\ fs' = SettledFs /\ memo' = SettledMemo
      /\ fds[d] # Closed /\ off < fds[d].size
  BY DEF ReadNv
<1>2. PICK r :
        /\ r = OpenFil(VS, SettledFil, id, FALSE)
        /\ \/ /\ Usable(r) /\ fil' = r.fil /\ mishaps' = mishaps
              /\ Delivered(d, [file |-> Last(r.fil).path, at |-> off])
           \/ /\ Usable(r) /\ mishaps > 0 /\ mishaps' = mishaps - 1
              /\ fil' = Spoilt(r.fil) /\ own' = own /\ fds' = fds
           \/ /\ ~Usable(r) /\ fil' = r.fil
              /\ own' = own /\ fds' = fds /\ mishaps' = mishaps
  BY DEF ReadNv, HandleFor, VS
<1>3. V' = VS
  BY <1>1, SameView
<1>4. /\ IsView(VS) /\ FilOK(VS, SettledFil) /\ MemoOK(VS, SettledMemo)
      /\ FdsOK(VS, fds) /\ IoOK(io') /\ DataOK(data') /\ KnownOK(known')
      /\ MemoOK(VS, memo')
  BY <1>1, Settled DEF Inv
<1>5. id \in Int /\ off \in 0..Cap
      /\ (mishaps = Mishaps => /\ Calm(VS, present, own, fds, io)
                               /\ fds[d].file = Path(VS, id))
  BY <1>1, FdInUse
<1>6. /\ FilOK(VS, r.fil)
      /\ Usable(r) => r.fil # <<>> /\ Last(r.fil).path = Path(VS, id)
  <2>1. /\ FilOK(VS, r.fil)
        /\ r.ok => r.fil # <<>> /\ Last(r.fil).path = Path(VS, id)
    BY <1>2, <1>4, <1>5, OpenFilIs
  <2> QED BY <2>1 DEF Usable
<1> HIDE DEF id
<1>7. CASE /\ Usable(r) /\ fil' = r.fil /\ mishaps' = mishaps
           /\ Delivered(d, [file |-> Last(r.fil).path, at |-> off])
  <2> DEFINE src == [file |-> Path(VS, id), at |-> off]
  <2>1. Delivered(d, src)
    BY <1>6, <1>7
  <2>2. mishaps = Mishaps => src = [file |-> fds[d].file, at |-> fds[d].off]
    BY <1>5
  <2> HIDE DEF src
  <2>3. mishaps = Mishaps => \A i \in DOMAIN io' : IoTrue(VS, io'[i])
    BY <1>1, <1>5 DEF Calm
  <2>4. /\ FdsOK(VS, fds')
        /\ mishaps = Mishaps => Calm(VS, present, own', fds', io')
    BY <1>1, <2>1, <2>2, <2>3, DeliveredIs
  <2>5. Inv'
    BY <1>1, <1>3, <1>4, <1>6, <1>7, <2>4, LayerKeeps
  <2> QED BY <1>1, <2>5, DataSame
<1>8. CASE /\ Usable(r) /\ mishaps > 0 /\ mishaps' = mishaps - 1
           /\ fil' = Spoilt(r.fil) /\ own' = own /\ fds' = fds
  <2>1. FilOK(VS, fil') /\ FdsOK(VS, fds')
    BY <1>4, <1>6, <1>8, SpoiltIs
  <2>2. Inv'
    BY <1>1, <1>3, <1>4, <1>8, <2>1, LayerKeeps
  <2> QED BY <1>1, <2>2, DataSame
<1>9. CASE /\ ~Usable(r) /\ fil' = r.fil
           /\ own' = own /\ fds' = fds /\ mishaps' = mishaps
  <2>1. FilOK(VS, fil') /\ FdsOK(VS, fds')
        /\ (mishaps = Mishaps => Calm(VS, present, own', fds', io'))
    BY <1>1, <1>4, <1>5, <1>6, <1>9
  <2>2. Inv'
    BY <1>1, <1>3, <1>4, <1>9, <2>1, LayerKeeps
  <2> QED BY <1>1, <2>2, DataSame
<1> QED BY <1>2, <1>7, <1>8, <1>9

\* A write that ends within a file, and what it makes of the descriptor.
Wrote(fd, k, e) ==
    e = [fd EXCEPT !.off = k, !.dirty = TRUE, !.size = Greater(@, k)]

LEMMA WroteIs ==
    ASSUME NEW v, NEW fd, FdOK(v, fd), fd # Closed, fd.wr,
           NEW k \in 0..Cap, NEW e, Wrote(fd, k, e)
    PROVE  FdOK(v, e) /\ (FdTrue(v, fd) => FdTrue(v, e))
<1>1. fd \in Fd /\ fd.nv /\ fd.size \in 0..Cap
  BY DEF FdOK, Fd
<1> DEFINE z == Greater(fd.size, k)
<1>2. z \in 0..Cap
  BY <1>1, BoundAssumption DEF Greater
<1> HIDE DEF z
<1>3. e = [fd EXCEPT !.off = k, !.dirty = TRUE, !.size = z]
  BY <1>1 DEF Wrote, z, Fd
<1>4. e \in Fd /\ e.nv = fd.nv /\ e.wr = fd.wr
      /\ e.id = fd.id /\ e.file = fd.file
  BY <1>1, <1>2, <1>3 DEF Fd
<1> QED BY <1>1, <1>4 DEF FdOK, FdTrue

LEMMA WriteNvKeeps ==
    ASSUME Inv, NEW d \in Desc, WriteNv(d)
    PROVE  Inv' /\ Pinned(VS, data')
<1> DEFINE fd == fds[d]
           id == fd.id
           k == fd.off + 1
<1>1. /\ present' = present /\ root' = root /\ registry' = registry
      /\ ovf' = ovf /\ cfg' = cfg /\ known' = known /\ own' = own
      /\ io' = io /\ fs' = SettledFs /\ memo' = NoMemo
      /\ fd # Closed /\ fd.wr /\ fd.off < Cap
  BY DEF WriteNv
<1>2. PICK r :
        /\ r = OpenFil(VS, SettledFil, id, TRUE)
        /\ \/ /\ Usable(r) /\ fil' = r.fil /\ mishaps' = mishaps
              /\ data' = [data EXCEPT ![Last(r.fil).path][k] = Text]
              /\ fds' = [fds EXCEPT ![d].off = k, ![d].dirty = TRUE,
                                    ![d].size = Greater(@, k)]
           \/ /\ Usable(r) /\ mishaps > 0 /\ mishaps' = mishaps - 1
              /\ fil' = Spoilt(r.fil) /\ data' = data /\ fds' = fds
           \/ /\ ~Usable(r) /\ fil' = r.fil
              /\ data' = data /\ fds' = fds /\ mishaps' = mishaps
  BY DEF WriteNv, HandleFor, VS
<1>3. V' = VS
  BY <1>1, SameView
<1>4. /\ IsView(VS) /\ FilOK(VS, SettledFil)
      /\ FdsOK(VS, fds) /\ IoOK(io') /\ DataOK(data) /\ KnownOK(known')
      /\ MemoOK(VS, memo')
  <2>1. MemoOK(VS, NoMemo)
    BY BoundAssumption DEF MemoOK, NoMemo
  <2> QED BY <1>1, <2>1, Settled DEF Inv
<1>5. id \in Int /\ k \in 0..Cap /\ k \in 1..Cap /\ FdOK(VS, fd)
      /\ Path(VS, id).vol = NvVolume(VS.fs) /\ fds \in [Desc -> Fd]
      /\ (mishaps = Mishaps => Calm(VS, present, own, fds, io))
  <2>1. fd.off \in 0..Cap /\ id \in Int /\ FdOK(VS, fd)
        /\ Path(VS, id).vol = NvVolume(VS.fs)
    BY <1>1, <1>4, FdIs
  <2>2. k \in 1..Cap
    BY <1>1, <2>1, BoundAssumption
  <2> QED BY <1>1, <1>4, <2>1, <2>2, FdInUse DEF FdsOK
<1>6. /\ FilOK(VS, r.fil)
      /\ Usable(r) => r.fil # <<>> /\ Last(r.fil).path = Path(VS, id)
  <2>1. /\ FilOK(VS, r.fil)
        /\ r.ok => r.fil # <<>> /\ Last(r.fil).path = Path(VS, id)
    BY <1>2, <1>4, <1>5, OpenFilIs
  <2> QED BY <2>1 DEF Usable
<1> HIDE DEF id, k
<1>7. CASE /\ Usable(r) /\ fil' = r.fil /\ mishaps' = mishaps
           /\ data' = [data EXCEPT ![Last(r.fil).path][k] = Text]
           /\ fds' = [fds EXCEPT ![d].off = k, ![d].dirty = TRUE,
                                 ![d].size = Greater(@, k)]
  <2> DEFINE p == Path(VS, id)
             new == [fd EXCEPT !.off = k, !.dirty = TRUE,
                               !.size = Greater(@, k)]
  <2>1. Wrote(fd, k, new)
    BY DEF Wrote
  <2>2. Put(fds, d, new, fds')
    BY <1>5, <1>7 DEF Put
  <2> HIDE DEF new, p
  <2>3. FdOK(VS, new) /\ (FdTrue(VS, fd) => FdTrue(VS, new))
    BY <1>1, <1>5, <2>1, WroteIs
  <2>4. FdsOK(VS, fds') /\ fds'[d] = new
        /\ \A c \in Desc : c # d => fds'[c] = fds[c]
    BY <1>4, <2>2, <2>3, FdsPut
  <2>5. ASSUME mishaps = Mishaps
        PROVE  Calm(VS, present, own', fds', io')
    <3>1. Calm(VS, present, own, fds, io)
      BY <1>5, <2>5
    <3>2. FdTrue(VS, fds'[d])
      BY <2>3, <2>4, <3>1 DEF Calm
    <3> QED BY <1>1, <2>4, <3>1, <3>2, SMTT(30) DEF Calm
  <2>6. data' = [data EXCEPT ![p][k] = Text]
    BY <1>6, <1>7 DEF p
  <2>7. DataOK(data')
    BY <1>4, <1>5, <2>6 DEF DataOK
  <2>8. Pinned(VS, data')
    <3>1. \A q \in NvFiles : data'[q] # data[q] => q = p
      BY <1>4, <2>6 DEF DataOK
    <3> QED BY <1>5, <3>1 DEF Pinned, p
  <2>9. FilOK(VS, fil') /\ mishaps' = mishaps
    BY <1>6, <1>7
  <2>10. Inv'
    BY <1>1, <1>3, <1>4, <2>4, <2>5, <2>7, <2>9, LayerKeeps
  <2> QED BY <2>8, <2>10
<1>8. CASE /\ Usable(r) /\ mishaps > 0 /\ mishaps' = mishaps - 1
           /\ fil' = Spoilt(r.fil) /\ data' = data /\ fds' = fds
  <2>1. FilOK(VS, fil') /\ FdsOK(VS, fds') /\ DataOK(data')
    BY <1>4, <1>6, <1>8, SpoiltIs
  <2>2. Inv'
    BY <1>1, <1>3, <1>4, <1>8, <2>1, LayerKeeps
  <2> QED BY <1>8, <2>2, DataSame
<1>9. CASE /\ ~Usable(r) /\ fil' = r.fil
           /\ data' = data /\ fds' = fds /\ mishaps' = mishaps
  <2>1. FilOK(VS, fil') /\ FdsOK(VS, fds') /\ DataOK(data')
        /\ (mishaps = Mishaps => Calm(VS, present, own', fds', io'))
    BY <1>1, <1>4, <1>5, <1>6, <1>9
  <2>2. Inv'
    BY <1>1, <1>3, <1>4, <1>9, <2>1, LayerKeeps
  <2> QED BY <1>9, <2>2, DataSame
<1> QED BY <1>2, <1>7, <1>8, <1>9

\* of_nvslot_set_size
LEMMA TrimmedIs ==
    ASSUME DataOK(data), NEW p, NEW id, NEW size \in 0..Cap,
           NEW new, new = Trimmed(p, id, size)
    PROVE  /\ DataOK([data EXCEPT ![p] = new])
           /\ \A q \in NvFiles :
                [data EXCEPT ![p] = new][q] # data[q] => q = p
<1>1. p \in NvFiles => new \in [1..Cap -> {Blank, Text}]
  <2>1. CASE size = 0
    <3>1. 1 \in 1..Cap
      BY BoundAssumption
    <3> QED BY <2>1, <3>1 DEF Trimmed, DataOK
  <2>2. CASE size # 0
    BY <2>2 DEF Trimmed, Blanked, DataOK
  <2> QED BY <2>1, <2>2
<1> QED BY <1>1 DEF DataOK

LEMMA CloseDirtyKeeps ==
    ASSUME Inv, NEW d \in Desc, CloseDirty(d)
    PROVE  Inv' /\ Pinned(VS, data')
<1> DEFINE id == fds[d].id
           size == fds[d].size
<1>1. /\ present' = present /\ root' = root /\ registry' = registry
      /\ ovf' = ovf /\ cfg' = cfg /\ io' = io /\ own' = own
      /\ mishaps' = mishaps /\ fds[d] # Closed /\ fds[d].dirty
      /\ fds' = [fds EXCEPT ![d] = Closed]
  BY DEF CloseDirty, bounds
<1>2. /\ id \in Int /\ size \in 0..Cap /\ id \in NvIds
      /\ Path(VS, id).vol = NvVolume(VS.fs) /\ size \in Unknown..Cap
  <2>1. IsView(VS) /\ FdsOK(VS, fds)
    BY Settled
  <2>2. /\ id \in Int /\ size \in 0..Cap /\ id \in NvIds
        /\ Path(VS, id).vol = NvVolume(VS.fs)
    BY <1>1, <2>1, FdIs
  <2> QED BY <2>2, BoundAssumption DEF Unknown
<1>3. Put(fds, d, Closed, fds')
  BY <1>1 DEF Put
<1>4. ASSUME NEW w, FdsOK(w, fds)
      PROVE  /\ FdsOK(w, fds')
             /\ Calm(w, present, own, fds, io) =>
                   Calm(w, present, own', fds', io')
  <2>1. FdOK(w, Closed) /\ FdTrue(w, Closed)
    BY ClosedIs DEF FdOK, FdTrue
  <2>2. FdsOK(w, fds') /\ fds'[d] = Closed
        /\ \A c \in Desc : c # d => fds'[c] = fds[c]
    BY <1>3, <1>4, <2>1, FdsPut
  <2> QED BY <1>1, <2>1, <2>2, SMTT(30) DEF Calm
<1> HIDE DEF id, size
<1>5. CASE /\ known' = [known EXCEPT ![id] = size] /\ fs' = fs
           /\ fil' = fil /\ memo' = memo /\ data' = data
  <2>1. V' = V
    BY <1>1, <1>5, Views, Fields
  <2>2. KnownOK(known')
    BY <1>2, <1>5 DEF KnownOK, Inv
  <2>3. FdsOK(V, fds')
        /\ (mishaps = Mishaps => Calm(V, present, own', fds', io'))
    BY <1>4 DEF Inv
  <2>4. Inv'
    BY <1>1, <1>5, <2>1, <2>2, <2>3 DEF Inv
  <2> QED BY <1>5, <2>4, DataSame
<1>6. CASE /\ fs' = SettledFs
           /\ \E v \in {View(SettledFs, ovf, cfg)} :
              \E p \in {Path(v, id)} : \E new \in {Trimmed(p, id, size)} :
              \E wr \in {size = 0 \/ (p \in NvFiles /\ new # data[p])} :
              \E r \in {OpenFil(v, SettledFil, id, wr)} :
                /\ fil' = r.fil
                /\ memo' = IF wr THEN NoMemo ELSE SettledMemo
                /\ known' = [known EXCEPT ![id] = IF Usable(r) THEN size
                                                 ELSE Unknown]
                /\ data' = IF Usable(r) THEN [data EXCEPT ![p] = new] ELSE data
  <2>1. PICK p, new, wr, r :
          /\ p = Path(VS, id) /\ new = Trimmed(p, id, size)
          /\ wr = (size = 0 \/ (p \in NvFiles /\ new # data[p]))
          /\ r = OpenFil(VS, SettledFil, id, wr)
          /\ fil' = r.fil
          /\ memo' = IF wr THEN NoMemo ELSE SettledMemo
          /\ known' = [known EXCEPT ![id] = IF Usable(r) THEN size ELSE Unknown]
          /\ data' = IF Usable(r) THEN [data EXCEPT ![p] = new] ELSE data
    BY <1>6 DEF VS
  <2>2. wr \in BOOLEAN
    BY <2>1
  <2>3. /\ IsView(VS) /\ FilOK(VS, SettledFil) /\ MemoOK(VS, SettledMemo)
        /\ FdsOK(VS, fds) /\ IoOK(io) /\ DataOK(data) /\ KnownOK(known)
        /\ mishaps = Mishaps => Calm(VS, present, own, fds, io)
    BY <1>1, Settled, FdInUse DEF Inv
  <2>4. FilOK(VS, fil')
    BY <1>2, <2>1, <2>2, <2>3, OpenFilIs
  <2>5. MemoOK(VS, memo')
    <3>1. MemoOK(VS, NoMemo)
      BY BoundAssumption DEF MemoOK, NoMemo
    <3> QED BY <2>1, <2>3, <3>1
  <2>6. KnownOK(known')
    <3>1. Unknown \in Unknown..Cap
      BY BoundAssumption DEF Unknown
    <3> QED BY <1>2, <2>1, <2>3, <3>1 DEF KnownOK
  <2>7. DataOK(data') /\ \A q \in NvFiles : data'[q] # data[q] => q = p
    BY <1>2, <2>1, <2>3, TrimmedIs
  <2>8. FdsOK(VS, fds')
        /\ (mishaps = Mishaps => Calm(VS, present, own', fds', io'))
    BY <1>4, <2>3
  <2>9. V' = VS
    BY <1>1, <1>6, SameView
  <2>10. Inv'
    BY <1>1, <1>6, <2>3, <2>4, <2>5, <2>6, <2>7, <2>8, <2>9, LayerKeeps
  <2>11. Pinned(VS, data')
    BY <1>2, <2>1, <2>7 DEF Pinned
  <2> QED BY <2>10, <2>11
<1> QED BY <1>5, <1>6 DEF CloseDirty, id, size

LEMMA EjectKeeps ==
    ASSUME Inv, NEW v, Eject(v)
    PROVE  Inv' /\ Pinned(VS, data')
<1>1. /\ present' = [present EXCEPT ![v] = FALSE]
      /\ root' = root /\ registry' = registry /\ fs' = fs
      /\ ovf' = ovf /\ cfg' = cfg /\ io' = io /\ own' = own /\ fil' = fil
      /\ memo' = memo /\ known' = known /\ fds' = fds /\ data' = data
      /\ mishaps > 0 /\ mishaps' = mishaps - 1
  BY DEF Eject, nameVars
<1>2. V' = V
  BY <1>1, Views, Fields
<1>3. mishaps' \in 0..Mishaps /\ mishaps' # Mishaps
  <2> DEFINE k == mishaps - 1
  <2>1. k \in 0..Mishaps /\ k # Mishaps
    BY <1>1, BoundAssumption DEF Inv
  <2> HIDE DEF k
  <2>2. mishaps' = k
    BY <1>1 DEF k
  <2> QED BY <2>1, <2>2
<1>4. present' \in [Vols -> BOOLEAN] /\ Images(present', fs')
  BY <1>1 DEF Inv, Images
<1>5. Inv'
  BY <1>1, <1>2, <1>3, <1>4 DEF Inv
<1> QED BY <1>1, <1>5, DataSame

\* What a start leaves: no names bound, nothing open, nothing cached.
LEMMA ProbingIs ==
    ASSUME NEW v, IsView(v)
    PROVE  RegOK(Probing[MountedOf(v.fs)][v.root])
<1> DEFINE m == MountedOf(v.fs)
           r == v.root
           dyn == Enumerated[m][r]
           all == {Entry(id, FixedNv[id]) : id \in DOMAIN FixedNv} \cup
                  {Entry(id, FixedRead[id]) :
                      id \in {i \in DOMAIN FixedRead :
                                 Shared[m][i] # None}} \cup
                  {Entry(DynIds[i], dyn[i].name) : i \in DOMAIN dyn}
           T == [id : FixedIds \cup ToSet(DynIds), name : DOMAIN Base]
<1>1. m \in SUBSET Vols /\ r \in Roots
  BY ViewTypes DEF MountedOf
<1>2. v.dyn = dyn
  BY ViewTypes, FieldsOfView
<1>3. \A id \in DOMAIN FixedNv : Entry(id, FixedNv[id]) \in T
  BY NameAssumption DEF Entry, FixedIds, FixedNames
<1>4. \A id \in DOMAIN FixedRead : Entry(id, FixedRead[id]) \in T
  BY NameAssumption DEF Entry, FixedIds
<1>5. ASSUME NEW i \in DOMAIN dyn
      PROVE  Entry(DynIds[i], dyn[i].name) \in T
  <2>1. i \in DOMAIN DynIds /\ dyn[i] \in Files
    BY <1>2, DynIs, DynFound
  <2>2. DynIds[i] \in ToSet(DynIds) /\ dyn[i].name \in DOMAIN Base
    BY <2>1, FileShape DEF ToSet
  <2> QED BY <2>2 DEF Entry
<1>6. all \subseteq T
  BY <1>3, <1>4, <1>5
<1>7. Probing[m][r] =
         {e \in all : \A f \in all : f.name = e.name => e.id <= f.id}
  BY <1>1 DEF Probing
<1> HIDE DEF all, m, r, T
<1>8. Probing[m][r] \subseteq T
  BY <1>6, <1>7
<1> QED BY <1>8 DEF RegOK, m, r, T

LEMMA StartIs ==
    ASSUME NEW r \in Roots, NEW f \in [Vols -> States],
           NEW w, w = ViewOf(r, f, <<>>, <<>>)
    PROVE  /\ IsView(w) /\ NamesOK(w) /\ FilOK(w, <<>>) /\ MemoOK(w, NoMemo)
           /\ FdsOK(w, [d \in Desc |-> Closed]) /\ IoOK(<<>>)
           /\ RegOK(Probing[MountedOf(f)][r])
           /\ \A p : (\A u \in Vols : p[u] <=> f[u] # "unmounted") =>
                Calm(w, p, TRUE, [d \in Desc |-> Closed], <<>>)
<1>1. w.root = r /\ w.fs = f /\ w.ovf = <<>> /\ w.cfg = <<>>
  BY FieldsOfView
<1>2. IsView(w)
  <2>1. <<>> \in Seq(Files) /\ <<>> \in Seq(DOMAIN Base) /\ Len(<<>>) = 0
    OBVIOUS
  <2>2. 0 <= OvfCount /\ 0 <= CfgCount
    BY IdAssumption
  <2> QED BY <2>1, <2>2 DEF IsView
<1>3. NamesOK(w)
  BY <1>1 DEF NamesOK, Shaded, Leading, OvfOnce, CfgOnce, CfgFlat
<1>4. FilOK(w, <<>>)
  BY BoundAssumption DEF FilOK, Lawful, OnTheirFiles
<1>5. MemoOK(w, NoMemo)
  BY BoundAssumption DEF MemoOK, NoMemo
<1>6. FdsOK(w, [d \in Desc |-> Closed])
  BY ClosedIs DEF FdsOK, FdOK
<1>7. IoOK(<<>>)
  BY BoundAssumption DEF IoOK
<1>8. RegOK(Probing[MountedOf(f)][r])
  BY <1>1, <1>2, ProbingIs
<1>9. ASSUME NEW p, \A u \in Vols : p[u] <=> f[u] # "unmounted"
      PROVE  Calm(w, p, TRUE, [d \in Desc |-> Closed], <<>>)
  BY <1>1, <1>9 DEF Calm, FdTrue
<1> QED BY <1>2, <1>3, <1>4, <1>5, <1>6, <1>7, <1>8, <1>9

LEMMA RelaunchKeeps ==
    ASSUME Inv, NEW r \in Roots, Relaunch(r)
    PROVE  Inv' /\ Pinned(VS, data')
<1>1. /\ present' = present /\ root' = r /\ fs' = SettledFs
      /\ registry' = Probing[MountedOf(fs')][root']
      /\ ovf' = <<>> /\ cfg' = <<>> /\ io' = <<>> /\ fil' = <<>>
      /\ memo' = NoMemo /\ fds' = [d \in Desc |-> Closed]
      /\ known' = known /\ own' = own /\ mishaps' = mishaps /\ data' = data
  BY DEF Relaunch, Restarted, Probed, Desc
<1>2. V' = ViewOf(r, SettledFs, <<>>, <<>>)
  BY <1>1, Views
<1>3. SettledFs \in [Vols -> States] /\ Images(present, SettledFs)
      /\ \A u \in Vols : present[u] <=> SettledFs[u] # "unmounted"
  BY Settled, ViewTypes, Fields
<1>4. /\ IsView(V') /\ NamesOK(V') /\ FilOK(V', <<>>) /\ MemoOK(V', NoMemo)
      /\ FdsOK(V', [d \in Desc |-> Closed]) /\ IoOK(<<>>)
      /\ RegOK(Probing[MountedOf(SettledFs)][r])
      /\ Calm(V', present, TRUE, [d \in Desc |-> Closed], <<>>)
  BY <1>2, <1>3, StartIs
<1>5. mishaps = Mishaps => Calm(V', present', own', fds', io')
  BY <1>1, <1>4 DEF Inv, Calm
<1>6. RegOK(registry')
  BY <1>1, <1>4
<1>7. Inv'
  BY <1>1, <1>3, <1>4, <1>5, <1>6 DEF Inv
<1> QED BY <1>1, <1>7, DataSame

LEMMA InsertKeeps ==
    ASSUME Inv, NEW v \in Vols, NEW r \in Roots, Insert(v, r)
    PROVE  Inv' /\ Pinned(VS, data')
<1>1. /\ present' = [present EXCEPT ![v] = TRUE] /\ root' = r
      /\ fs' = [u \in Vols |->
                  IF ~present'[u] THEN "unmounted"
                  ELSE IF u \in Formatted THEN "mounted" ELSE "failed"]
      /\ registry' = Probing[MountedOf(fs')][root']
      /\ ovf' = <<>> /\ cfg' = <<>> /\ io' = <<>> /\ fil' = <<>>
      /\ memo' = NoMemo /\ fds' = [d \in Desc |-> Closed]
      /\ known' = [id \in NvIds |-> Unknown] /\ own' = TRUE
      /\ mishaps' = mishaps /\ data' = data
  BY DEF Insert, Restarted, Probed, MountState, bounds, Desc
<1>2. V' = ViewOf(r, fs', <<>>, <<>>)
  BY <1>1, Views
<1>3. present' \in [Vols -> BOOLEAN] /\ fs' \in [Vols -> States]
      /\ Images(present', fs')
      /\ \A u \in Vols : present'[u] <=> fs'[u] # "unmounted"
  BY <1>1 DEF Inv, Images, States
<1>4. /\ IsView(V') /\ NamesOK(V') /\ FilOK(V', <<>>) /\ MemoOK(V', NoMemo)
      /\ FdsOK(V', [d \in Desc |-> Closed]) /\ IoOK(<<>>)
      /\ RegOK(Probing[MountedOf(fs')][r])
      /\ Calm(V', present', TRUE, [d \in Desc |-> Closed], <<>>)
  BY <1>2, <1>3, StartIs
<1>5. mishaps = Mishaps => Calm(V', present', own', fds', io')
  BY <1>1, <1>4
<1>6. RegOK(registry') /\ KnownOK(known')
  <2>1. Unknown \in Unknown..Cap
    BY BoundAssumption DEF Unknown
  <2> QED BY <1>1, <1>4, <2>1 DEF KnownOK
<1>7. Inv'
  BY <1>1, <1>3, <1>4, <1>5, <1>6 DEF Inv
<1> QED BY <1>1, <1>7, DataSame

LEMMA InvInit ==
    ASSUME Init
    PROVE  Inv
<1>1. /\ root \in Roots
      /\ fs = [v \in Vols |->
                 IF ~present[v] THEN "unmounted"
                 ELSE IF v \in Formatted THEN "mounted" ELSE "failed"]
      /\ registry = Probing[MountedOf(fs)][root]
      /\ ovf = <<>> /\ cfg = <<>> /\ io = <<>> /\ fil = <<>>
      /\ memo = NoMemo /\ fds = [d \in Desc |-> Closed]
      /\ known = [id \in NvIds |-> Unknown] /\ own = TRUE
      /\ mishaps = Mishaps
  BY DEF Init, Probed, MountState, Desc
<1>2. present \in [Vols -> BOOLEAN] /\ fs \in [Vols -> States]
      /\ Images(present, fs)
      /\ \A u \in Vols : present[u] <=> fs[u] # "unmounted"
  BY <1>1 DEF Init, Images, States
<1>3. V = ViewOf(root, fs, <<>>, <<>>)
  BY <1>1, Fields
<1>4. /\ IsView(V) /\ NamesOK(V) /\ FilOK(V, <<>>) /\ MemoOK(V, NoMemo)
      /\ FdsOK(V, [d \in Desc |-> Closed]) /\ IoOK(<<>>)
      /\ RegOK(Probing[MountedOf(fs)][root])
      /\ Calm(V, present, TRUE, [d \in Desc |-> Closed], <<>>)
  BY <1>1, <1>2, <1>3, StartIs
<1>5. RegOK(registry) /\ KnownOK(known)
  <2>1. Unknown \in Unknown..Cap
    BY BoundAssumption DEF Unknown
  <2> QED BY <1>1, <1>4, <2>1 DEF KnownOK
<1>6. DataOK(data)
  BY DEF Init, DataOK
<1>7. mishaps \in 0..Mishaps
  BY <1>1, BoundAssumption
<1> QED BY <1>1, <1>2, <1>4, <1>5, <1>6, <1>7 DEF Inv

LEMMA StutterKeeps ==
    ASSUME Inv, UNCHANGED vars
    PROVE  Inv' /\ Pinned(VS, data')
<1>1. /\ present' = present /\ root' = root /\ registry' = registry
      /\ fs' = fs /\ ovf' = ovf /\ cfg' = cfg /\ io' = io /\ own' = own
      /\ fil' = fil /\ memo' = memo /\ known' = known /\ fds' = fds
      /\ data' = data /\ mishaps' = mishaps
  BY DEF vars, nameVars, bounds
<1>2. V' = V
  BY <1>1, Views, Fields
<1> QED BY <1>1, <1>2, DataSame DEF Inv

\* What happens in a step.
LEMMA Steps ==
    ASSUME [Next]_vars
    PROVE  \/ \E d \in Desc :
                \/ \E n \in Names, wr, trunc \in BOOLEAN :
                      OpenName(d, n, wr, trunc)
                \/ \E id \in SlotIds : OpenSlot(d, id)
                \/ ReadHit(d) \/ ReadMiss(d) \/ ReadNv(d) \/ WriteNv(d)
                \/ CloseDirty(d) \/ Close(d)
           \/ \E r \in Roots : Relaunch(r)
           \/ \E v \in Removable : Eject(v)
           \/ \E v \in Vols, r \in Roots : Insert(v, r)
           \/ UNCHANGED vars
BY DEF Next, Desc

LEMMA InvNext ==
    ASSUME Inv, [Next]_vars
    PROVE  Inv' /\ Pinned(VS, data')
<1>1. ASSUME NEW d \in Desc, NEW n \in Names, NEW wr \in BOOLEAN,
             NEW trunc \in BOOLEAN, OpenName(d, n, wr, trunc)
      PROVE  Inv' /\ Pinned(VS, data')
  BY <1>1, OpenNameKeeps
<1>2. ASSUME NEW d \in Desc, NEW id \in SlotIds, OpenSlot(d, id)
      PROVE  Inv' /\ Pinned(VS, data')
  <2>1. id \in Int
    BY IdAssumption
  <2> QED BY <1>2, <2>1, OpenSlotKeeps
<1>3. ASSUME NEW d \in Desc,
             \/ ReadHit(d) \/ ReadMiss(d) \/ ReadNv(d) \/ WriteNv(d)
             \/ CloseDirty(d) \/ Close(d)
      PROVE  Inv' /\ Pinned(VS, data')
  BY <1>3, ReadHitKeeps, ReadMissKeeps, ReadNvKeeps, WriteNvKeeps,
     CloseDirtyKeeps, CloseKeeps
<1>4. ASSUME NEW r \in Roots, Relaunch(r)
      PROVE  Inv' /\ Pinned(VS, data')
  BY <1>4, RelaunchKeeps
<1>5. ASSUME NEW v \in Removable, Eject(v)
      PROVE  Inv' /\ Pinned(VS, data')
  BY <1>5, EjectKeeps
<1>6. ASSUME NEW v \in Vols, NEW r \in Roots, Insert(v, r)
      PROVE  Inv' /\ Pinned(VS, data')
  BY <1>6, InsertKeeps
<1> QED BY <1>1, <1>2, <1>3, <1>4, <1>5, <1>6, Steps, StutterKeeps

\* The invariant of the file layer holds of every run: the images that FatFs
\* knows, the ids and names bound, the handles kept, the size memo, the
\* descriptors and the cached blocks agree with each other, and while no image
\* went and no disk call failed they agree with the files (mister/file.c,
\* syscall.c).
THEOREM InvHolds == Spec => []Inv
<1>1. Init => Inv
  BY InvInit
<1>2. Inv /\ [Next]_vars => Inv'
  BY InvNext
<1> QED BY <1>1, <1>2, PTL DEF Spec

LEMMA InvTypes ==
    ASSUME Inv
    PROVE  TypeOK
<1>1. /\ fs \in [Vols -> States] /\ root \in Roots
      /\ Len(ovf) <= OvfCount /\ Len(cfg) <= CfgCount
  BY Fields, ViewTypes DEF Inv
<1>2. fil \in Seq(Handle) /\ Len(fil) <= FilSlots /\ Lawful(fil)
  BY DEF Inv, FilOK
<1>3. Len(io) <= IoEntries /\ memo.size \in -1..Cap
  BY DEF Inv, IoOK, MemoOK
<1>4. \A d \in 1..FDs : fds[d].off \in 0..Cap /\ fds[d].size \in 0..Cap
  BY DEF Inv, FdsOK, Fd, Desc
<1> QED BY <1>1, <1>2, <1>3, <1>4
        DEF TypeOK, Inv, RegOK, KnownOK, DataOK, States, Lawful

\* The tables keep to their sizes, and FatFs' rule on open files holds of the
\* handles kept: open_slot_impl and cfg_drop_alias_handles never leave a file
\* open twice, once of them for writing.
THEOREM TypesHold == Spec => []TypeOK
<1>1. Inv => TypeOK
  BY InvTypes
<1> QED BY <1>1, InvHolds, PTL

\* sys_read returns the block of the file that the descriptor was opened on,
\* from the block cache or from the disk, over any reuse of cache entries,
\* handles and ids, as long as no image goes and no disk call fails.
THEOREM ReadsOwnFileHolds == Spec => []ReadsOwnFile
<1>1. Inv => ReadsOwnFile
  BY DEF Inv, Calm, ReadsOwnFile
<1> QED BY <1>1, InvHolds, PTL

LEMMA SettledIs ==
    ASSUME Inv, NEW v \in Vols
    PROVE  SettledFs[v] = "mounted" <=> present[v] /\ v \in Formatted
<1>1. Images(present, SettledFs) /\ SettledFs \in [Vols -> States]
      /\ (present[v] <=> SettledFs[v] # "unmounted")
  BY Settled, Fields, ViewTypes
<1> QED BY <1>1 DEF Images, States

LEMMA PinnedStep ==
    ASSUME Inv, Pinned(VS, data')
    PROVE  \A p \in NvFiles : data'[p] # data[p] =>
              p.vol = IF present[1] /\ 1 \in Formatted THEN 1 ELSE 0
<1>1. VS.fs = SettledFs
  BY Fields
<1>2. SettledFs[1] = "mounted" <=> present[1] /\ 1 \in Formatted
  <2>1. 1 \in Vols
    BY ThreeVols
  <2> DEFINE one == 1
  <2>2. one \in Vols
    BY <2>1
  <2> HIDE DEF one
  <2>3. SettledFs[one] = "mounted" <=> present[one] /\ one \in Formatted
    BY <2>2, SettledIs
  <2> QED BY <2>3 DEF one
<1> QED BY <1>1, <1>2 DEF Pinned, NvVolume, Mounted

\* What of_nvslot_write and of_nvslot_set_size change is on the image that
\* nv_volume names, the instance's if it is in, whatever handles were kept.
THEOREM NvStaysHolds == Spec => NvStays
<1>1. Inv /\ [Next]_vars =>
        [\A p \in NvFiles : data'[p] # data[p] =>
            p.vol = IF present[1] /\ 1 \in Formatted THEN 1 ELSE 0]_vars
  BY InvNext, PinnedStep
<1> QED BY <1>1, InvHolds, PTL DEF Spec, NvStays

\* Only an open takes a descriptor into use.
LEMMA NoneOpened ==
    ASSUME Inv, [Next]_vars, NEW c \in Desc, OpenedAt(c),
           Flat(fds'[c].name)
    PROVE  \E n \in Names, wr, trunc \in BOOLEAN : OpenName(c, n, wr, trunc)
<1>1. fds \in [Desc -> Fd]
  BY DEF Inv, FdsOK
<1>2. fds[c] = Closed /\ fds'[c] # Closed
  BY DEF OpenedAt
<1>3. ASSUME NEW d \in Desc, NEW n \in Names, NEW wr \in BOOLEAN,
             NEW trunc \in BOOLEAN, OpenName(d, n, wr, trunc)
      PROVE  \E m \in Names, x, t \in BOOLEAN : OpenName(c, m, x, t)
  <2>1. PICK id \in Int : Lands(V', d, n, id, fds')
    BY <1>3, OpenNameKeeps
  <2>2. d = c
    BY <1>1, <1>2, <2>1 DEF Lands
  <2> QED BY <1>3, <2>2
<1>4. ASSUME NEW d \in Desc, NEW id \in SlotIds, OpenSlot(d, id)
      PROVE  FALSE
  <2>1. id \in Int
    BY IdAssumption
  <2>2. Lands(VS, d, None, id, fds')
    BY <1>4, <2>1, OpenSlotKeeps
  <2>3. fds'[c].name = None
    BY <1>1, <1>2, <2>2 DEF Lands
  <2> QED BY <2>3 DEF Flat
<1>5. ASSUME NEW d \in Desc,
             \/ ReadHit(d) \/ ReadMiss(d) \/ ReadNv(d) \/ WriteNv(d)
             \/ CloseDirty(d) \/ Close(d)
      PROVE  FALSE
  <2>1. fds[d] # Closed
    BY <1>5 DEF ReadHit, ReadMiss, ReadNv, WriteNv, CloseDirty, Close
  <2>2. fds'[c] = fds[c]
    <3>1. CASE ReadHit(d) \/ ReadMiss(d) \/ ReadNv(d)
      BY <1>1, <1>2, <2>1, <3>1 DEF ReadHit, ReadMiss, ReadNv, Delivered
    <3>2. CASE WriteNv(d)
      BY <1>1, <1>2, <2>1, <3>2 DEF WriteNv
    <3>3. CASE CloseDirty(d) \/ Close(d)
      BY <1>1, <1>2, <2>1, <3>3 DEF CloseDirty, Close
    <3> QED BY <1>5, <3>1, <3>2, <3>3
  <2> QED BY <1>2, <2>2
<1>6. ASSUME \/ \E r \in Roots : Relaunch(r)
             \/ \E v \in Removable : Eject(v)
             \/ \E v \in Vols, r \in Roots : Insert(v, r)
             \/ UNCHANGED vars
      PROVE  FALSE
  BY <1>2, <1>6 DEF Relaunch, Eject, Insert, Restarted, Desc, vars
<1> QED BY <1>3, <1>4, <1>5, <1>6, Steps

LEMMA OpenedName ==
    ASSUME Inv, NEW c \in Desc, NEW n \in Names, NEW wr \in BOOLEAN,
           NEW trunc \in BOOLEAN, OpenName(c, n, wr, trunc), OpenedAt(c),
           Flat(fds'[c].name)
    PROVE  LET f == fds'[c].file IN
           /\ f.name = fds'[c].name
           /\ Mounted(fs', 1) /\ f.vol # 1 =>
                \A dir \in ReadDirs(root, f.name) :
                    File(1, dir, f.name) \notin Files
<1>1. /\ fds \in [Desc -> Fd] /\ fds[c] = Closed /\ fds'[c] # Closed
      /\ n \in DOMAIN Base
  BY NameAssumption DEF Inv, FdsOK, OpenedAt
<1>2. PICK id \in Int :
        /\ Lands(V', c, n, id, fds')
        /\ fds' = fds \/ (Base[n] = n => NameFound(V', id, n))
  BY OpenNameKeeps
<1>3. PICK fd : /\ FdTrue(V', fd) /\ fd.name = n /\ fd.id = id
                /\ fds' = [fds EXCEPT ![c] = fd]
  BY <1>1, <1>2 DEF Lands
<1>4. fds'[c] = fd /\ fds' # fds
  BY <1>1, <1>3
<1>5. Base[n] = n
  BY <1>3, <1>4 DEF Flat
<1>6. fd.file = Path(V', id) /\ fd.file # None
  BY <1>1, <1>3, <1>4 DEF FdTrue
<1>7. V'.fs = fs' /\ V'.root = root
  <2>1. root' = root
    BY DEF OpenName, Keep
  <2> QED BY <2>1, Views, FieldsOfView
<1>8. NameFound(V', id, n)
  BY <1>2, <1>4, <1>5
<1> QED BY <1>3, <1>4, <1>6, <1>7, <1>8 DEF NameFound, Mounted

\* sys_openat gives a flat name a file of that name, and never one of another
\* image while the instance's has it: registry, dynamic ids, overflow table
\* and settings agree also after images came and went.
THEOREM OpenFindsNameHolds == Spec => OpenFindsName
<1>1. Inv /\ [Next]_vars =>
        [\A d \in 1..FDs : OpenedAt(d) /\ Flat(fds'[d].name) =>
            LET f == fds'[d].file IN
            /\ f.name = fds'[d].name
            /\ Mounted(fs', 1) /\ f.vol # 1 =>
                \A dir \in ReadDirs(root, f.name) :
                    File(1, dir, f.name) \notin Files
        ]_vars
  <2> SUFFICES ASSUME Inv, [Next]_vars, NEW d \in 1..FDs, OpenedAt(d),
                      Flat(fds'[d].name)
               PROVE  LET f == fds'[d].file IN
                      /\ f.name = fds'[d].name
                      /\ Mounted(fs', 1) /\ f.vol # 1 =>
                          \A dir \in ReadDirs(root, f.name) :
                              File(1, dir, f.name) \notin Files
    OBVIOUS
  <2>1. d \in Desc
    BY DEF Desc
  <2> QED BY <2>1, NoneOpened, OpenedName
<1> QED BY <1>1, InvHolds, PTL DEF Spec, OpenFindsName

---------------------------------------------------------------------------
\* The handles that a settings file has under other ids.
LEMMA TwoLowest ==
    ASSUME NEW v, NEW n, AliasIds(v, n) \subseteq Int
    PROVE  \A a \in AliasIds(v, n) : \E b \in AliasIds(v, n) :
              AliasIds(v, n) \subseteq {a, b}
<1> DEFINE ids == AliasIds(v, n)
<1>1. \A a, b, c \in ids : b < c => a <= c
  BY DEF AliasIds
<1> HIDE DEF ids
<1>2. ids \subseteq Int
  BY DEF ids
<1>3. ASSUME NEW a \in ids, NEW b \in ids, NEW c \in ids,
             a # b, b # c, a # c
      PROVE  FALSE
  <2>1. a \in Int /\ b \in Int /\ c \in Int
    BY <1>2
  <2>2. (b < c => a <= c) /\ (c < b => a <= b) /\ (a < b => c <= b)
        /\ (b < a => c <= a) /\ (a < c => b <= c) /\ (c < a => b <= a)
    BY <1>1
  <2> QED BY <2>1, <2>2, <1>3
<1>4. \A a \in ids : \E b \in ids : ids \subseteq {a, b}
  <2> SUFFICES ASSUME NEW a \in ids
               PROVE  \E b \in ids : ids \subseteq {a, b}
    OBVIOUS
  <2>1. CASE ids = {a}
    BY <2>1
  <2>2. CASE ids # {a}
    <3>1. PICK b \in ids : b # a
      BY <2>2
    <3>2. ids \subseteq {a, b}
      BY <3>1, <1>3
    <3> QED BY <3>2
  <2> QED BY <2>1, <2>2
<1> QED BY <1>4 DEF ids

\* The ids that a name is known by, of enumerated files and of bound names.
DynAlias(v, n) == {DynIds[i] : i \in {i \in DOMAIN v.dyn :
                                         Base[v.dyn[i].name] = n}}
OvfAlias(v, n) == {OvfBase + i - 1 : i \in {i \in DOMAIN v.ovf :
                                              Base[v.ovf[i].name] = n}}

LEMMA AliasIdsAre ==
    ASSUME NEW v, NEW n
    PROVE  AliasIds(v, n) =
             {a \in DynAlias(v, n) \cup OvfAlias(v, n) :
                \A b, c \in DynAlias(v, n) \cup OvfAlias(v, n) :
                   b < c => a <= c}
BY DEF AliasIds, DynAlias, OvfAlias

LEMMA AliasTypes ==
    ASSUME NEW v, IsView(v), NEW n
    PROVE  /\ \A a \in DynAlias(v, n) : a \in Int /\ a < OvfBase
           /\ \A a \in OvfAlias(v, n) : a \in Int /\ a >= OvfBase
           /\ OvfBase \in Int
<1>1. OvfBase \in Nat
  BY IdsApart
<1>2. ASSUME NEW a \in DynAlias(v, n)
      PROVE  a \in Int /\ a < OvfBase
  <2>1. a \in 1..OvfBase - 1
    BY <1>2, IdsApart DEF DynAlias
  <2> QED BY <1>1, <2>1
<1>3. ASSUME NEW a \in OvfAlias(v, n)
      PROVE  a \in Int /\ a >= OvfBase
  <2>1. PICK i \in DOMAIN v.ovf : a = OvfBase + i - 1
    BY <1>3 DEF OvfAlias
  <2>2. i \in Nat \ {0}
    BY ViewTypes
  <2> QED BY <1>1, <2>1, <2>2
<1> QED BY <1>1, <1>2, <1>3

\* An enumerated file of a name: all of the name are on one image, one is in
\* each directory, and none of the name is on an earlier image.
LEMMA DynOf ==
    ASSUME NEW v, IsView(v), NEW n, NEW a \in DynAlias(v, n)
    PROVE  \E x \in Fresh(MountedOf(v.fs), v.root) :
              /\ x.name = n /\ Path(v, a) = x
              /\ \A b \in DynAlias(v, n) : Path(v, b) = x => b = a
<1>1. PICK i \in DOMAIN v.dyn : a = DynIds[i] /\ Base[v.dyn[i].name] = n
  BY DEF DynAlias
<1>2. /\ Path(v, a) = v.dyn[i] /\ v.dyn[i].name = n
      /\ v.dyn[i] \in Fresh(MountedOf(v.fs), v.root)
  BY <1>1, DynFound, DynIs
<1>3. ASSUME NEW b \in DynAlias(v, n), Path(v, b) = v.dyn[i]
      PROVE  b = a
  <2>1. PICK j \in DOMAIN v.dyn : b = DynIds[j]
    BY <1>3 DEF DynAlias
  <2>2. v.dyn[j] = v.dyn[i]
    BY <1>3, <2>1, DynFound
  <2>3. j = i
    BY <2>2, DynIs
  <2> QED BY <1>1, <2>1, <2>3
<1> QED BY <1>2, <1>3

LEMMA TwoOfAName ==
    ASSUME NEW m, m \subseteq Vols, NEW r \in Roots,
           NEW x \in Fresh(m, r), NEW y \in Fresh(m, r), x.name = y.name, x # y
    PROVE  /\ x.vol = y.vol
           /\ {x.dir, y.dir} = {"common", r}
           /\ \A z \in Fresh(m, r) : z.name = x.name => z = x \/ z = y
<1>1. \A z \in Fresh(m, r) :
        /\ z \in Files /\ z.dir \in {"common", r}
        /\ z.name = x.name => z.vol = x.vol
  <2>1. \A z \in Fresh(m, r) : z \in Files /\ z.dir \in {"common", r}
    <3> SUFFICES ASSUME NEW z \in Fresh(m, r)
                 PROVE  z \in Files /\ z.dir \in {"common", r}
      OBVIOUS
    <3> QED BY FreshIs
  <2>2. \A z \in Fresh(m, r) : z.name = x.name => z.vol = x.vol
    BY FreshIs
  <2> QED BY <2>1, <2>2
<1>2. \A z \in Fresh(m, r) : z = File(z.vol, z.dir, z.name)
  BY <1>1, FileShape
<1> QED BY <1>1, <1>2

\* A handle on a settings file that is kept under a read id is one of two.
LEMMA AliasFound ==
    ASSUME NEW v, IsView(v), NamesOK(v), NEW n \in DOMAIN Base, Base[n] = n,
           OwnName(n), NEW p \in Files, p.name = n, p.dir = v.root,
           v.fs[p.vol] = "mounted", NEW id, Path(v, id) = p,
           id \in DynAlias(v, n) \cup OvfAlias(v, n)
    PROVE  id \in AliasIds(v, n)
<1> DEFINE dyn == DynAlias(v, n)
           of == OvfAlias(v, n)
           m == MountedOf(v.fs)
           r == v.root
<1>1. /\ \A a \in dyn : a \in Int /\ a < OvfBase
      /\ \A a \in of : a \in Int /\ a >= OvfBase
      /\ OvfBase \in Int
  BY AliasTypes
<1>2. r \in Roots /\ r # "common" /\ m \subseteq Vols /\ p.vol \in m
      /\ \A u \in m : v.fs[u] = "mounted"
  BY ViewTypes, NameAssumption, FileShape DEF MountedOf, Mounted
<1>3. \A a, b \in of : a = b
  <2> SUFFICES ASSUME NEW a \in of, NEW b \in of
               PROVE  a = b
    OBVIOUS
  <2>1. PICK i \in DOMAIN v.ovf : a = OvfBase + i - 1 /\ Base[v.ovf[i].name] = n
    BY DEF OvfAlias
  <2>2. PICK j \in DOMAIN v.ovf : b = OvfBase + j - 1 /\ Base[v.ovf[j].name] = n
    BY DEF OvfAlias
  <2>3. v.ovf[i] \in Files /\ v.ovf[j] \in Files
    BY ViewTypes
  <2>4. v.ovf[i].name = n /\ v.ovf[j].name = n
    BY <2>1, <2>2, <2>3 DEF OwnName
  <2>5. i = j
    BY <2>4 DEF NamesOK, OvfOnce
  <2> QED BY <2>1, <2>2, <2>5
<1>4. \A a \in dyn : \E x \in Fresh(m, r) :
         /\ x.name = n /\ Path(v, a) = x
         /\ \A b \in dyn : Path(v, b) = x => b = a
  BY DynOf
<1> HIDE DEF m, r, dyn, of
<1>5. ASSUME NEW b \in dyn \cup of, NEW c \in dyn \cup of, b < c, c < id
      PROVE  FALSE
  <2>1. b \in dyn /\ c \in dyn /\ b # c /\ b # id /\ c # id
    <3>1. id \in dyn \cup of
      BY DEF dyn, of
    <3>2. b \in Int /\ c \in Int /\ id \in Int
      BY <1>1, <3>1
    <3>3. c \in of => id \in of /\ id # c
      BY <1>1, <1>5, <3>1, <3>2
    <3>4. b \in of => c \in of /\ c # b
      BY <1>1, <1>5, <3>2
    <3> QED BY <1>3, <1>5, <3>2, <3>3, <3>4
  <2>2. PICK x \in Fresh(m, r) :
          /\ x.name = n /\ Path(v, b) = x
          /\ \A a \in dyn : Path(v, a) = x => a = b
    BY <1>4, <2>1
  <2>3. PICK y \in Fresh(m, r) :
          /\ y.name = n /\ Path(v, c) = y
          /\ \A a \in dyn : Path(v, a) = y => a = c
    BY <1>4, <2>1
  <2>4. x # y
    BY <2>1, <2>2, <2>3
  <2>5. /\ x.vol = y.vol /\ {x.dir, y.dir} = {"common", r}
        /\ \A z \in Fresh(m, r) : z.name = n => z = x \/ z = y
    BY <1>2, <2>2, <2>3, <2>4, TwoOfAName
  <2>6. CASE id \in dyn
    <3>1. PICK z \in Fresh(m, r) :
            /\ z.name = n /\ Path(v, id) = z
      BY <1>4, <2>6
    <3> QED BY <2>1, <2>2, <2>3, <2>5, <2>6, <3>1
  <2>7. CASE id \in of
    <3>1. PICK k \in DOMAIN v.ovf : id = OvfBase + k - 1
      BY <2>7 DEF of, OvfAlias
    <3>2. v.ovf[k] = p
      <4>1. id \in OvfIds(v.ovf)
        BY <3>1 DEF OvfIds
      <4>2. id - OvfBase + 1 = k
        BY <1>1, <3>1, ViewTypes
      <4> QED BY <4>1, <4>2, PathIs
    <3>3. Foremost(p, v.fs, r)
      BY <3>2 DEF NamesOK, Leading, r
    <3>4. PICK z \in {x, y} : z.dir = "common"
      BY <2>5
    <3>5. z \in Fresh(m, r) /\ z.name = n /\ z # p
      BY <1>2, <2>2, <2>3, <3>4 DEF r
    <3>6. /\ z \in Files /\ z.vol \in m
          /\ p.vol \in m /\ p.dir \in {"common", r} /\ p.name = z.name
                => ~(Turn(p.vol) < Turn(z.vol))
      BY <1>2, <3>5, FreshIs
    <3>7. Earlier(p, z)
      BY <1>2, <3>3, <3>4, <3>5, <3>6 DEF Foremost
    <3>8. Turn(p.vol) < Turn(z.vol)
      BY <1>2, <3>4, <3>7 DEF Earlier, r
    <3> QED BY <1>2, <3>5, <3>6, <3>8 DEF r
  <2>8. id \in dyn \cup of
    BY DEF dyn, of
  <2> QED BY <2>6, <2>7, <2>8
<1>6. ASSUME NEW b \in dyn \cup of, NEW c \in dyn \cup of, b < c
      PROVE  id <= c
  <2>1. id \in dyn \cup of
    BY DEF dyn, of
  <2>2. id \in Int /\ c \in Int
    BY <1>1, <2>1
  <2> QED BY <1>5, <1>6, <2>2
<1> QED BY <1>6, AliasIdsAre DEF dyn, of

\* When a settings file is opened to be written, no handle that was kept is on
\* that file.
LEMMA NoneOnSettings ==
    ASSUME NEW v, IsView(v), NamesOK(v), NEW fl, FilOK(v, fl),
           NEW id \in CfgIds(v.cfg),
           OwnName(v.cfg[id - CfgBase + 1]),
           v.cfg[id - CfgBase + 1] \notin FixedNames,
           Path(v, id) \in Files, v.fs[Path(v, id).vol] = "mounted"
    PROVE  \A i \in DOMAIN Evicted(v, fl, id) :
              Evicted(v, fl, id)[i].path # Path(v, id)
<1> DEFINE n == v.cfg[id - CfgBase + 1]
           p == Path(v, id)
           room == Evicted(v, fl, id)
           ids == AliasIds(v, n)
<1>1. p = File(NvVolume(v.fs), v.root, n)
  BY PathIs
<1>2. p.vol = NvVolume(v.fs) /\ p.dir = v.root /\ p.name = n
  BY <1>1 DEF File
<1>3. n \in DOMAIN Base /\ Base[n] = n
  <2>1. PICK i \in DOMAIN v.cfg : id = CfgBase + i - 1
    BY DEF CfgIds
  <2>2. id - CfgBase + 1 = i
    BY <2>1, ViewTypes, IdAssumption
  <2>3. v.cfg[i] \in DOMAIN Base
    BY ViewTypes
  <2> QED BY <2>2, <2>3 DEF NamesOK, CfgFlat
<1>4. v.root # "common"
  BY ViewTypes, NameAssumption
<1>5. Shrunk(room, fl) /\ \A i \in DOMAIN room : room[i].id # id
  BY EvictedIs
<1>6. FilOK(v, room)
  BY <1>5, FilPart DEF Shrunk
<1>7. \A i \in DOMAIN room : room[i].id \notin ids
  <2>1. ids \subseteq Int
    BY AliasIdsAre, AliasTypes
  <2>2. \A a \in ids : \E b \in ids : ids \subseteq {a, b}
    BY <2>1, TwoLowest
  <2> DEFINE kept == IF \E e \in ToSet(fl) : e.id = id THEN Without(fl, id)
                     ELSE IF HasRoom(fl) THEN fl ELSE Tail(fl)
  <2>3. room = Drop(kept, ids)
    BY DEF Evicted
  <2>4. FilOK(v, kept)
    <3>1. Shrunk(Without(fl, id), fl)
      BY WithoutIs
    <3>2. FilOK(v, Without(fl, id))
      BY <3>1, FilPart DEF Shrunk
    <3>3. ~HasRoom(fl) => FilOK(v, Tail(fl))
      <4>1. fl \in Seq(Handle)
        BY DEF FilOK
      <4>2. ~HasRoom(fl) => fl # <<>>
        BY <4>1, BoundAssumption DEF HasRoom
      <4>3. ~HasRoom(fl) => Shrunk(Tail(fl), fl)
        BY <4>1, <4>2, TailPart DEF Shrunk
      <4> QED BY <4>3, FilPart DEF Shrunk
    <3> QED BY <3>2, <3>3
  <2> HIDE DEF kept, ids
  <2> QED BY <2>2, <2>3, <2>4, DropIs
<1> HIDE DEF room, ids
<1>8. ASSUME NEW i \in DOMAIN room, room[i].path = p
      PROVE  FALSE
  <2> DEFINE a == room[i].id
  <2>1. Path(v, a) = p
    BY <1>6, <1>8 DEF FilOK, OnTheirFiles
  <2>2. a # id /\ a \notin ids
    BY <1>5, <1>7, <1>8
  <2> HIDE DEF a
  <2>3. a \notin DOMAIN FixedNv
    <3>1. a \in DOMAIN FixedNv => p.name = FixedNv[a]
      BY <2>1, PathIs DEF File
    <3> QED BY <1>2, <3>1 DEF FixedNames
  <2>4. a \notin DOMAIN FixedRead
    <3>1. a \in DOMAIN FixedRead => v.app[a] = p /\ p # None
      BY <2>1, PathIs, NameAssumption
    <3>2. a \in DOMAIN FixedRead => p.dir = "common"
      BY <3>1, AppIs
    <3> QED BY <1>2, <1>4, <3>2
  <2>5. a \notin CfgIds(v.cfg)
    <3> SUFFICES ASSUME a \in CfgIds(v.cfg)
                 PROVE  FALSE
      OBVIOUS
    <3>1. p = File(NvVolume(v.fs), v.root, v.cfg[a - CfgBase + 1])
      BY <2>1, PathIs
    <3>2. v.cfg[a - CfgBase + 1] = n
      BY <1>2, <3>1 DEF File
    <3>3. PICK j \in DOMAIN v.cfg : a = CfgBase + j - 1
      BY DEF CfgIds
    <3>4. PICK k \in DOMAIN v.cfg : id = CfgBase + k - 1
      BY DEF CfgIds
    <3>5. a - CfgBase + 1 = j /\ id - CfgBase + 1 = k
      BY <3>3, <3>4, ViewTypes, IdAssumption
    <3>6. j = k
      BY <3>2, <3>5 DEF NamesOK, CfgOnce
    <3> QED BY <2>2, <3>3, <3>4, <3>6
  <2>6. a \in OvfIds(v.ovf) => a \in OvfAlias(v, n)
    <3> SUFFICES ASSUME a \in OvfIds(v.ovf)
                 PROVE  a \in OvfAlias(v, n)
      OBVIOUS
    <3>1. PICK k \in DOMAIN v.ovf : a = OvfBase + k - 1
      BY DEF OvfIds
    <3>2. a - OvfBase + 1 = k
      BY <3>1, ViewTypes, IdAssumption
    <3>3. v.ovf[k] = p
      BY <2>1, <3>2, PathIs
    <3> QED BY <1>2, <1>3, <3>1, <3>3 DEF OvfAlias
  <2>7. IsDyn(v, a) => a \in DynAlias(v, n)
    <3> SUFFICES ASSUME IsDyn(v, a)
                 PROVE  a \in DynAlias(v, n)
      OBVIOUS
    <3>1. PICK k \in DOMAIN v.dyn : DynIds[k] = a
      BY DEF IsDyn
    <3>2. v.dyn[k] = p
      BY <2>1, <3>1, PathIs
    <3> QED BY <1>2, <1>3, <3>1, <3>2 DEF DynAlias
  <2>8. p # None
    BY NameAssumption
  <2>9. a \in DynAlias(v, n) \cup OvfAlias(v, n)
    BY <2>1, <2>3, <2>4, <2>5, <2>6, <2>7, <2>8, PathIs
  <2>10. a \in ids
    BY <1>2, <1>3, <2>1, <2>9, AliasFound DEF ids
  <2> QED BY <2>2, <2>10
<1> QED BY <1>8 DEF room

LEMMA SettingsOpen ==
    ASSUME NEW v, IsView(v), NamesOK(v), NEW fl, FilOK(v, fl),
           NEW id \in CfgIds(v.cfg),
           OwnName(v.cfg[id - CfgBase + 1]),
           v.cfg[id - CfgBase + 1] \notin FixedNames,
           Path(v, id) \in Files, v.fs[Path(v, id).vol] = "mounted"
    PROVE  OpenFil(v, fl, id, TRUE).ok
<1> DEFINE path == Path(v, id)
           room == Evicted(v, fl, id)
           hit == {e \in ToSet(fl) : e.id = id}
<1>1. CASE \E e \in hit : e.wr \/ ~TRUE
  BY <1>1 DEF OpenFil
<1>2. CASE ~\E e \in hit : e.wr \/ ~TRUE
  <2>1. OpenFil(v, fl, id, TRUE) = OpenAt(v, fl, id, TRUE, path, room)
    BY <1>2 DEF OpenFil
  <2>2. \A i \in DOMAIN room : room[i].path # path
    BY NoneOnSettings
  <2>3. path # None
    BY NameAssumption
  <2>4. Exists(v.fs, path)
    BY DEF Exists, Mounted
  <2> HIDE DEF path, room
  <2>5. ~\E e \in ToSet(room) : e.path = path /\ (TRUE \/ e.wr)
    BY <2>2 DEF ToSet
  <2>6. OpenAt(v, fl, id, TRUE, path, room).ok = TRUE
    BY <2>3, <2>4, <2>5 DEF OpenAt
  <2> QED BY <2>1, <2>6
<1> QED BY <1>1, <1>2

LEMMA ConfigOpens ==
    ASSUME SettingsOwnNames, Inv,
           NEW n \in {Base[m] : m \in Names} \ FixedNames,
           ConfigSlot(VS, n).id # NotFound,
           Exists(VS.fs, File(NvVolume(VS.fs), root, n))
    PROVE  LET s == ConfigSlot(VS, n) IN
           OpenFil([VS EXCEPT !.cfg = s.cfg], SettledFil, s.id, TRUE).ok
<1> DEFINE v == VS
           s == ConfigSlot(v, n)
           c == s.cfg
           x == ViewOf(root, SettledFs, ovf, c)
<1>1. /\ IsView(v) /\ NamesOK(v) /\ FilOK(v, SettledFil)
      /\ v = ViewOf(root, SettledFs, ovf, cfg) /\ v.root = root
      /\ v.fs = SettledFs /\ v.ovf = ovf /\ v.cfg = cfg
  BY Settled, Fields
<1>2. n \in DOMAIN Base /\ Base[n] = n
  BY NameAssumption
<1>3. /\ c \in Seq(DOMAIN Base) /\ Len(c) <= CfgCount
      /\ Extended(v.cfg, c) /\ s.id \in CfgIds(c)
      /\ c[s.id - CfgBase + 1] = n
      /\ \A i, j \in DOMAIN c : c[i] = c[j] => i = j
      /\ \A i \in DOMAIN c : Base[c[i]] = c[i]
  BY <1>1, <1>2, ConfigSlotIs
<1>4. [v EXCEPT !.cfg = c] = x
  BY <1>1, WithCfg
<1>5. IsView(x) /\ Grown(v, x) /\ x.cfg = c /\ x.root = root
      /\ x.fs = SettledFs /\ NamesOK(x)
  <2> DEFINE o == v.ovf
  <2>1. x = ViewOf(v.root, v.fs, o, c) /\ o \in Seq(Files)
        /\ Len(o) <= OvfCount /\ Extended(v.ovf, o)
    BY <1>1, ViewTypes DEF Extended
  <2> HIDE DEF o, c, x
  <2>2. /\ IsView(x) /\ Grown(v, x) /\ x.ovf = o /\ x.cfg = c
        /\ x.root = v.root /\ x.fs = v.fs
    BY <1>1, <1>3, <2>1, ViewIs
  <2>3. Shaded(x) /\ Leading(x) /\ OvfOnce(x)
    BY <1>1, <2>2 DEF NamesOK, Shaded, Leading, OvfOnce, o
  <2>4. CfgOnce(x) /\ CfgFlat(x)
    BY <1>3, <2>2 DEF CfgOnce, CfgFlat
  <2> QED BY <1>1, <2>2, <2>3, <2>4 DEF NamesOK
<1>6. FilOK(x, SettledFil)
  BY <1>1, <1>5, FilKept
<1>7. Path(x, s.id) = File(NvVolume(SettledFs), root, n)
  BY <1>3, <1>5, PathIs
<1>8. /\ Path(x, s.id) \in Files
      /\ SettledFs[Path(x, s.id).vol] = "mounted"
  BY <1>1, <1>7 DEF Exists, Mounted
<1>9. OwnName(n)
  <2>1. NvVolume(SettledFs) \in Vols /\ root \in Roots
    BY <1>1, ViewTypes, ThreeVols DEF NvVolume
  <2> QED BY <2>1, <1>7, <1>8 DEF SettingsOwnNames
<1>10. OpenFil(x, SettledFil, s.id, TRUE).ok
  <2> DEFINE id == s.id
  <2>1. id \in CfgIds(x.cfg) /\ x.cfg[id - CfgBase + 1] = n
    BY <1>3, <1>5
  <2>2. Path(x, id) \in Files /\ x.fs[Path(x, id).vol] = "mounted"
    BY <1>5, <1>8
  <2> HIDE DEF id, x
  <2>3. OwnName(x.cfg[id - CfgBase + 1])
    BY <1>9, <2>1
  <2>4. x.cfg[id - CfgBase + 1] \notin FixedNames
    BY <2>1
  <2>5. OpenFil(x, SettledFil, id, TRUE).ok
    BY <1>5, <1>6, <2>1, <2>2, <2>3, <2>4, SettingsOpen
  <2> QED BY <2>5 DEF id
<1> QED BY <1>4, <1>10

\* A settings file can be opened for writing whatever handles on it are kept
\* under its other ids: the two lowest, which cfg_drop_alias_handles closes,
\* are enough, as long as no file in a subdirectory has the same base name.
THEOREM ConfigWriteLandsHolds ==
    ASSUME SettingsOwnNames
    PROVE  Spec => []ConfigWriteLands
<1>1. Inv => ConfigWriteLands
  <2> SUFFICES ASSUME Inv
               PROVE  ConfigWriteLands
    OBVIOUS
  <2>1. VS.fs = SettledFs /\ VS = View(SettledFs, ovf, cfg)
    BY Fields DEF VS
  <2> QED BY <2>1, ConfigOpens DEF ConfigWriteLands
<1> QED BY <1>1, InvHolds, PTL
=============================================================================
