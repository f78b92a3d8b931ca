---------------------------- MODULE MisterFiles -----------------------------
(***************************************************************************)
(* Files on the MiSTer: an open by name finds its data slot in the         *)
(* kernel's registry or on the mounted FAT images, reads go through the    *)
(* kernel's block cache and FatFs handles, and nonvolatile files are       *)
(* written in place on one pinned image (syscall.c, mister/file.c,         *)
(* mister/save.c).  The layout is that of an instance: shared files lie in *)
(* "common", settings and saves flat in the instance's directory.          *)
(*                                                                         *)
(* A system call is one step: it runs with interrupts masked.  A file has  *)
(* Cap blocks, and in a nonvolatile file a block is blank or text.         *)
(***************************************************************************)
EXTENDS Integers, Sequences, FiniteSets, SequencesExt

CONSTANTS
    Tree,        \* image -> its files in directory order: [dir, name]
    Formatted,   \* the images that FatFs can mount
    Roots,       \* instance directories
    Names,       \* names an app opens
    SlotIds,     \* ids it opens as "slot:<id>" (bound)
    Base,        \* name -> name without directory
    FixedNv,     \* data-slot id -> name, for shared.cfg and the save slots
    FixedRead,   \* data-slot id -> name, for app.elf
    DynIds,      \* the ids that enumerated files get, in order
    OvfBase, OvfCount, CfgBase, CfgCount,
    FilSlots,    \* FIL_CACHE_SLOTS
    IoEntries,   \* IO_CACHE_ENTRIES
    FDs,         \* how many descriptors there are
    Cap,         \* blocks in a file
    Texts,       \* how many of them hold text at the start
    AtBoot,      \* the images that may be in at the start
    Removable,   \* the images that may be taken out (bound)
    Mishaps,     \* how often an image goes or a disk read or write fails,
    Relaunches, Writes,  \* and how often the app does these (bounds)
    None

VARIABLES
    present,     \* img_mounted of each image
    fs,          \* fs_state
    root,        \* instance_root
    registry,    \* file_slots: its entries [id, name], one for a name
    ovf, cfg,    \* ovf_paths and cfg_names
    fil,         \* fil_cache, least recently used first
    memo,        \* size_memo
    io,          \* io_cache, least recently used first
    known,       \* save_size_cache of the slots whose size is known
    fds,         \* fd_table
    data,        \* the blocks of the nonvolatile files
    own,         \* history: the last read returned its file's block
    mishaps, relaunches, writes

nameVars == <<fs, registry, ovf, cfg>>
bounds == <<mishaps, relaunches, writes>>
vars == <<present, root, nameVars, fil, memo, io, known, fds, data, own,
          bounds>>

Vols == 0..2
File(v, dir, n) == [vol |-> v, dir |-> dir, name |-> n]
OnImage(v) == {File(v, e.dir, e.name) : e \in ToSet(Tree[v])}
Files == UNION {OnImage(v) : v \in Vols}
NvFiles == {p \in Files : p.dir \in Roots}
FixedIds == DOMAIN FixedNv \cup DOMAIN FixedRead
FixedNames == {FixedNv[i] : i \in DOMAIN FixedNv}
Blank == 0
Text == 1
Closed == [id |-> 0, nv |-> FALSE, wr |-> FALSE, off |-> 0, size |-> 0,
           dirty |-> FALSE, name |-> None, file |-> None]
NoMemo == [id |-> 0, size |-> 0]
NotFound == -1

ASSUME IdAssumption ==
    /\ OvfBase \in Nat /\ OvfCount \in Nat
    /\ CfgBase \in Nat /\ CfgCount \in Nat
    /\ OvfBase + OvfCount <= CfgBase
    /\ DynIds \in Seq(Nat)
    /\ \A i, j \in DOMAIN DynIds : i < j => DynIds[i] < DynIds[j]
    /\ FixedIds \cup ToSet(DynIds) \subseteq 1..OvfBase - 1
    /\ DOMAIN FixedNv \cap DOMAIN FixedRead = {}
    /\ FixedIds \cap ToSet(DynIds) = {} /\ SlotIds \subseteq Nat

\* A name without its directory has no directory, nor has one of a fixed slot.
ASSUME NameAssumption ==
    /\ Tree \in [Vols -> Seq([dir : STRING, name : DOMAIN Base])]
    /\ Base \in [DOMAIN Base -> DOMAIN Base]
    /\ \A n \in DOMAIN Base : Base[Base[n]] = Base[n]
    /\ \A n \in FixedNames \cup {FixedRead[i] : i \in DOMAIN FixedRead} :
            n \in DOMAIN Base /\ Base[n] = n
    /\ Names \subseteq DOMAIN Base /\ "common" \notin Roots
    /\ None \notin DOMAIN Base /\ None \notin Files
    /\ \A v \in Vols, r \in Roots, n \in DOMAIN Base : File(v, r, n) # None

ASSUME BoundAssumption ==
    /\ FilSlots \in Nat \ {0} /\ IoEntries \in Nat \ {0} /\ Cap \in Nat \ {0}
    /\ FDs \in Nat /\ Texts \subseteq 0..Cap
    /\ Mishaps \in Nat /\ Relaunches \in Nat /\ Writes \in Nat

---------------------------------------------------------------------------
\* Names and ids, as a function of what is mounted and bound.

\* Mutant: the family library comes first.
FamilyFirst == <<0, 1, 2>>

\* vol_order_game: instance, borrowed, family.
VolOrder == <<1, 2, 0>>

Mounted(f, v) == f[v] = "mounted"
MountedOf(f) == {v \in Vols : Mounted(f, v)}

\* nv_volume
NvVolume(f) == IF Mounted(f, 1) THEN 1 ELSE 0

\* The directories a name is looked for in: a fixed slot is not the instance's.
ReadDirs(r, n) ==
    IF \E i \in DOMAIN FixedRead : FixedRead[i] = n THEN {"common"}
    ELSE {"common", r}
Exists(f, p) == p \in Files /\ Mounted(f, p.vol)

\* The order in which directories are searched and enumerated: by image, the
\* common directory first, then as the directory lists its files.
Turn(v) == CHOOSE i \in 1..3 : VolOrder[i] = v
Spot(p) == CHOOSE k \in DOMAIN Tree[p.vol] :
             Tree[p.vol][k] = [dir |-> p.dir, name |-> p.name]
Earlier(p, q) ==
    \/ Turn(p.vol) < Turn(q.vol)
    \/ p.vol = q.vol /\ p.dir = "common" /\ q.dir # "common"
    \/ p.vol = q.vol /\ p.dir = q.dir /\ Spot(p) < Spot(q)

\* Where a name is found first, on some images and in some directories.
FirstPlace(m, dirs, n) ==
    LET hits == {p \in Files : p.vol \in m /\ p.dir \in dirs /\ p.name = n}
    IN  IF hits = {} THEN None
        ELSE CHOOSE p \in hits : \A q \in hits : q = p \/ Earlier(p, q)
Found ==
    [m \in SUBSET Vols |-> [r \in Roots |-> [n \in DOMAIN Base |->
        FirstPlace(m, {"common", r}, n)]]]
Shared ==
    [m \in SUBSET Vols |-> [i \in DOMAIN FixedRead |->
        FirstPlace(m, {"common"}, FixedRead[i])]]

\* enumerate_dir: files without a directory in their name or a fixed slot.
Listed(v, r) == {p \in OnImage(v) : /\ p.dir \in {"common", r}
                                    /\ Base[p.name] = p.name
                                    /\ p.name # "app.elf"}

\* A name that an earlier image lists is not registered again.
Shadowed(m, r, p) ==
    \E v \in m : /\ Turn(v) < Turn(p.vol)
                 /\ \E q \in Listed(v, r) : q.name = p.name

\* The files that hold the dynamic ids: as many as there are ids.
Fresh(m, r) == {p \in UNION {Listed(v, r) : v \in m} : ~Shadowed(m, r, p)}
Rank(m, r, p) == Cardinality({q \in Fresh(m, r) : Earlier(q, p)}) + 1
Enumerated ==
    [m \in SUBSET Vols |-> [r \in Roots |->
        [i \in {Rank(m, r, p) : p \in Fresh(m, r)} \cap DOMAIN DynIds |->
            CHOOSE p \in Fresh(m, r) : Rank(m, r, p) = i]]]

\* What an operation of the file layer goes by: the instance, the images that
\* are mounted, the names that were bound, the files of the dynamic ids and
\* where each name and each fixed slot is found.
ViewOf(r, f, o, c) ==
    [root |-> r, fs |-> f, ovf |-> o, cfg |-> c,
     dyn |-> Enumerated[MountedOf(f)][r], find |-> Found[MountedOf(f)][r],
     app |-> Shared[MountedOf(f)]]
View(f, o, c) == ViewOf(root, f, o, c)

\* All files of a name are on one image, and the common one is the first.
DynId(v, n) ==
    LET hits == {i \in DOMAIN v.dyn : v.dyn[i].name = n}
        first == {i \in hits : v.dyn[i].dir = "common"}
    IN  CASE first # {} -> DynIds[CHOOSE i \in first : TRUE]
          [] first = {} /\ hits # {} -> DynIds[CHOOSE i \in hits : TRUE]
          [] OTHER -> NotFound

CfgIds(c) == {CfgBase + i - 1 : i \in DOMAIN c}
OvfIds(o) == {OvfBase + i - 1 : i \in DOMAIN o}
NvSupported(c, id) == id \in DOMAIN FixedNv \cup CfgIds(c)

\* slot_path
Path(v, id) ==
    CASE id \in DOMAIN FixedNv -> File(NvVolume(v.fs), v.root, FixedNv[id])
      [] id \in DOMAIN FixedRead -> v.app[id]
      [] id \in CfgIds(v.cfg) ->
            File(NvVolume(v.fs), v.root, v.cfg[id - CfgBase + 1])
      [] id \in OvfIds(v.ovf) -> v.ovf[id - OvfBase + 1]
      [] \E i \in DOMAIN v.dyn : DynIds[i] = id ->
            v.dyn[CHOOSE i \in DOMAIN v.dyn : DynIds[i] = id]
      [] OTHER -> None

\* of_file_resolve_name: a held name, or a new overflow id.
Resolve(v, n) ==
    LET held == {i \in DOMAIN v.ovf : v.ovf[i].name = n}
    IN  CASE DynId(v, n) # NotFound -> [id |-> DynId(v, n), ovf |-> v.ovf]
          [] DynId(v, n) = NotFound /\ held # {} ->
                [id |-> OvfBase + (CHOOSE i \in held : TRUE) - 1,
                 ovf |-> v.ovf]
          [] OTHER ->
                IF n = "app.elf" \/ Len(v.ovf) = OvfCount \/ v.find[n] = None
                THEN [id |-> NotFound, ovf |-> v.ovf]
                ELSE [id |-> OvfBase + Len(v.ovf),
                      ovf |-> Append(v.ovf, v.find[n])]

\* A registry entry counts if its id still has the name, or has none.
Current(v, e, n) ==
    LET p == Path(v, e.id) IN p = None \/ Base[p.name] = Base[n]

Registered(v, n) ==
    LET hits == {e \in registry : e.name = n /\ Current(v, e, n)}
    IN  IF hits = {} THEN None ELSE CHOOSE e \in hits : TRUE

\* file_slot_lookup: by full name, by the images for a name with a directory,
\* and by the name alone.
LookupFrom(v, n, full, sub, base) ==
    CASE full # None -> [id |-> full.id, ovf |-> v.ovf]
      [] full = None /\ sub.id # NotFound -> sub
      [] OTHER -> IF base # None THEN [id |-> base.id, ovf |-> v.ovf]
                  ELSE Resolve(v, Base[n])
Lookup(v, n) ==
    LookupFrom(v, n, Registered(v, n),
               IF Base[n] = n THEN [id |-> NotFound, ovf |-> v.ovf]
               ELSE Resolve(v, n),
               Registered(v, Base[n]))

\* of_file_config_slot: a file in the instance's directory on the pinned image.
ConfigSlot(v, n) ==
    LET c == v.cfg
        held == {i \in DOMAIN c : c[i] = n}
        none == \/ n \in {"shared.cfg", "duke3d.cfg"}
                \/ held = {} /\ Len(c) = CfgCount
                \/ held = {} /\ ~Exists(v.fs, File(NvVolume(v.fs), v.root, n))
    IN  IF none THEN [id |-> NotFound, cfg |-> c]
        ELSE IF held # {}
        THEN [id |-> CfgBase + (CHOOSE i \in held : TRUE) - 1, cfg |-> c]
        ELSE [id |-> CfgBase + Len(c), cfg |-> Append(c, n)]

---------------------------------------------------------------------------
\* ensure_mounted, at the start of every operation of the file layer: when an
\* image came or went, all handles and the memo are dropped.

Changed == {v \in Vols : present[v] # (fs[v] # "unmounted")}
MountState(v) == IF ~present[v] THEN "unmounted"
                 ELSE IF v \in Formatted THEN "mounted" ELSE "failed"
SettledFs == [v \in Vols |-> IF v \in Changed THEN MountState(v) ELSE fs[v]]

\* Mutant: the handles outlive the image.
StaleHandles == fil
SettledFil == IF \E v \in Changed : fs[v] # "unmounted" THEN <<>> ELSE fil
SettledMemo == IF Changed # {} THEN NoMemo ELSE memo

\* A handle for each id at most.
Without(fl, id) ==
    IF \E i \in DOMAIN fl : fl[i].id = id
    THEN RemoveAt(fl, CHOOSE i \in DOMAIN fl : fl[i].id = id) ELSE fl

\* Two ids at most are dropped.
Drop(fl, ids) ==
    IF ids = {} THEN fl
    ELSE LET a == CHOOSE a \in ids : TRUE
             b == CHOOSE b \in ids : ids \subseteq {a, b}
         IN  Without(Without(fl, a), b)

\* Mutant: other handles on a settings file are kept.
KeepAliases(v, n) == {}

\* cfg_drop_alias_handles: the first two ids that settings are known by.
AliasIds(v, n) ==
    LET same == {DynIds[i] : i \in {i \in DOMAIN v.dyn :
                                       Base[v.dyn[i].name] = n}} \cup
                {OvfBase + i - 1 : i \in {i \in DOMAIN v.ovf :
                                            Base[v.ovf[i].name] = n}}
    IN  {a \in same : \A b, c \in same : b < c => a <= c}

HasRoom(fl) == Len(fl) < FilSlots

\* open_slot_impl; the handle is then the last one.  FatFs lets a file be open
\* for writing only once and not along with others.
Evicted(v, fl, id) ==
    LET rest == IF \E e \in ToSet(fl) : e.id = id THEN Without(fl, id)
                ELSE IF HasRoom(fl) THEN fl ELSE Tail(fl)
    IN  IF id \in CfgIds(v.cfg)
        THEN Drop(rest, AliasIds(v, v.cfg[id - CfgBase + 1])) ELSE rest

OpenAt(v, fl, id, wr, path, room) ==
    LET locked == \E e \in ToSet(room) : e.path = path /\ (wr \/ e.wr)
    IN  CASE path = None -> [ok |-> FALSE, fil |-> fl]
          [] path # None /\ (locked \/ ~Exists(v.fs, path)) ->
                [ok |-> FALSE, fil |-> room]
          [] OTHER -> [ok |-> TRUE,
                       fil |-> Append(room, [id |-> id, path |-> path,
                                             wr |-> wr, bad |-> FALSE])]

OpenFil(v, fl, id, wr) ==
    LET hit == {e \in ToSet(fl) : e.id = id}
    IN  IF \E e \in hit : e.wr \/ ~wr
        THEN [ok |-> TRUE,
              fil |-> Append(Without(fl, id), CHOOSE e \in hit : TRUE)]
        ELSE OpenAt(v, fl, id, wr, Path(v, id), Evicted(v, fl, id))

\* A handle that met a disk error fails from then on.
Usable(r) == r.ok /\ ~Last(r.fil).bad
Spoilt(fl) == Front(fl) \o <<[Last(fl) EXCEPT !.bad = TRUE]>>

\* The text in a settings file ends at the first blank.
TextLen(p) ==
    IF p \notin NvFiles THEN Cap
    ELSE Cardinality({n \in 1..Cap : \A i \in 1..n : data[p][i] # Blank})

\* of_file_size64: settings by their text, others by their directory entry.
SizeFrom(v, fl, id, path, r) ==
    LET text == IF Usable(r) THEN TextLen(Last(r.fil).path) ELSE 0
        size == IF id \in CfgIds(v.cfg) THEN IF text > 0 THEN text ELSE -1
                ELSE IF path # None /\ Exists(v.fs, path) THEN Cap ELSE -1
    IN  [size |-> size, memo |-> [id |-> id, size |-> size],
         fil |-> IF id \in CfgIds(v.cfg) THEN r.fil ELSE fl]
SizeOf(v, fl, m, id) ==
    IF m.id = id THEN [size |-> m.size, fil |-> fl, memo |-> m]
    ELSE SizeFrom(v, fl, id, Path(v, id), OpenFil(v, fl, id, FALSE))

---------------------------------------------------------------------------
\* dir_probe_slots: what has data or is nonvolatile, under its name, and the
\* lowest id if a name comes up again.
Entry(id, n) == [id |-> id, name |-> n]
Probing ==
    [m \in SUBSET Vols |-> [r \in Roots |->
        LET dyn == Enumerated[m][r]
            all == {Entry(id, FixedNv[id]) : id \in DOMAIN FixedNv} \cup
                   {Entry(id, FixedRead[id]) :
                       id \in {i \in DOMAIN FixedRead :
                                  Shared[m][i] # None}} \cup
                   {Entry(DynIds[i], dyn[i].name) : i \in DOMAIN dyn}
        IN  {e \in all : \A f \in all : f.name = e.name => e.id <= f.id}]]
Probed(f) == Probing[MountedOf(f)][root]

NvIds == DOMAIN FixedNv \cup CfgBase..CfgBase + CfgCount - 1
Unknown == -1

Init ==
    /\ \E ins \in AtBoot : present = [v \in Vols |-> v \in ins]
    /\ root \in Roots
    /\ fs = [v \in Vols |-> MountState(v)]
    /\ registry = Probed(fs) /\ ovf = <<>> /\ cfg = <<>>
    /\ fil = <<>> /\ memo = NoMemo /\ io = <<>>
    /\ known = [id \in NvIds |-> Unknown]
    /\ fds = [d \in 1..FDs |-> Closed]
    /\ \E len \in [NvFiles -> Texts] :
        data = [p \in NvFiles |->
                  [i \in 1..Cap |-> IF i <= len[p] THEN Text ELSE Blank]]
    /\ own = TRUE
    /\ mishaps = Mishaps /\ relaunches = Relaunches /\ writes = Writes

---------------------------------------------------------------------------
\* sys_openat

Free(d) == fds[d] = Closed /\ \A e \in 1..d - 1 : fds[e] # Closed
Keep == UNCHANGED <<present, root, registry, io, bounds>>

Greater(a, b) == IF a >= b THEN a ELSE b

\* A descriptor on a slot of read-only data, or none if it is empty.
OpenData(d, v, id, n) ==
    /\ \E s \in {SizeOf(v, SettledFil, SettledMemo, id)} :
        /\ memo' = s.memo /\ fil' = s.fil
        /\ fds' = IF s.size <= 0 THEN fds
                  ELSE [fds EXCEPT ![d] =
                         [Closed EXCEPT !.id = id, !.size = s.size, !.name = n,
                                        !.file = Path(v, id)]]
    /\ UNCHANGED <<known, data>>

\* The descriptor of open_nv_fd and what it leaves, once the size is known:
\* from the session, or asked for.
Opened(d, v, fd, trunc, fl, m) ==
    LET id == fd.id
        infer == fd.size = 0 /\ ~fd.wr /\ id \in CfgIds(v.cfg) \cup {8}
    IN  \E r \in {OpenFil(v, fl, id, trunc)} :
        \E seen \in {CASE infer -> IF Usable(r) THEN TextLen(fd.file) ELSE 0
                       [] fd.size = 0 /\ ~fd.wr /\ ~infer -> Cap
                       [] OTHER -> fd.size} :
        /\ fil' = IF trunc \/ infer THEN r.fil ELSE fl
        /\ memo' = IF trunc THEN NoMemo ELSE m
        /\ IF trunc /\ Usable(r)
           THEN /\ fds' = [fds EXCEPT ![d] =
                             [fd EXCEPT !.size = 0, !.dirty = TRUE]]
                /\ known' = [known EXCEPT ![id] = 0]
                /\ data' = [data EXCEPT ![fd.file][1] = Blank]
           ELSE /\ fds' = IF trunc THEN fds
                          ELSE [fds EXCEPT ![d] = [fd EXCEPT !.size = seen]]
                /\ known' = [known EXCEPT ![id] = fd.size]
                /\ UNCHANGED data

\* open_nv_fd.  One descriptor at a time for a nonvolatile file.
OpenNv(d, v, id, n, wr, trunc) ==
    LET fd(size) == [id |-> id, nv |-> TRUE, wr |-> wr, off |-> 0,
                     size |-> size, dirty |-> FALSE, name |-> n,
                     file |-> Path(v, id)]
    IN  /\ \A e \in 1..FDs : fds[e].id # id
        /\ \/ /\ known[id] # Unknown
              /\ Opened(d, v, fd(known[id]), trunc, SettledFil, SettledMemo)
           \/ /\ known[id] = Unknown
              /\ \E s \in {SizeOf(v, SettledFil, SettledMemo, id)} :
                    Opened(d, v, fd(Greater(s.size, 0)), trunc, s.fil, s.memo)

Refused == UNCHANGED <<fds, known, data>> /\ fil' = SettledFil
           /\ memo' = SettledMemo

SaveIds(n) == {id \in DOMAIN FixedNv \ {8} : FixedNv[id] = Base[n]}

\* By name: a nonvolatile slot, then a settings file, then data to read.
OpenKind(d, v, n, l, s, wr, trunc) ==
    LET nv == NvSupported(v.cfg, l.id)
        save == l.id = NotFound /\ SaveIds(n) # {}
        config == ~nv /\ ~save /\ s.id # NotFound
        w == [v EXCEPT !.ovf = l.ovf]
    IN  /\ ovf' = l.ovf
        /\ cfg' = IF nv \/ save THEN cfg ELSE s.cfg
        /\ CASE nv -> OpenNv(d, w, l.id, n, wr, trunc)
             [] save ->
                    OpenNv(d, w, CHOOSE i \in SaveIds(n) : TRUE, n, wr, trunc)
             [] config ->
                    OpenNv(d, [w EXCEPT !.cfg = s.cfg], s.id, n, wr, trunc)
             [] ~nv /\ l.id # NotFound /\ ~config /\ ~wr ->
                    OpenData(d, w, l.id, n)
             [] OTHER -> Refused

OpenName(d, n, wr, trunc) ==
    /\ Free(d) /\ (trunc => wr /\ writes > 0)
    /\ fs' = SettledFs
    /\ \E v \in {View(SettledFs, ovf, cfg)} :
        OpenKind(d, v, n, Lookup(v, n), ConfigSlot(v, Base[n]), wr, trunc)
    /\ UNCHANGED own /\ Keep

\* "slot:<N>", to read.
OpenSlot(d, id) ==
    /\ Free(d) /\ id \notin DOMAIN FixedNv
    /\ fs' = SettledFs
    /\ \E v \in {View(SettledFs, ovf, cfg)} : OpenData(d, v, id, None)
    /\ UNCHANGED <<ovf, cfg, own>> /\ Keep

---------------------------------------------------------------------------
\* sys_read, sys_write, sys_close

\* Mutant: a cached block is found by its offset alone.
SameOffset(e, id, off) == e.off = off
EntryIs(e, id, off) == e.id = id /\ e.off = off

Delivered(d, src) ==
    /\ own' = (src = [file |-> fds[d].file, at |-> fds[d].off])
    /\ fds' = [fds EXCEPT ![d].off = @ + 1]

\* A hit does not reach the file layer.
ReadHit(d) ==
    /\ fds[d] # Closed /\ ~fds[d].nv /\ fds[d].off < fds[d].size
    /\ \E i \in DOMAIN io :
        /\ EntryIs(io[i], fds[d].id, fds[d].off)
        /\ Delivered(d, io[i].src)
        /\ io' = Append(RemoveAt(io, i), io[i])
    /\ UNCHANGED <<present, root, nameVars, fil, memo, known, data, bounds>>

\* io_cache_fill overwrites the oldest block, and its tag only on success.
ReadMiss(d) ==
    /\ fds[d] # Closed /\ ~fds[d].nv /\ fds[d].off < fds[d].size
    /\ \A e \in ToSet(io) : ~EntryIs(e, fds[d].id, fds[d].off)
    /\ fs' = SettledFs
    /\ \E v \in {View(SettledFs, ovf, cfg)} :
       \E s \in {SizeOf(v, SettledFil, SettledMemo, fds[d].id)} :
       \E r \in {OpenFil(v, s.fil, fds[d].id, FALSE)} :
       LET src == [file |-> Last(r.fil).path, at |-> fds[d].off]
           full == Len(io) = IoEntries
       IN  /\ memo' = s.memo
           /\ \/ /\ Usable(r) /\ Delivered(d, src)
                 /\ io' = Append(IF full THEN Tail(io) ELSE io,
                                 [id |-> fds[d].id, off |-> fds[d].off,
                                  src |-> src])
                 /\ fil' = r.fil /\ UNCHANGED mishaps
              \/ /\ Usable(r) /\ mishaps > 0 /\ mishaps' = mishaps - 1
                 /\ io' = IF full THEN [io EXCEPT ![1].src = None] ELSE io
                 /\ fil' = Spoilt(r.fil) /\ UNCHANGED <<own, fds>>
              \/ /\ ~Usable(r) /\ fil' = r.fil
                 /\ UNCHANGED <<own, fds, io, mishaps>>
    /\ UNCHANGED <<present, root, registry, ovf, cfg, known, data, relaunches,
                   writes>>

\* The handle for a nonvolatile slot, once the images are settled.
HandleFor(id, wr) ==
    {OpenFil(v, SettledFil, id, wr) : v \in {View(SettledFs, ovf, cfg)}}

\* of_nvslot_read
ReadNv(d) ==
    /\ fds[d] # Closed /\ fds[d].nv /\ fds[d].off < fds[d].size
    /\ fs' = SettledFs /\ memo' = SettledMemo
    /\ \E r \in HandleFor(fds[d].id, FALSE) :
        \/ /\ Usable(r) /\ fil' = r.fil /\ UNCHANGED mishaps
           /\ Delivered(d, [file |-> Last(r.fil).path, at |-> fds[d].off])
        \/ /\ Usable(r) /\ mishaps > 0 /\ mishaps' = mishaps - 1
           /\ fil' = Spoilt(r.fil) /\ UNCHANGED <<own, fds>>
        \/ /\ ~Usable(r) /\ fil' = r.fil /\ UNCHANGED <<own, fds, mishaps>>
    /\ UNCHANGED <<present, root, registry, ovf, cfg, io, known, data,
                   relaunches, writes>>

\* of_nvslot_write: written through and synced.
WriteNv(d) ==
    /\ fds[d] # Closed /\ fds[d].wr /\ fds[d].off < Cap
    /\ writes > 0 /\ writes' = writes - 1
    /\ fs' = SettledFs /\ memo' = NoMemo
    /\ \E r \in HandleFor(fds[d].id, TRUE), off \in {fds[d].off} :
        \/ /\ Usable(r) /\ fil' = r.fil /\ UNCHANGED mishaps
           /\ data' = [data EXCEPT ![Last(r.fil).path][off + 1] = Text]
           /\ fds' = [fds EXCEPT ![d].off = off + 1, ![d].dirty = TRUE,
                                 ![d].size = Greater(@, off + 1)]
        \/ /\ Usable(r) /\ mishaps > 0 /\ mishaps' = mishaps - 1
           /\ fil' = Spoilt(r.fil) /\ UNCHANGED <<data, fds>>
        \/ /\ ~Usable(r) /\ fil' = r.fil /\ UNCHANGED <<data, fds, mishaps>>
    /\ UNCHANGED <<present, root, registry, ovf, cfg, io, known, own,
                   relaunches>>

\* of_nvslot_set_size on closing: the first block of an empty file is blanked,
\* and what is left of a settings file's old text.
Blanked(p, size) ==
    [i \in 1..Cap |-> IF i > size /\ \A j \in size + 1..i : data[p][j] # Blank
                     THEN Blank ELSE data[p][i]]

\* The slot's bytes once a descriptor of this size is closed.
Trimmed(p, id, size) ==
    CASE p \notin NvFiles -> <<>>
      [] p \in NvFiles /\ size = 0 -> [data[p] EXCEPT ![1] = Blank]
      [] OTHER -> Blanked(p, size)

CloseDirty(d) ==
    /\ fds[d] # Closed /\ fds[d].dirty
    /\ \E id \in {fds[d].id}, size \in {fds[d].size} :
        \/ /\ size > 0 /\ (id \notin CfgIds(cfg) \/ size = Cap)
           /\ known' = [known EXCEPT ![id] = size]
           /\ UNCHANGED <<fs, fil, memo, data>>
        \/ /\ size = 0 \/ (id \in CfgIds(cfg) /\ size < Cap)
           /\ fs' = SettledFs
           /\ \E v \in {View(SettledFs, ovf, cfg)} :
              \E p \in {Path(v, id)} : \E new \in {Trimmed(p, id, size)} :
              \E wr \in {size = 0 \/ (p \in NvFiles /\ new # data[p])} :
              \E r \in {OpenFil(v, SettledFil, id, wr)} :
                /\ fil' = r.fil
                /\ memo' = IF wr THEN NoMemo ELSE SettledMemo
                /\ known' = [known EXCEPT ![id] = IF Usable(r) THEN size
                                                 ELSE Unknown]
                /\ data' = IF Usable(r) THEN [data EXCEPT ![p] = new] ELSE data
    /\ fds' = [fds EXCEPT ![d] = Closed]
    /\ UNCHANGED <<present, root, registry, ovf, cfg, io, own, bounds>>

Close(d) ==
    /\ fds[d] # Closed /\ ~fds[d].dirty
    /\ fds' = [fds EXCEPT ![d] = Closed]
    /\ UNCHANGED <<present, root, nameVars, fil, memo, io, known, data, own,
                   bounds>>

---------------------------------------------------------------------------
\* Images that come and go, and the next app

\* What syscall_init and of_file_relaunch_reset clear, then dir_probe_slots.
Restarted(r) ==
    /\ root' = r /\ registry' = Probed(fs)'
    /\ ovf' = <<>> /\ cfg' = <<>>
    /\ fil' = <<>> /\ memo' = NoMemo /\ io' = <<>>
    /\ fds' = [d \in 1..FDs |-> Closed]
    /\ UNCHANGED data

\* os_relaunch.  The sizes of the slots are those of the app before.
Relaunch(r) ==
    /\ relaunches > 0 /\ relaunches' = relaunches - 1
    /\ fs' = SettledFs
    /\ Restarted(r)
    /\ UNCHANGED <<present, known, own, mishaps, writes>>

\* An image is taken out; the kernel is not told.
Eject(v) ==
    /\ present[v] /\ mishaps > 0 /\ mishaps' = mishaps - 1
    /\ present' = [present EXCEPT ![v] = FALSE]
    /\ UNCHANGED <<root, nameVars, fil, memo, io, known, fds, data, own,
                   relaunches, writes>>

\* An image that is put in resets the core.
Insert(v, r) ==
    /\ ~present[v]
    /\ present' = [present EXCEPT ![v] = TRUE]
    /\ fs' = [u \in Vols |-> MountState(u)']
    /\ Restarted(r)
    /\ known' = [id \in NvIds |-> Unknown]
    /\ own' = TRUE
    /\ UNCHANGED bounds

Next ==
    \/ \E d \in 1..FDs :
        \/ \E n \in Names, wr, trunc \in BOOLEAN : OpenName(d, n, wr, trunc)
        \/ \E id \in SlotIds : OpenSlot(d, id)
        \/ ReadHit(d) \/ ReadMiss(d) \/ ReadNv(d) \/ WriteNv(d)
        \/ CloseDirty(d) \/ Close(d)
    \/ \E r \in Roots : Relaunch(r)
    \/ \E v \in Removable : Eject(v)
    \/ \E v \in Vols, r \in Roots : Insert(v, r)

Spec == Init /\ [][Next]_vars

---------------------------------------------------------------------------
\* The tables keep to their sizes, and FatFs' rule on open files holds of the
\* handles kept: no file is open twice if once for writing.
TypeOK ==
    /\ present \in [Vols -> BOOLEAN] /\ root \in Roots
    /\ fs \in [Vols -> {"unmounted", "mounted", "failed"}]
    /\ registry \subseteq [id : FixedIds \cup ToSet(DynIds), name : DOMAIN Base]
    /\ Len(ovf) <= OvfCount /\ Len(cfg) <= CfgCount
    /\ Len(fil) <= FilSlots /\ Len(io) <= IoEntries
    /\ \A i, j \in DOMAIN fil : i # j =>
            /\ fil[i].id # fil[j].id
            /\ fil[i].path = fil[j].path => ~fil[i].wr /\ ~fil[j].wr
    /\ known \in [NvIds -> Unknown..Cap] /\ memo.size \in -1..Cap
    /\ data \in [NvFiles -> [1..Cap -> {Blank, Text}]]
    /\ \A d \in 1..FDs : fds[d].off \in 0..Cap /\ fds[d].size \in 0..Cap

\* While the images stay, a read returns the block of the file that the
\* descriptor was opened on: from the cache, over any reuse of its entries, of
\* the handles and of the ids.
ReadsOwnFile == mishaps = Mishaps => own

OpenedAt(d) == fds[d] = Closed /\ fds'[d] # Closed
Flat(n) == n # None /\ Base[n] = n

\* A descriptor opened by a flat name is on a file of that name, also when an
\* image went and the ids of the files were given out again; and the
\* instance's image shadows the libraries: what it has is never taken from
\* elsewhere.
OpenFindsName ==
    [][\A d \in 1..FDs : OpenedAt(d) /\ Flat(fds'[d].name) =>
            LET f == fds'[d].file IN
            /\ f.name = fds'[d].name
            /\ Mounted(fs', 1) /\ f.vol # 1 =>
                \A dir \in ReadDirs(root, f.name) :
                    File(1, dir, f.name) \notin Files
      ]_vars

\* What is written lands on the instance's image if there is one, else on the
\* family's, whatever handles were kept from before; the borrowed library is
\* never written.
NvStays ==
    [][\A p \in NvFiles : data'[p] # data[p] =>
            p.vol = IF present[1] /\ 1 \in Formatted THEN 1 ELSE 0]_vars

\* The condition for the next one: a file that lies in an instance's directory
\* is the only one whose name ends in its name.
OwnName(n) == \A q \in Files : Base[q.name] = n => q.name = n
SettingsOwnNames ==
    \A n \in {Base[m] : m \in Names} \ FixedNames, v \in Vols, r \in Roots :
        File(v, r, n) \in Files => OwnName(n)

\* A settings file can be opened for writing whatever was read before under
\* the ids it also has.
ConfigWriteLands ==
    \A n \in {Base[m] : m \in Names} \ FixedNames :
    \A v \in {View(SettledFs, ovf, cfg)} :
    \A s \in {ConfigSlot(v, n)} :
        s.id # NotFound /\ Exists(v.fs, File(NvVolume(v.fs), root, n)) =>
            OpenFil([v EXCEPT !.cfg = s.cfg], SettledFil, s.id, TRUE).ok
=============================================================================
