-------------------------- MODULE FabricTableProofs --------------------------
(***************************************************************************)
(* What the fabric table promises about its index, its pending data and    *)
(* its disk, for every number of fabrics, labels, keys, crashes and        *)
(* storage failures.                                                       *)
(*                                                                         *)
(* The inductive invariant, FabricInv, says of a device without power that *)
(* a start from its disk is safe (Restartable), and of a running one that  *)
(* its table agrees with its disk (Agree) and that what is pending, the    *)
(* fail-safe and the scheduled work belong together (Running).  A handler  *)
(* is followed from state to state by relations named for what it has done *)
(* so far (Writes, Deleted, Reverted, Touched, IsCommitted); each says of  *)
(* the log that a start from every disk in it is safe (Logged).            *)
(***************************************************************************)
EXTENDS FabricTable, FiniteSetTheorems, SequenceTheorems, WellFoundedInduction, TLAPS

----------------------------------------------------------------------------
(* Types.                                                                  *)

AnyIndex == 0..MaxIndex
NOC   == [fabric : Fabrics, key : Nat]
Entry == [fabric : Fabrics, key : Nat, label : Labels]
Shadow == [idx : AnyIndex, fabric : Fabrics, key : Nat, label : Labels]
IndexInfo == [next : AnyIndex, fabrics : SUBSET Index]

Pieces == {"meta", "key", "noc", "icac", "rcac"}
Parts  == Pieces \cup {"index", "marker", "clear", "acl", "post"}
Piece(part) == CASE part = "meta" -> Labels
                 [] part = "noc"  -> NOC
                 [] part = "rcac" -> Fabrics
                 [] OTHER         -> Nat

Disk == [meta : [Index -> Labels \cup {None}], key : [Index -> Nat \cup {None}],
         noc : [Index -> NOC \cup {None}], icac : [Index -> Nat \cup {None}],
         rcac : [Index -> Fabrics \cup {None}],
         index : IndexInfo \cup {None}, marker : AnyIndex]

CertFlags == {"root", "add", "update"}
Certs == [idx : AnyIndex, rcac : Fabrics \cup {None}, noc : NOC \cup {None},
          icac : Nat \cup {None}, flags : SUBSET CertFlags]
Keypair == [idx : AnyIndex, key : Nat \cup {None}, active : BOOLEAN]
FailSafe == [armed : BOOLEAN, busy : BOOLEAN, add : BOOLEAN, upd : BOOLEAN,
             root : BOOLEAN, idx : AnyIndex]
Flags == {"data", "root", "add", "update", "key", "keyForUpdate"}
Cleanup == [do : {"cleanup"}, idx : AnyIndex, add : BOOLEAN]
Work == Cleanup \cup [do : {"disarm", "clearMarker"}]

Dev == [up : {TRUE}, disk : Disk, log : Seq(Disk), bad : SUBSET Parts, err : BOOLEAN,
        table : [Index -> Entry \cup {None}], count : Nat, next : AnyIndex,
        pend : Shadow \cup {None}, pidx : AnyIndex, flags : SUBSET Flags,
        certs : Certs, ks : Keypair, fs : FailSafe, work : Seq(Work)]
OffDev == [up : {FALSE}, disk : Disk]

----------------------------------------------------------------------------
(* Persistent storage.                                                     *)

\* t is s but for its disk and its log.
SameMemory(s, t) ==
    /\ t \in Dev
    /\ t.bad = s.bad /\ t.err = s.err /\ t.table = s.table /\ t.count = s.count
    /\ t.next = s.next /\ t.pend = s.pend /\ t.pidx = s.pidx /\ t.flags = s.flags
    /\ t.certs = s.certs /\ t.ks = s.ks /\ t.fs = s.fs /\ t.work = s.work

Stores(s, t, part, disk) ==
    /\ SameMemory(s, t)
    /\ part \in s.bad => t = s
    /\ part \notin s.bad => t.disk = disk /\ t.log = Append(s.log, s.disk)

(* What Store does.                                                        *)
LEMMA StoreIs ==
    ASSUME NEW s \in Dev, NEW part \in Parts, NEW disk \in Disk
    PROVE  Stores(s, Store(s, part, disk), part, disk)
<1>1. CASE part \in s.bad
  BY <1>1 DEF Store, Stores, SameMemory
<1>2. CASE part \notin s.bad
  <2>1. Append(s.log, s.disk) \in Seq(Disk)
    BY DEF Dev
  <2>2. Store(s, part, disk) = [s EXCEPT !.log = Append(s.log, s.disk), !.disk = disk]
    BY <1>2 DEF Store
  <2>3. Store(s, part, disk) \in Dev
    BY <2>1, <2>2 DEF Dev
  <2> QED
    BY <1>2, <2>2, <2>3 DEF Stores, SameMemory, Dev
<1> QED
  BY <1>1, <1>2

(* The indices are 1 to MaxIndex, more than one.                           *)
LEMMA IndexIsFinite ==
    /\ MaxIndex \in Nat /\ MaxIndex > 1
    /\ IsFiniteSet(Index)
<1>1. MaxIndex \in Nat \ {0, 1}
  BY FabricAssumption, Zenon
<1>2. MaxIndex \in Nat /\ MaxIndex > 1
  BY <1>1
<1> QED
  BY <1>2, FS_Interval DEF Index

(* None is no piece of data.                                               *)
LEMMA NoneApart ==
    /\ None \notin NOC /\ None \notin Entry /\ None \notin Shadow /\ None \notin IndexInfo
    /\ None \notin Labels /\ None \notin Fabrics /\ None \notin Nat
    /\ Unsure \notin NOC /\ None # Unsure
    /\ Undefined \notin Index /\ Undefined \in AnyIndex /\ Index \subseteq AnyIndex
<1>1. /\ None \notin Labels /\ None \notin Fabrics /\ None \notin Nat /\ None # Unsure
      /\ None \notin NOC /\ None \notin Entry /\ Unsure \notin NOC
  BY NoneAssumption DEF NOC, Entry
<1>2. AnyIndex \subseteq Nat /\ Undefined \notin Index /\ Undefined \in AnyIndex /\ Index \subseteq AnyIndex
  BY IndexIsFinite DEF AnyIndex, Index, Undefined
<1>3. None \notin Shadow
  BY <1>2, NoneAssumption DEF Shadow
<1>4. None \notin IndexInfo
  BY <1>2, NoneAssumption DEF IndexInfo
<1> QED
  BY <1>1, <1>2, <1>3, <1>4

Put(d, part, i, v) == [d EXCEPT ![part][i] = v]

(* A piece of a fabric on disk.                                            *)
LEMMA PieceWritten ==
    ASSUME NEW d \in Disk, NEW part \in Pieces, NEW i \in Index, NEW v \in Piece(part) \cup {None}
    PROVE  /\ Put(d, part, i, v) \in Disk
           /\ Put(d, part, i, v).index = d.index
           /\ Put(d, part, i, v).marker = d.marker
           /\ Put(d, part, i, v)[part] = [d[part] EXCEPT ![i] = v]
           /\ \A q \in Pieces \ {part} : Put(d, part, i, v)[q] = d[q]
<1>1. CASE part = "meta"
  BY <1>1 DEF Put, Disk, Pieces, Piece
<1>2. CASE part = "key"
  BY <1>2 DEF Put, Disk, Pieces, Piece
<1>3. CASE part = "noc"
  BY <1>3 DEF Put, Disk, Pieces, Piece
<1>4. CASE part = "icac"
  BY <1>4 DEF Put, Disk, Pieces, Piece
<1>5. CASE part = "rcac"
  BY <1>5 DEF Put, Disk, Pieces, Piece
<1> QED
  BY <1>1, <1>2, <1>3, <1>4, <1>5 DEF Pieces

(* The pieces have their types.                                            *)
LEMMA PieceType ==
    ASSUME NEW d \in Disk, NEW part \in Pieces
    PROVE  d[part] \in [Index -> Piece(part) \cup {None}]
BY DEF Disk, Pieces, Piece

\* t is s after one piece of fabric i was written, or could not be.
Writes(s, t, part, i, v) ==
    /\ SameMemory(s, t)
    /\ t.disk.index = s.disk.index /\ t.disk.marker = s.disk.marker
    /\ \A q \in Pieces \ {part} : t.disk[q] = s.disk[q]
    /\ part \in s.bad => t.disk = s.disk /\ t.log = s.log
    /\ part \notin s.bad => /\ t.disk[part] = [s.disk[part] EXCEPT ![i] = v]
                            /\ t.log = Append(s.log, s.disk)

(* What Write does.                                                        *)
LEMMA WriteIs ==
    ASSUME NEW s \in Dev, NEW part \in Pieces, NEW i \in Index, NEW v \in Piece(part) \cup {None}
    PROVE  Writes(s, Write(s, part, i, v), part, i, v) /\ Write(s, part, i, v) \in Dev
<1> DEFINE d == Put(s.disk, part, i, v)
<1>1. s.disk \in Disk /\ part \in Parts
  BY DEF Dev, Parts
<1>2. /\ d \in Disk /\ d.index = s.disk.index /\ d.marker = s.disk.marker
      /\ d[part] = [s.disk[part] EXCEPT ![i] = v]
      /\ \A q \in Pieces \ {part} : d[q] = s.disk[q]
  BY <1>1, PieceWritten
<1>3. Write(s, part, i, v) = Store(s, part, d)
  BY DEF Write, Put
<1> HIDE DEF d
<1>4. Stores(s, Store(s, part, d), part, d)
  BY <1>1, <1>2, StoreIs
<1> QED
  BY <1>2, <1>3, <1>4 DEF Stores, Writes, SameMemory

(* What Erase does.                                                        *)
LEMMA EraseIs ==
    ASSUME NEW s \in Dev, NEW part \in Pieces, NEW i \in Index
    PROVE  Writes(s, Erase(s, part, i), part, i, None) /\ Erase(s, part, i) \in Dev
BY WriteIs DEF Erase

----------------------------------------------------------------------------
(* What must be on disk for a start from it to be safe, if o says what the *)
(* device owes.                                                            *)

IndexApart(disk) == disk.index # None => disk.index.next \notin disk.index.fabrics

\* Fabric i survives a start: FabricTable::Init loads it and no marker asks
\* for its removal.
Survives(disk, i) == Loads(disk, i) /\ i # disk.marker

Restartable(disk, o) ==
    /\ IndexApart(disk)
    /\ \A i \in Index : Survives(disk, i) =>
            Whole(disk, i) /\ disk.index # None /\ i \in disk.index.fabrics
    /\ \A i \in Index : \/ o[i] = Unsure
                        \/ o[i] = IF Survives(disk, i) THEN disk.noc[i] ELSE None

Logged(s, o) == \A k \in 1..Len(s.log) : Restartable(s.log[k], o)

PutIndex(d, info) == [d EXCEPT !.index = info]
PutMarker(d, m)   == [d EXCEPT !.marker = m]

SamePieces(d, e, i) == \A q \in Pieces : e[q][i] = d[q][i]

(* What happens to the pieces of a fabric that the device does not owe and *)
(* that does not load, or that the marker condemns, does not matter.       *)
LEMMA RestartableApart ==
    ASSUME NEW d \in Disk, NEW e \in Disk, NEW i \in Index, NEW o,
           \A j \in Index \ {i} : SamePieces(d, e, j),
           e.index = d.index, e.marker = d.marker,
           Restartable(d, o),
           \/ i = d.marker
           \/ ~Loads(e, i) /\ o[i] \in {Unsure, None}
    PROVE  Restartable(e, o)
<1>1. \A j \in Index \ {i} : /\ Survives(e, j) <=> Survives(d, j)
                             /\ Whole(e, j) <=> Whole(d, j)
                             /\ e.noc[j] = d.noc[j]
  BY DEF SamePieces, Pieces, Survives, Loads, Whole
<1>2. ~Survives(e, i) /\ o[i] \in {Unsure, None}
  BY DEF Restartable, Survives
<1> QED
  BY <1>1, <1>2 DEF Restartable, IndexApart

(* A new index, a new marker.                                              *)
LEMMA IndexPut ==
    ASSUME NEW d \in Disk, NEW info \in IndexInfo
    PROVE  /\ PutIndex(d, info) \in Disk
           /\ PutIndex(d, info).index = info /\ PutIndex(d, info).marker = d.marker
           /\ PutIndex(d, info).meta = d.meta /\ PutIndex(d, info).key = d.key
           /\ PutIndex(d, info).noc = d.noc /\ PutIndex(d, info).icac = d.icac
           /\ PutIndex(d, info).rcac = d.rcac
BY DEF PutIndex, Disk
LEMMA MarkerPut ==
    ASSUME NEW d \in Disk, NEW m \in AnyIndex
    PROVE  /\ PutMarker(d, m) \in Disk
           /\ PutMarker(d, m).index = d.index /\ PutMarker(d, m).marker = m
           /\ PutMarker(d, m).meta = d.meta /\ PutMarker(d, m).key = d.key
           /\ PutMarker(d, m).noc = d.noc /\ PutMarker(d, m).icac = d.icac
           /\ PutMarker(d, m).rcac = d.rcac
BY DEF PutMarker, Disk

(* A new index that lists what survives.                                   *)
LEMMA RestartableIndex ==
    ASSUME NEW d \in Disk, NEW o, NEW info \in IndexInfo, Restartable(d, o),
           info.next \notin info.fabrics,
           \A j \in Index : Survives(d, j) => j \in info.fabrics
    PROVE  Restartable(PutIndex(d, info), o)
<1> DEFINE e == PutIndex(d, info)
<1>1. /\ e \in Disk /\ e.index = info /\ e.marker = d.marker /\ e.meta = d.meta /\ e.key = d.key
      /\ e.noc = d.noc /\ e.icac = d.icac /\ e.rcac = d.rcac
  BY IndexPut
<1>2. info # None
  BY NoneAssumption DEF IndexInfo, AnyIndex, Index
<1> HIDE DEF e
<1>3. Restartable(e, o)
  BY <1>1, <1>2 DEF Restartable, IndexApart, Survives, Loads, Whole
<1> QED
  BY <1>3 DEF e

(* Another marker, on a fabric the device does not owe.                    *)
LEMMA RestartableMarker ==
    ASSUME NEW d \in Disk, NEW o, NEW m \in AnyIndex, Restartable(d, o),
           m = Undefined \/ o[m] \in {Unsure, None},
           d.marker = Undefined \/ d.marker = m \/ ~Loads(d, d.marker)
    PROVE  Restartable(PutMarker(d, m), o)
<1> DEFINE e == PutMarker(d, m)
<1>1. /\ e \in Disk /\ e.index = d.index /\ e.marker = m /\ e.meta = d.meta /\ e.key = d.key
      /\ e.noc = d.noc /\ e.icac = d.icac /\ e.rcac = d.rcac
  BY MarkerPut
<1> HIDE DEF e
<1>2. \A j \in Index : Survives(e, j) <=> Survives(d, j) /\ j # m
  BY <1>1 DEF Survives, Loads, Undefined, Index
<1>3. \A j \in Index : Whole(e, j) <=> Whole(d, j)
  BY <1>1 DEF Whole
<1>4. Restartable(e, o)
  BY <1>1, <1>2, <1>3 DEF Restartable, IndexApart, Undefined, Index
<1> QED
  BY <1>4 DEF e

(* The log grows by disks from which a start is safe.                      *)
LEMMA LoggedGrows ==
    ASSUME NEW s \in Dev, NEW t \in Dev, NEW o, Logged(s, o),
           \/ t.log = s.log
           \/ t.log = Append(s.log, s.disk) /\ Restartable(s.disk, o)
    PROVE  Logged(t, o)
<1>1. CASE t.log = s.log
  BY <1>1 DEF Logged
<1>2. CASE t.log = Append(s.log, s.disk) /\ Restartable(s.disk, o)
  <2>1. s.log \in Seq(Disk) /\ s.disk \in Disk
    BY DEF Dev
  <2>2. Len(t.log) = Len(s.log) + 1 /\ Len(s.log) \in Nat
    BY <1>2, <2>1
  <2> SUFFICES ASSUME NEW k \in 1..Len(t.log) PROVE Restartable(t.log[k], o)
    BY DEF Logged
  <2>3. t.log[k] = IF k <= Len(s.log) THEN s.log[k] ELSE s.disk
    BY <1>2, <2>1, <2>2
  <2> QED
    BY <1>2, <2>2, <2>3 DEF Logged
<1> QED
  BY <1>1, <1>2

----------------------------------------------------------------------------
(* The index of the next fabric.                                           *)

(* Every set of naturals that is not empty has a least member.             *)
LEMMA Least ==
    ASSUME NEW S \in SUBSET Nat, S # {}
    PROVE  \E x \in S : \A y \in S : x <= y
<1>1. IsWellFoundedOn(OpToRel(<, Nat), Nat)
  BY NatLessThanWellFounded
<1>2. PICK x \in S : \A y \in S : ~(<<y, x>> \in OpToRel(<, Nat))
  BY <1>1, WFMin
<1>3. \A y \in S : ~(y < x)
  BY <1>2 DEF OpToRel
<1> QED
  BY <1>3

(* UpdateNextAvailableFabricIndex finds a free index if there is one.      *)
LEMMA NextFree ==
    ASSUME NEW s \in Dev
    PROVE  \E n \in AnyIndex :
              /\ UpdateNextAvailableFabricIndex(s) = [s EXCEPT !.next = n]
              /\ n # Undefined => n \in Index \ InUse(s)
              /\ n = Undefined => Index \subseteq InUse(s) \cup {s.next}
<1> DEFINE free == (Index \ InUse(s)) \ {s.next}
           steps == {StepsTo(s.next, i) : i \in free}
           n == IF free = {} THEN Undefined
                ELSE CHOOSE i \in free : \A j \in free : StepsTo(s.next, i) <= StepsTo(s.next, j)
<1>0. s.next \in AnyIndex
  BY DEF Dev
<1>1. MaxIndex \in Nat /\ MaxIndex > 0 /\ s.next \in AnyIndex
  BY <1>0, IndexIsFinite
<1>2. \A i \in free : StepsTo(s.next, i) \in Nat
  BY <1>1 DEF StepsTo, AnyIndex, Index
<1>3. free # {} => n \in free
  <2> SUFFICES ASSUME free # {} PROVE n \in free
    OBVIOUS
  <2>1. steps \in SUBSET Nat /\ steps # {}
    BY <1>2
  <2>2. PICK x \in steps : \A y \in steps : x <= y
    BY <2>1, Least
  <2>3. PICK i \in free : x = StepsTo(s.next, i)
    BY <2>2
  <2>4. \A j \in free : StepsTo(s.next, i) <= StepsTo(s.next, j)
    BY <2>2, <2>3
  <2> QED
    BY <2>4
<1>4. UpdateNextAvailableFabricIndex(s) = [s EXCEPT !.next = n]
  BY DEF UpdateNextAvailableFabricIndex
<1>5. n \in AnyIndex
  BY <1>1, <1>3 DEF AnyIndex, Index, Undefined
<1>6. n # Undefined => n \in Index \ InUse(s)
  BY <1>3
<1>7. n = Undefined => Index \subseteq InUse(s) \cup {s.next}
  BY <1>3 DEF Index, Undefined
<1> QED
  BY <1>4, <1>5, <1>6, <1>7

----------------------------------------------------------------------------
(* Deleting a fabric.                                                      *)

\* One part of the storage fails at most.
OneFault(bad) == bad = {} \/ \E part \in Parts : bad = {part}

\* The deletion of fabric i before the table forgets it.
Purge(s, i) == RemoveOpCertsForFabric(RemoveOpKeypairForFabric(Erase(s, "meta", i), i), i)

KeyAfter(s, i) == IF s.ks.idx = i THEN NoKey ELSE s.ks
CertsAfter(s, i) == IF HasAnyCertificateForFabric(s, i) THEN NoCerts ELSE s.certs

\* The pieces of fabric i are gone, but for those that could not be erased.
PiecesGone(bad, d, e, i) ==
    /\ e \in Disk /\ e.marker = d.marker
    /\ \A j \in Index \ {i} : SamePieces(d, e, j)
    /\ \A q \in Pieces : e[q][i] = IF q \in bad THEN d[q][i] ELSE None

Purged(s, t, i) ==
    /\ t \in Dev
    /\ t.bad = s.bad /\ t.err = s.err /\ t.table = s.table /\ t.count = s.count
    /\ t.next = s.next /\ t.pend = s.pend /\ t.pidx = s.pidx /\ t.flags = s.flags
    /\ t.fs = s.fs /\ t.work = s.work
    /\ t.ks = KeyAfter(s, i) /\ t.certs = CertsAfter(s, i)
    /\ PiecesGone(s.bad, s.disk, t.disk, i) /\ t.disk.index = s.disk.index

(* Initial values have their types.                                        *)
LEMMA Initials == NoKey \in Keypair /\ NoCerts \in Certs /\ Disarmed \in FailSafe
BY IndexIsFinite DEF NoKey, NoCerts, Keypair, Certs, AnyIndex, Undefined, CertFlags, Disarmed,
    FailSafe

(* Forgetting the pending key.                                             *)
LEMMA WithKey ==
    ASSUME NEW s \in Dev, NEW k \in Keypair
    PROVE  LET t == [s EXCEPT !.ks = k]
           IN  /\ t \in Dev /\ t.ks = k
               /\ t.bad = s.bad /\ t.err = s.err /\ t.table = s.table /\ t.count = s.count
               /\ t.next = s.next /\ t.pend = s.pend /\ t.pidx = s.pidx /\ t.flags = s.flags
               /\ t.fs = s.fs /\ t.work = s.work /\ t.certs = s.certs
               /\ t.disk = s.disk /\ t.log = s.log
BY DEF Dev
LEMMA WithCerts ==
    ASSUME NEW s \in Dev, NEW c \in Certs
    PROVE  LET t == [s EXCEPT !.certs = c]
           IN  /\ t \in Dev /\ t.certs = c
               /\ t.bad = s.bad /\ t.err = s.err /\ t.table = s.table /\ t.count = s.count
               /\ t.next = s.next /\ t.pend = s.pend /\ t.pidx = s.pidx /\ t.flags = s.flags
               /\ t.fs = s.fs /\ t.work = s.work /\ t.ks = s.ks
               /\ t.disk = s.disk /\ t.log = s.log
BY DEF Dev

(* The states of the purge, in order.                                      *)
PurgeSteps(s, i, a, b, c, d, e, f, g) ==
    /\ Writes(s, a, "meta", i, None)
    /\ b \in Dev /\ b = [a EXCEPT !.ks = KeyAfter(s, i)] /\ Writes(b, c, "key", i, None)
    /\ d \in Dev /\ d = [c EXCEPT !.certs = NoCerts]
    /\ Writes(d, e, "noc", i, None) /\ Writes(e, f, "icac", i, None)
    /\ Writes(f, g, "rcac", i, None)

LEMMA PurgeIs ==
    ASSUME NEW s \in Dev, NEW i \in Index
    PROVE  \E a, b, c, d, e, f, g \in Dev :
              /\ PurgeSteps(s, i, a, b, c, d, e, f, g)
              /\ Purge(s, i) = IF HasAnyCertificateForFabric(s, i) THEN g ELSE c
<1> DEFINE a == Erase(s, "meta", i)
           b == [a EXCEPT !.ks = KeyAfter(s, i)]
           c == Erase(b, "key", i)
           d == [c EXCEPT !.certs = NoCerts]
           e == Erase(d, "noc", i)
           f == Erase(e, "icac", i)
           g == Erase(f, "rcac", i)
<1>0. Pieces = {"meta", "key", "noc", "icac", "rcac"} /\ KeyAfter(s, i) \in Keypair
  BY Initials DEF Pieces, KeyAfter, Dev
<1>1. Writes(s, a, "meta", i, None) /\ a \in Dev
  BY <1>0, EraseIs
<1>2. b \in Dev /\ b.disk = a.disk /\ b.certs = a.certs
  BY <1>0, <1>1, WithKey
<1> HIDE DEF a, b
<1>3. Writes(b, c, "key", i, None) /\ c \in Dev
  BY <1>0, <1>2, EraseIs
<1>4. d \in Dev
  BY <1>3, WithCerts, Initials
<1> HIDE DEF c, d
<1>5. Writes(d, e, "noc", i, None) /\ e \in Dev
  BY <1>0, <1>4, EraseIs
<1> HIDE DEF e
<1>6. Writes(e, f, "icac", i, None) /\ f \in Dev
  BY <1>0, <1>5, EraseIs
<1> HIDE DEF f
<1>7. Writes(f, g, "rcac", i, None) /\ g \in Dev
  BY <1>0, <1>6, EraseIs
<1> HIDE DEF g
<1>8. a.ks = s.ks /\ c = RemoveOpKeypairForFabric(a, i)
  <2>1. a.ks = s.ks
    BY <1>1 DEF Writes, SameMemory
  <2> QED
    BY <2>1 DEF RemoveOpKeypairForFabric, KeyAfter, c, b
<1>9. HasAnyCertificateForFabric(c, i) <=> HasAnyCertificateForFabric(s, i)
  <2>1. c.certs = s.certs
    BY <1>1, <1>2, <1>3 DEF Writes, SameMemory
  <2>2. \A part \in {"noc", "icac", "rcac"} : c.disk[part] = s.disk[part]
    BY <1>0, <1>1, <1>2, <1>3 DEF Writes
  <2> QED
    BY <2>1, <2>2 DEF HasAnyCertificateForFabric
<1>10. Purge(s, i) = IF HasAnyCertificateForFabric(s, i) THEN g ELSE c
  BY <1>8, <1>9 DEF Purge, RemoveOpCertsForFabric, a, d, e, f, g
<1>11. PurgeSteps(s, i, a, b, c, d, e, f, g)
  BY <1>1, <1>2, <1>3, <1>4, <1>5, <1>6, <1>7 DEF PurgeSteps, b, d
<1> QED
  BY <1>1, <1>2, <1>3, <1>4, <1>5, <1>6, <1>7, <1>10, <1>11

(* A write leaves the other fabrics alone.                                 *)
LEMMA WritesElsewhere ==
    ASSUME NEW s \in Dev, NEW t \in Dev, NEW part \in Pieces, NEW i \in Index,
           NEW v \in Piece(part) \cup {None}, Writes(s, t, part, i, v)
    PROVE  /\ \A j \in Index \ {i} : SamePieces(s.disk, t.disk, j)
           /\ t.disk[part][i] = IF part \in s.bad THEN s.disk[part][i] ELSE v
           /\ \A q \in Pieces \ {part} : t.disk[q][i] = s.disk[q][i]
<1>1. s.disk[part] \in [Index -> Piece(part) \cup {None}]
  BY PieceType DEF Dev
<1>2. CASE part \in s.bad
  BY <1>2 DEF Writes, SamePieces
<1>3. CASE part \notin s.bad
  <2>1. t.disk[part] = [s.disk[part] EXCEPT ![i] = v] /\ \A q \in Pieces \ {part} : t.disk[q] = s.disk[q]
    BY <1>3 DEF Writes
  <2>2. \A j \in Index \ {i} : t.disk[part][j] = s.disk[part][j]
    BY <1>1, <2>1
  <2>3. t.disk[part][i] = v
    BY <1>1, <2>1
  <2> QED
    BY <1>3, <2>1, <2>2, <2>3 DEF SamePieces
<1> QED
  BY <1>2, <1>3

(* A write to a fabric that is condemned, or not owed and not loadable, is *)
(* safe.                                                                   *)
LEMMA WritesSafely ==
    ASSUME NEW s \in Dev, NEW t \in Dev, NEW part \in Pieces, NEW i \in Index,
           NEW v \in Piece(part) \cup {None}, Writes(s, t, part, i, v),
           NEW o, Logged(s, o), Restartable(s.disk, o),
           \/ i = s.disk.marker
           \/ ~Loads(t.disk, i) /\ o[i] \in {Unsure, None}
    PROVE  Logged(t, o) /\ Restartable(t.disk, o)
<1>1. s.disk \in Disk /\ t.disk \in Disk
  BY DEF Dev
<1>2. Restartable(t.disk, o)
  <2>1. \A j \in Index \ {i} : SamePieces(s.disk, t.disk, j)
    BY WritesElsewhere
  <2>2. t.disk.index = s.disk.index /\ t.disk.marker = s.disk.marker
    BY DEF Writes
  <2> QED
    BY <1>1, <2>1, <2>2, RestartableApart
<1>3. t.log = s.log \/ t.log = Append(s.log, s.disk)
  BY DEF Writes
<1>4. Logged(t, o)
  BY <1>3, LoggedGrows
<1> QED
  BY <1>2, <1>4

(* What the purge leaves.                                                  *)
LEMMA PurgeLeaves ==
    ASSUME NEW s \in Dev, NEW i \in Index
    PROVE  Purged(s, Purge(s, i), i)
<1>1. PICK a, b, c, d, e, f, g \in Dev :
              /\ PurgeSteps(s, i, a, b, c, d, e, f, g)
              /\ Purge(s, i) = IF HasAnyCertificateForFabric(s, i) THEN g ELSE c
  BY PurgeIs
<1>0. /\ Pieces = {"meta", "key", "noc", "icac", "rcac"} /\ KeyAfter(s, i) \in Keypair
      /\ \A p \in Pieces : None \in Piece(p) \cup {None}
  BY Initials DEF Pieces, KeyAfter, Dev
<1>w. /\ Writes(s, a, "meta", i, None) /\ Writes(b, c, "key", i, None)
      /\ Writes(d, e, "noc", i, None) /\ Writes(e, f, "icac", i, None)
      /\ Writes(f, g, "rcac", i, None)
  BY <1>1 DEF PurgeSteps
<1>2. /\ b.disk = a.disk /\ b.ks = KeyAfter(s, i)
      /\ b.bad = a.bad /\ b.err = a.err /\ b.table = a.table /\ b.count = a.count
      /\ b.next = a.next /\ b.pend = a.pend /\ b.pidx = a.pidx /\ b.flags = a.flags
      /\ b.fs = a.fs /\ b.work = a.work /\ b.certs = a.certs
  BY <1>0, <1>1, WithKey DEF PurgeSteps
<1>3. /\ d.disk = c.disk /\ d.ks = c.ks /\ d.certs = NoCerts
      /\ d.bad = c.bad /\ d.err = c.err /\ d.table = c.table /\ d.count = c.count
      /\ d.next = c.next /\ d.pend = c.pend /\ d.pidx = c.pidx /\ d.flags = c.flags
      /\ d.fs = c.fs /\ d.work = c.work
  BY <1>1, WithCerts, Initials DEF PurgeSteps
<1> DEFINE t == Purge(s, i)
<1>4. t \in Dev
  BY <1>1
<1>5. /\ t.bad = s.bad /\ t.err = s.err /\ t.table = s.table /\ t.count = s.count
      /\ t.next = s.next /\ t.pend = s.pend /\ t.pidx = s.pidx /\ t.flags = s.flags
      /\ t.fs = s.fs /\ t.work = s.work
      /\ t.disk.index = s.disk.index /\ t.disk.marker = s.disk.marker
  BY <1>1, <1>w, <1>2, <1>3 DEF Writes, SameMemory
<1>6. t.ks = KeyAfter(s, i) /\ t.certs = CertsAfter(s, i)
  BY <1>1, <1>w, <1>2, <1>3 DEF Writes, SameMemory, CertsAfter
<1>7. a.bad = s.bad /\ b.bad = s.bad /\ c.bad = s.bad /\ d.bad = s.bad /\ e.bad = s.bad /\ f.bad = s.bad
  BY <1>1, <1>w, <1>2, <1>3 DEF Writes, SameMemory
<1>a. /\ \A j \in Index \ {i} : SamePieces(s.disk, a.disk, j)
      /\ a.disk["meta"][i] = IF "meta" \in s.bad THEN s.disk["meta"][i] ELSE None
      /\ \A q \in Pieces \ {"meta"} : a.disk[q][i] = s.disk[q][i]
  BY <1>0, <1>w, WritesElsewhere
<1>c. /\ \A j \in Index \ {i} : SamePieces(b.disk, c.disk, j)
      /\ c.disk["key"][i] = IF "key" \in s.bad THEN b.disk["key"][i] ELSE None
      /\ \A q \in Pieces \ {"key"} : c.disk[q][i] = b.disk[q][i]
  BY <1>0, <1>w, <1>7, WritesElsewhere
<1>e. /\ \A j \in Index \ {i} : SamePieces(d.disk, e.disk, j)
      /\ e.disk["noc"][i] = IF "noc" \in s.bad THEN d.disk["noc"][i] ELSE None
      /\ \A q \in Pieces \ {"noc"} : e.disk[q][i] = d.disk[q][i]
  BY <1>0, <1>w, <1>7, WritesElsewhere
<1>f. /\ \A j \in Index \ {i} : SamePieces(e.disk, f.disk, j)
      /\ f.disk["icac"][i] = IF "icac" \in s.bad THEN e.disk["icac"][i] ELSE None
      /\ \A q \in Pieces \ {"icac"} : f.disk[q][i] = e.disk[q][i]
  BY <1>0, <1>w, <1>7, WritesElsewhere
<1>g. /\ \A j \in Index \ {i} : SamePieces(f.disk, g.disk, j)
      /\ g.disk["rcac"][i] = IF "rcac" \in s.bad THEN f.disk["rcac"][i] ELSE None
      /\ \A q \in Pieces \ {"rcac"} : g.disk[q][i] = f.disk[q][i]
  BY <1>0, <1>w, <1>7, WritesElsewhere
<1>8. \A j \in Index \ {i} : SamePieces(s.disk, t.disk, j)
  BY <1>1, <1>2, <1>3, <1>a, <1>c, <1>e, <1>f, <1>g DEF SamePieces
<1>9. \A q \in Pieces : t.disk[q][i] = IF q \in s.bad THEN s.disk[q][i] ELSE None
  <2>1. CASE HasAnyCertificateForFabric(s, i)
    BY <1>0, <1>1, <1>2, <1>3, <1>a, <1>c, <1>e, <1>f, <1>g, <2>1
  <2>2. CASE ~HasAnyCertificateForFabric(s, i)
    <3>1. s.disk["noc"][i] = None /\ s.disk["icac"][i] = None /\ s.disk["rcac"][i] = None
      BY <2>2 DEF HasAnyCertificateForFabric
    <3> QED
      BY <1>0, <1>1, <1>2, <1>3, <1>a, <1>c, <2>2, <3>1
  <2> QED
    BY <2>1, <2>2
<1>10. t.disk \in Disk
  BY <1>4 DEF Dev
<1> QED
  BY <1>4, <1>5, <1>6, <1>8, <1>9, <1>10 DEF Purged, PiecesGone

(* The power may fail between any two writes of the purge.                 *)
LEMMA PurgeSafe ==
    ASSUME NEW s \in Dev, NEW i \in Index, NEW o, s.bad = {},
           Logged(s, o), Restartable(s.disk, o),
           i = s.disk.marker \/ o[i] \in {Unsure, None}
    PROVE  Logged(Purge(s, i), o) /\ Restartable(Purge(s, i).disk, o)
<1>1. PICK a, b, c, d, e, f, g \in Dev :
              /\ PurgeSteps(s, i, a, b, c, d, e, f, g)
              /\ Purge(s, i) = IF HasAnyCertificateForFabric(s, i) THEN g ELSE c
  BY PurgeIs
<1>0. /\ Pieces = {"meta", "key", "noc", "icac", "rcac"} /\ KeyAfter(s, i) \in Keypair
      /\ \A p \in Pieces : None \in Piece(p) \cup {None}
  BY Initials DEF Pieces, KeyAfter, Dev
<1>w. /\ Writes(s, a, "meta", i, None) /\ Writes(b, c, "key", i, None)
      /\ Writes(d, e, "noc", i, None) /\ Writes(e, f, "icac", i, None)
      /\ Writes(f, g, "rcac", i, None)
  BY <1>1 DEF PurgeSteps
<1>2. b.disk = a.disk /\ b.log = a.log
  BY <1>0, <1>1, WithKey DEF PurgeSteps
<1>3. d.disk = c.disk /\ d.log = c.log
  BY <1>1, WithCerts, Initials DEF PurgeSteps
<1> DEFINE Condemned(x) == i = x.disk.marker \/ (x.disk["meta"][i] = None /\ o[i] \in {Unsure, None})
<1>4. \A x \in Dev : Condemned(x) => i = x.disk.marker \/ (~Loads(x.disk, i) /\ o[i] \in {Unsure, None})
  BY DEF Loads
<1>a. Condemned(a)
  <2>1. a.disk["meta"][i] = IF "meta" \in s.bad THEN s.disk["meta"][i] ELSE None
    BY <1>0, <1>w, WritesElsewhere
  <2>2. a.disk.marker = s.disk.marker
    BY <1>w DEF Writes
  <2> QED
    BY <2>1, <2>2
<1>c. Condemned(c)
  <2>1. c.disk["meta"][i] = b.disk["meta"][i] /\ c.disk.marker = b.disk.marker
    BY <1>0, <1>w, WritesElsewhere DEF Writes
  <2> QED
    BY <1>2, <1>a, <2>1
<1>e. Condemned(e)
  <2>1. e.disk["meta"][i] = d.disk["meta"][i] /\ e.disk.marker = d.disk.marker
    BY <1>0, <1>w, WritesElsewhere DEF Writes
  <2> QED
    BY <1>3, <1>c, <2>1
<1>f. Condemned(f)
  <2>1. f.disk["meta"][i] = e.disk["meta"][i] /\ f.disk.marker = e.disk.marker
    BY <1>0, <1>w, WritesElsewhere DEF Writes
  <2> QED
    BY <1>e, <2>1
<1>g. Condemned(g)
  <2>1. g.disk["meta"][i] = f.disk["meta"][i] /\ g.disk.marker = f.disk.marker
    BY <1>0, <1>w, WritesElsewhere DEF Writes
  <2> QED
    BY <1>f, <2>1
<1>5. /\ s.disk.marker = a.disk.marker /\ b.disk.marker = c.disk.marker
      /\ d.disk.marker = e.disk.marker /\ e.disk.marker = f.disk.marker /\ f.disk.marker = g.disk.marker
  BY <1>w DEF Writes
<1> HIDE DEF Condemned
<1>6. Logged(a, o) /\ Restartable(a.disk, o)
  BY <1>0, <1>w, <1>4, <1>5, <1>a, WritesSafely
<1>7. Logged(b, o) /\ Restartable(b.disk, o)
  BY <1>2, <1>6 DEF Logged
<1>8. Logged(c, o) /\ Restartable(c.disk, o)
  BY <1>0, <1>w, <1>4, <1>5, <1>7, <1>c, WritesSafely
<1>9. Logged(d, o) /\ Restartable(d.disk, o)
  BY <1>3, <1>8 DEF Logged
<1>10. Logged(e, o) /\ Restartable(e.disk, o)
  BY <1>0, <1>w, <1>4, <1>5, <1>9, <1>e, WritesSafely
<1>11. Logged(f, o) /\ Restartable(f.disk, o)
  BY <1>0, <1>w, <1>4, <1>5, <1>10, <1>f, WritesSafely
<1>12. Logged(g, o) /\ Restartable(g.disk, o)
  BY <1>0, <1>w, <1>4, <1>5, <1>11, <1>g, WritesSafely
<1> QED
  BY <1>1, <1>8, <1>12

\* The index as StoreFabricIndexInfo writes it.
InfoOf(s) == [next |-> s.next, fabrics |-> InUse(s)]

(* What StoreFabricIndexInfo does.                                         *)
LEMMA StoreIndexIs ==
    ASSUME NEW s \in Dev
    PROVE  /\ Stores(s, StoreFabricIndexInfo(s), "index", PutIndex(s.disk, InfoOf(s)))
           /\ InfoOf(s) \in IndexInfo /\ PutIndex(s.disk, InfoOf(s)) \in Disk
           /\ StoreFabricIndexInfo(s) \in Dev
<1>1. InfoOf(s) \in IndexInfo /\ s.disk \in Disk /\ "index" \in Parts
  BY DEF InfoOf, IndexInfo, Dev, InUse, Parts
<1>2. PutIndex(s.disk, InfoOf(s)) \in Disk
  BY <1>1, IndexPut
<1>3. StoreFabricIndexInfo(s) = Store(s, "index", PutIndex(s.disk, InfoOf(s)))
  BY DEF StoreFabricIndexInfo, PutIndex, InfoOf
<1>4. Stores(s, StoreFabricIndexInfo(s), "index", PutIndex(s.disk, InfoOf(s)))
  BY <1>1, <1>2, <1>3, StoreIs
<1> QED
  BY <1>1, <1>2, <1>4 DEF Stores, SameMemory

(* The new index may be the last thing written.                            *)
LEMMA StoreIndexSafe ==
    ASSUME NEW s \in Dev, NEW o, Logged(s, o), Restartable(s.disk, o),
           s.next \notin InUse(s), \A j \in Index : Survives(s.disk, j) => j \in InUse(s)
    PROVE  Logged(StoreFabricIndexInfo(s), o) /\ Restartable(StoreFabricIndexInfo(s).disk, o)
<1> DEFINE t == StoreFabricIndexInfo(s)
<1>1. /\ Stores(s, t, "index", PutIndex(s.disk, InfoOf(s)))
      /\ InfoOf(s) \in IndexInfo /\ t \in Dev /\ s.disk \in Disk
  BY StoreIndexIs DEF Dev
<1>2. InfoOf(s).next = s.next /\ InfoOf(s).fabrics = InUse(s)
  BY DEF InfoOf
<1>3. Restartable(PutIndex(s.disk, InfoOf(s)), o)
  BY <1>1, <1>2, RestartableIndex
<1> HIDE DEF t
<1>4. \/ t.log = s.log /\ t.disk = s.disk
      \/ t.log = Append(s.log, s.disk) /\ t.disk = PutIndex(s.disk, InfoOf(s))
  BY <1>1 DEF Stores
<1>5. Logged(t, o)
  BY <1>1, <1>4, LoggedGrows
<1>6. Restartable(t.disk, o)
  BY <1>3, <1>4
<1> QED
  BY <1>5, <1>6 DEF t

\* What DeleteEntry does, s.table[i] being the entry of the table.
Deleted(s, t, i) ==
    /\ t \in Dev
    /\ t.bad = s.bad /\ t.err = s.err /\ t.pend = s.pend /\ t.pidx = s.pidx /\ t.flags = s.flags
    /\ t.fs = s.fs /\ t.work = s.work
    /\ t.ks = KeyAfter(s, i) /\ t.certs = CertsAfter(s, i)
    /\ t.table = [s.table EXCEPT ![i] = None]
    /\ t.next = IF s.table[i] # None /\ s.next = Undefined THEN i ELSE s.next
    /\ t.count = IF s.table[i] = None \/ s.count = 0 THEN s.count ELSE s.count - 1
    /\ PiecesGone(s.bad, s.disk, t.disk, i)
    /\ t.disk.index = IF s.table[i] = None \/ "index" \in s.bad THEN s.disk.index
                      ELSE [next |-> t.next, fabrics |-> InUse(s) \ {i}]

LEMMA DeleteEntryIs ==
    ASSUME NEW s \in Dev, NEW i \in Index
    PROVE  Deleted(s, DeleteEntry(s, i), i)
<1> DEFINE a == Purge(s, i)
           n == IF a.next = Undefined THEN i ELSE a.next
           b == [a EXCEPT !.table[i] = None, !.next = n]
           c == StoreFabricIndexInfo(b)
           m == IF c.count = 0 THEN 0 ELSE c.count - 1
           d == [c EXCEPT !.count = m]
<1>1. Purged(s, a, i) /\ a \in Dev
  BY PurgeLeaves DEF Purged
<1>2. CASE s.table[i] = None
  <2>1. DeleteEntry(s, i) = a
    BY <1>2 DEF DeleteEntry, Purge
  <2>2. s.table = [s.table EXCEPT ![i] = None]
    BY <1>2 DEF Dev
  <2> HIDE DEF a
  <2> QED
    BY <1>1, <1>2, <2>1, <2>2 DEF Purged, Deleted
<1>3. CASE s.table[i] # None
  <2>1. DeleteEntry(s, i) = d
    BY <1>3 DEF DeleteEntry, Purge
  <2> HIDE DEF a
  <2>2. n \in AnyIndex
    BY <1>1, IndexIsFinite DEF Dev, AnyIndex, Index
  <2>3. /\ b \in Dev /\ b.table = [a.table EXCEPT ![i] = None] /\ b.next = n
        /\ b.bad = a.bad /\ b.err = a.err /\ b.pend = a.pend /\ b.pidx = a.pidx
        /\ b.flags = a.flags /\ b.fs = a.fs /\ b.work = a.work /\ b.ks = a.ks
        /\ b.certs = a.certs /\ b.count = a.count /\ b.disk = a.disk
    <3> HIDE DEF n
    <3> QED
      BY <1>1, <2>2 DEF Dev
  <2> HIDE DEF b
  <2>4. Stores(b, c, "index", PutIndex(b.disk, InfoOf(b))) /\ c \in Dev
    BY <2>3, StoreIndexIs
  <2> HIDE DEF c
  <2>5. m \in Nat
    BY <2>4 DEF Dev
  <2> HIDE DEF m
  <2>6. /\ d \in Dev /\ d.table = c.table /\ d.next = c.next /\ d.count = m
        /\ d.bad = c.bad /\ d.err = c.err /\ d.pend = c.pend /\ d.pidx = c.pidx
        /\ d.flags = c.flags /\ d.fs = c.fs /\ d.work = c.work /\ d.ks = c.ks
        /\ d.certs = c.certs /\ d.disk = c.disk
    BY <2>4, <2>5 DEF Dev
  <2> HIDE DEF d
  <2>7. /\ d.bad = s.bad /\ d.err = s.err /\ d.pend = s.pend /\ d.pidx = s.pidx
        /\ d.flags = s.flags /\ d.fs = s.fs /\ d.work = s.work
        /\ d.ks = KeyAfter(s, i) /\ d.certs = CertsAfter(s, i)
        /\ d.table = [s.table EXCEPT ![i] = None]
    BY <1>1, <2>3, <2>4, <2>6 DEF Purged, Stores, SameMemory
  <2>8. d.next = IF s.next = Undefined THEN i ELSE s.next
    BY <1>1, <2>3, <2>4, <2>6 DEF Purged, Stores, SameMemory, n
  <2>9. d.count = IF s.count = 0 THEN 0 ELSE s.count - 1
    BY <1>1, <2>3, <2>4, <2>6 DEF Purged, Stores, SameMemory, m
  <2>10. s.disk \in Disk /\ a.disk \in Disk /\ InfoOf(b) \in IndexInfo
    BY <1>1, <2>3, StoreIndexIs DEF Dev
  <2>11. InfoOf(b) = [next |-> d.next, fabrics |-> InUse(s) \ {i}]
    <3>1. InUse(b) = InUse(s) \ {i}
      BY <1>1, <2>3 DEF InUse, Purged, Dev
    <3> QED
      BY <3>1, <2>3, <2>4, <2>6 DEF InfoOf, Stores, SameMemory
  <2>12. PiecesGone(s.bad, s.disk, d.disk, i)
    <3>1. PiecesGone(s.bad, s.disk, a.disk, i) /\ d.disk \in Disk
      BY <1>1, <2>6 DEF Purged, Dev
    <3>2. d.disk = a.disk \/ d.disk = PutIndex(a.disk, InfoOf(b))
      BY <2>3, <2>4, <2>6 DEF Stores
    <3>3. \A q \in Pieces : PutIndex(a.disk, InfoOf(b))[q] = a.disk[q]
      BY <2>10, IndexPut DEF Pieces
    <3>4. PutIndex(a.disk, InfoOf(b)).marker = a.disk.marker
      BY <2>10, IndexPut
    <3>5. d.disk.marker = a.disk.marker /\ \A q \in Pieces : d.disk[q] = a.disk[q]
      BY <3>2, <3>3, <3>4
    <3> QED
      BY <3>1, <3>5 DEF PiecesGone, SamePieces
  <2>13. d.disk.index = IF "index" \in s.bad THEN s.disk.index ELSE InfoOf(b)
    BY <1>1, <2>3, <2>4, <2>6, <2>10, IndexPut DEF Stores, Purged
  <2> QED
    BY <1>3, <2>1, <2>6, <2>7, <2>8, <2>9, <2>11, <2>12, <2>13 DEF Deleted
<1> QED
  BY <1>2, <1>3

----------------------------------------------------------------------------
(* The table, the disk and what is owed agree, but for fabric p, which an  *)
(* administrator is adding or updating.                                    *)

\* Fabric j is on disk as the table has it, and stays there.
Kept(s, j) ==
    /\ Whole(s.disk, j) /\ s.disk.noc[j] = Identity(s.table[j])
    /\ s.disk.index # None /\ j \in s.disk.index.fabrics /\ j # s.disk.marker

Agree(s, p, o) ==
    /\ s.count = Cardinality(InUse(s))
    /\ s.next \notin InUse(s) \ {p}
    /\ s.next = Undefined => InUse(s) = Index
    /\ IndexApart(s.disk)
    /\ \A j \in Index \ {p} : Loads(s.disk, j) => j \in InUse(s)
    /\ \A j \in InUse(s) \ {p} : Kept(s, j)
    /\ \A j \in Index : \/ o[j] = Unsure
                        \/ o[j] = IF j \in InUse(s) \ {p} THEN Identity(s.table[j]) ELSE None

\* u owes what o owes, but for fabric i.
OwesElsewhere(o, u, i) ==
    /\ \A j \in Index \ {i} : u[j] = o[j]
    /\ u[i] \in {None, Unsure}

(* A start from the disk is safe.                                          *)
LEMMA AgreeRestartable ==
    ASSUME NEW s \in Dev, NEW p \in AnyIndex, NEW o, Agree(s, p, o),
           p = Undefined \/ p = s.disk.marker \/ ~Loads(s.disk, p)
    PROVE  Restartable(s.disk, o)
<1>1. \A j \in Index : Survives(s.disk, j) => j \in InUse(s) \ {p}
  BY DEF Agree, Survives, Undefined, Index
<1>2. \A j \in InUse(s) \ {p} : j \in Index /\ s.disk.noc[j] = Identity(s.table[j]) /\ Survives(s.disk, j)
                                /\ Whole(s.disk, j) /\ s.disk.index # None /\ j \in s.disk.index.fabrics
  BY DEF Agree, Kept, InUse, Survives, Whole, Loads
<1> QED
  BY <1>1, <1>2 DEF Restartable, Agree

(* What is not sure may be anything.                                       *)
LEMMA RestartableUnsure ==
    ASSUME NEW d, NEW o, NEW u, NEW i \in Index, Restartable(d, o), OwesElsewhere(o, u, i),
           u[i] = Unsure \/ ~Survives(d, i)
    PROVE  Restartable(d, u)
BY DEF Restartable, OwesElsewhere

(* A fabric that was committed may be set aside.                           *)
LEMMA AgreeAside ==
    ASSUME NEW s \in Dev, NEW i \in Index, NEW o, NEW u, NEW p \in AnyIndex, Agree(s, p, o),
           p \in {Undefined, i} \/ (s.table[p] = None /\ ~Loads(s.disk, p)), OwesElsewhere(o, u, i)
    PROVE  Agree(s, i, u)
<1>1. (InUse(s) \ {p}) \ {i} = InUse(s) \ {i}
  BY DEF InUse, Undefined, Index
<1>0. \A j \in Index : j # Undefined
  BY DEF Undefined, Index
<1>2. \A j \in Index \ {i} : Loads(s.disk, j) => j \in InUse(s)
  BY <1>0 DEF Agree
<1>3. s.next \notin InUse(s) \ {i} /\ \A j \in InUse(s) \ {i} : Kept(s, j)
  BY <1>1 DEF Agree
<1>4. \A j \in Index : \/ u[j] = Unsure
                       \/ u[j] = IF j \in InUse(s) \ {i} THEN Identity(s.table[j]) ELSE None
  BY <1>1 DEF Agree, OwesElsewhere
<1> QED
  BY <1>2, <1>3, <1>4 DEF Agree

(* After the deletion of i no fabric is set aside.                         *)
LEMMA DeleteAgrees ==
    ASSUME NEW s \in Dev, OneFault(s.bad), NEW i \in Index, NEW o, Agree(s, i, o)
    PROVE  /\ Agree(DeleteEntry(s, i), Undefined, o)
           /\ ~Loads(DeleteEntry(s, i).disk, i)
           /\ DeleteEntry(s, i).table[i] = None
<1> DEFINE t == DeleteEntry(s, i)
<1>1. Deleted(s, t, i)
  BY DeleteEntryIs
<1> HIDE DEF t
<1>2. PiecesGone(s.bad, s.disk, t.disk, i) /\ t \in Dev /\ t.table = [s.table EXCEPT ![i] = None]
  BY <1>1 DEF Deleted
<1>3. ~Loads(t.disk, i)
  BY <1>2 DEF PiecesGone, Loads, OneFault, Pieces
<1>4. InUse(t) = InUse(s) \ {i} /\ t.table[i] = None
  BY <1>2 DEF InUse, Dev
<1>5. \A j \in Index \ {i} : t.table[j] = s.table[j] /\ SamePieces(s.disk, t.disk, j)
  BY <1>2 DEF Dev, PiecesGone
<1>6. t.count = Cardinality(InUse(t))
  <2>1. IsFiniteSet(InUse(s))
    BY IndexIsFinite, FS_Subset DEF InUse
  <2>2. Cardinality(InUse(s) \ {i}) = IF i \in InUse(s) THEN Cardinality(InUse(s)) - 1 ELSE Cardinality(InUse(s))
    BY <2>1, FS_RemoveElement
  <2>3. Cardinality(InUse(s)) \in Nat /\ (i \in InUse(s) => Cardinality(InUse(s)) # 0)
    BY <2>1, FS_CardinalityType, FS_EmptySet
  <2>4. s.count = Cardinality(InUse(s)) /\ (i \in InUse(s) <=> s.table[i] # None)
    BY DEF Agree, InUse
  <2>5. t.count = IF s.table[i] = None \/ s.count = 0 THEN s.count ELSE s.count - 1
    BY <1>1 DEF Deleted
  <2> QED
    BY <1>4, <2>2, <2>3, <2>4, <2>5
<1>7. t.next \notin InUse(t) /\ (t.next = Undefined => InUse(t) = Index)
  <2>1. t.next = IF s.table[i] # None /\ s.next = Undefined THEN i ELSE s.next
    BY <1>1 DEF Deleted
  <2>2. s.next \notin InUse(s) \ {i} /\ (s.next = Undefined => InUse(s) = Index)
    BY DEF Agree
  <2>3. s.table[i] = None => i \notin InUse(s)
    BY DEF InUse
  <2>4. i # Undefined
    BY IndexIsFinite DEF Undefined, Index
  <2>5. CASE s.table[i] # None /\ s.next = Undefined
    BY <1>4, <2>1, <2>4, <2>5
  <2>6. CASE ~(s.table[i] # None /\ s.next = Undefined)
    <3>1. t.next = s.next
      BY <2>1, <2>6
    <3>2. s.next # Undefined
      BY <2>2, <2>3, <2>6
    <3> QED
      BY <1>4, <2>2, <3>1, <3>2
  <2> QED
    BY <2>5, <2>6
<1>8. t.disk.index # s.disk.index => t.disk.index = [next |-> t.next, fabrics |-> InUse(t)]
  BY <1>1, <1>4 DEF Deleted
<1>9. IndexApart(t.disk)
  BY <1>7, <1>8 DEF IndexApart, Agree
<1>10. \A j \in Index : Loads(t.disk, j) => j \in InUse(t)
  BY <1>3, <1>4, <1>5 DEF Agree, Loads, SamePieces, Pieces
<1>11. \A j \in InUse(t) : Kept(t, j)
  <2> SUFFICES ASSUME NEW j \in InUse(t) PROVE Kept(t, j)
    OBVIOUS
  <2>1. j \in Index \ {i} /\ Kept(s, j)
    BY <1>4 DEF Agree, InUse
  <2>2. Whole(t.disk, j) /\ t.disk.noc[j] = Identity(t.table[j])
    BY <1>5, <2>1 DEF Kept, Whole, SamePieces, Pieces
  <2>3. j # t.disk.marker
    BY <1>2, <2>1 DEF Kept, PiecesGone
  <2>4. t.disk.index # None /\ j \in t.disk.index.fabrics
    <3>1. CASE t.disk.index = s.disk.index
      BY <2>1, <3>1 DEF Kept
    <3>2. CASE t.disk.index # s.disk.index
      <4>1. [next |-> t.next, fabrics |-> InUse(t)] \in [next : Nat, fabrics : SUBSET Nat]
        BY <1>2, IndexIsFinite DEF Dev, AnyIndex, InUse, Index
      <4> QED
        BY <1>8, <3>2, <4>1, NoneAssumption
    <3> QED
      BY <3>1, <3>2
  <2> QED
    BY <2>2, <2>3, <2>4 DEF Kept
<1>12. \A j \in Index : \/ o[j] = Unsure
                        \/ o[j] = IF j \in InUse(t) THEN Identity(t.table[j]) ELSE None
  BY <1>4, <1>5 DEF Agree
<1>13. InUse(t) \ {Undefined} = InUse(t)
  BY DEF InUse, Undefined, Index
<1> QED
  BY <1>3, <1>4, <1>6, <1>7, <1>9, <1>10, <1>11, <1>12, <1>13 DEF Agree, t

(* The power may fail between any two writes of the deletion of i.         *)
LEMMA DeleteSafe ==
    ASSUME NEW s \in Dev, s.bad = {}, NEW i \in Index, NEW o,
           Logged(s, o), Restartable(s.disk, o), Agree(s, i, o)
    PROVE  Logged(DeleteEntry(s, i), o)
<1> DEFINE a == Purge(s, i)
           n == IF a.next = Undefined THEN i ELSE a.next
           b == [a EXCEPT !.table[i] = None, !.next = n]
           c == StoreFabricIndexInfo(b)
           m == IF c.count = 0 THEN 0 ELSE c.count - 1
           d == [c EXCEPT !.count = m]
<1>0. o[i] \in {Unsure, None}
  BY DEF Agree
<1>1. Logged(a, o) /\ Restartable(a.disk, o)
  BY <1>0, PurgeSafe
<1>2. Purged(s, a, i) /\ a \in Dev
  BY PurgeLeaves DEF Purged
<1>3. CASE s.table[i] = None
  <2>1. DeleteEntry(s, i) = a
    BY <1>3 DEF DeleteEntry, Purge
  <2> QED
    BY <1>1, <2>1
<1>4. CASE s.table[i] # None
  <2>1. DeleteEntry(s, i) = d
    BY <1>4 DEF DeleteEntry, Purge
  <2> HIDE DEF a
  <2>2. n \in AnyIndex
    BY <1>2, IndexIsFinite DEF Dev, AnyIndex, Index
  <2>3. /\ b \in Dev /\ b.table = [a.table EXCEPT ![i] = None] /\ b.next = n
        /\ b.disk = a.disk /\ b.log = a.log
    <3> HIDE DEF n
    <3> QED
      BY <1>2, <2>2 DEF Dev
  <2> HIDE DEF b
  <2>4. InUse(b) = InUse(s) \ {i}
    BY <1>2, <2>3 DEF InUse, Purged, Dev
  <2>5. b.next \notin InUse(b)
    BY <1>2, <2>3, <2>4 DEF Agree, Purged
  <2>6. \A j \in Index : Survives(b.disk, j) => j \in InUse(b)
    <3>1. ~Loads(a.disk, i) /\ \A j \in Index \ {i} : SamePieces(s.disk, a.disk, j)
      BY <1>2 DEF Purged, PiecesGone, Loads, Pieces
    <3> QED
      BY <2>3, <2>4, <3>1 DEF Agree, Survives, Loads, SamePieces, Pieces
  <2>7. Logged(c, o) /\ c \in Dev
    <3>1. Logged(b, o) /\ Restartable(b.disk, o)
      BY <1>1, <2>3 DEF Logged
    <3> QED
      BY <2>3, <2>5, <2>6, <3>1, StoreIndexSafe, StoreIndexIs
  <2> HIDE DEF c
  <2>8. d.log = c.log
    BY <2>7 DEF Dev
  <2> QED
    BY <2>1, <2>7, <2>8 DEF Logged
<1> QED
  BY <1>3, <1>4

----------------------------------------------------------------------------
(* Reverting what is pending.                                              *)

PendingOf(s) == IF "add" \in s.flags THEN s.pidx ELSE Undefined
CommittedOf(s) == InUse(s) \ {PendingOf(s)}

\* Between two handlers the table agrees with the disk, but for an addition
\* that waits for its commit, of which nothing is on disk.
Settles(s, o) ==
    /\ "add" \in s.flags => s.pidx \in Index
    /\ Agree(s, PendingOf(s), o)
    /\ "add" \in s.flags => ~Loads(s.disk, s.pidx)

(* Agree is about the table and the disk only.                             *)
LEMMA AgreeFrame ==
    ASSUME NEW s, NEW t, NEW p, NEW o, Agree(s, p, o),
           t.table = s.table, t.count = s.count, t.next = s.next, t.disk = s.disk
    PROVE  Agree(t, p, o)
<1>1. InUse(t) = InUse(s)
  BY DEF InUse
<1>2. \A j : Kept(t, j) <=> Kept(s, j)
  BY DEF Kept
<1> QED
  BY <1>1, <1>2 DEF Agree

\* What RevertPendingOpCertsExceptRoot does.
RevertedExceptRoot(s, t, c) ==
    /\ t \in Dev
    /\ t.bad = s.bad /\ t.err = s.err /\ t.fs = s.fs /\ t.work = s.work
    /\ t.pend = None /\ t.flags = s.flags \ {"add", "update"}
    /\ t.pidx = IF "root" \in s.flags THEN s.pidx ELSE Undefined
    /\ "add" \notin s.flags => /\ t.table = s.table /\ t.count = s.count /\ t.next = s.next
                               /\ t.disk = s.disk /\ t.log = s.log /\ t.ks = s.ks /\ t.certs = c
    /\ "add" \in s.flags => /\ t.table = [s.table EXCEPT ![s.pidx] = None]
                            /\ t.ks = KeyAfter(s, s.pidx)
                            /\ t.certs = NoCerts \/ (t.certs = c /\ c.rcac = None)

(* The pending certificates but for the root.                              *)
LEMMA ExceptRoot ==
    ASSUME NEW c \in Certs
    PROVE  LET e == CertsExceptRootReverted(c)
           IN  /\ e \in Certs /\ e.noc = None /\ e.icac = None /\ e.rcac = c.rcac
               /\ e.flags = c.flags \ {"add", "update"}
               /\ e.idx = IF c.rcac = None THEN Undefined ELSE c.idx
<1> DEFINE x == IF c.rcac = None THEN Undefined ELSE c.idx
           f == c.flags \ {"add", "update"}
<1>1. x \in AnyIndex /\ f \in SUBSET CertFlags
  <2>1. c.idx \in AnyIndex /\ c.flags \in SUBSET CertFlags
    BY DEF Certs
  <2>2. Undefined \in AnyIndex
    BY IndexIsFinite DEF AnyIndex, Undefined
  <2> QED
    BY <2>1, <2>2
<1>2. CertsExceptRootReverted(c) = [c EXCEPT !.noc = None, !.icac = None, !.idx = x, !.flags = f]
  BY DEF CertsExceptRootReverted
<1> HIDE DEF x, f
<1>3. LET e == CertsExceptRootReverted(c)
      IN  /\ e \in Certs /\ e.noc = None /\ e.icac = None /\ e.rcac = c.rcac
          /\ e.flags = f /\ e.idx = x
  BY <1>1, <1>2 DEF Certs
<1> QED
  BY <1>3 DEF x, f

LEMMA RevertExceptRootIs ==
    ASSUME NEW s \in Dev, OneFault(s.bad), NEW o, Settles(s, o)
    PROVE  LET t == RevertPendingOpCertsExceptRoot(s)
           IN  /\ RevertedExceptRoot(s, t, CertsExceptRootReverted(s.certs))
               /\ Agree(t, Undefined, o)
               /\ s.bad = {} /\ Logged(s, o) => Logged(t, o)
<1> DEFINE c == CertsExceptRootReverted(s.certs)
           a == [s EXCEPT !.pend = None, !.certs = c]
           b == IF "add" \in s.flags THEN DeleteEntry(a, s.pidx) ELSE a
           p == IF "root" \in s.flags THEN b.pidx ELSE Undefined
           fl == b.flags \ {"add", "update"}
           t == [b EXCEPT !.flags = fl, !.pidx = p]
<1>1. c \in Certs /\ c.rcac = s.certs.rcac
  BY ExceptRoot DEF Dev
<1>2. RevertPendingOpCertsExceptRoot(s) = t
  BY DEF RevertPendingOpCertsExceptRoot
<1> HIDE DEF c
<1>3. /\ a \in Dev /\ a.pend = None /\ a.certs = c /\ a.bad = s.bad /\ a.err = s.err
      /\ a.table = s.table /\ a.count = s.count /\ a.next = s.next /\ a.pidx = s.pidx
      /\ a.flags = s.flags /\ a.ks = s.ks /\ a.fs = s.fs /\ a.work = s.work
      /\ a.disk = s.disk /\ a.log = s.log
  BY <1>1 DEF Dev
<1> HIDE DEF a
<1>4. Agree(a, PendingOf(s), o) /\ PendingOf(s) \in AnyIndex
  BY <1>3, AgreeFrame, IndexIsFinite DEF Settles, PendingOf, Dev, AnyIndex, Undefined
<1>5. CASE "add" \in s.flags
  <2>1. s.pidx \in Index /\ PendingOf(s) = s.pidx /\ b = DeleteEntry(a, s.pidx)
    BY <1>5 DEF Settles, PendingOf
  <2>2. Deleted(a, b, s.pidx)
    BY <1>3, <2>1, DeleteEntryIs
  <2>3. Agree(b, Undefined, o)
    BY <1>3, <1>4, <2>1, DeleteAgrees
  <2>4. s.bad = {} /\ Logged(s, o) => Logged(b, o)
    <3> SUFFICES ASSUME s.bad = {}, Logged(s, o) PROVE Logged(b, o)
      OBVIOUS
    <3>1. Logged(a, o)
      BY <1>3 DEF Logged
    <3>2. Restartable(a.disk, o)
      BY <1>3, <1>4, <1>5, <2>1, AgreeRestartable DEF Settles
    <3> QED
      BY <1>3, <1>4, <2>1, <3>1, <3>2, DeleteSafe
  <2> HIDE DEF b
  <2>5. p \in AnyIndex /\ fl \in SUBSET Flags /\ b \in Dev
    <3>1. b \in Dev
      BY <2>2 DEF Deleted
    <3>2. b.pidx \in AnyIndex /\ b.flags \in SUBSET Flags
      BY <3>1 DEF Dev
    <3>3. Undefined \in AnyIndex
      BY IndexIsFinite DEF AnyIndex, Undefined
    <3> QED
      BY <3>1, <3>2, <3>3
  <2> HIDE DEF p, fl
  <2>6. /\ t \in Dev /\ t.pend = b.pend /\ t.certs = b.certs /\ t.bad = b.bad /\ t.err = b.err
        /\ t.table = b.table /\ t.count = b.count /\ t.next = b.next /\ t.pidx = p
        /\ t.flags = fl /\ t.ks = b.ks /\ t.fs = b.fs /\ t.work = b.work
        /\ t.disk = b.disk /\ t.log = b.log
    BY <2>5 DEF Dev
  <2> HIDE DEF t
  <2>7. Agree(t, Undefined, o)
    BY <2>3, <2>6, AgreeFrame
  <2>8. t.certs = NoCerts \/ (t.certs = c /\ c.rcac = None)
    <3>1. t.certs = CertsAfter(a, s.pidx)
      BY <2>2, <2>6 DEF Deleted
    <3>2. c.rcac # None => HasAnyCertificateForFabric(a, s.pidx)
      BY <1>3 DEF HasAnyCertificateForFabric
    <3> QED
      BY <1>3, <3>1, <3>2 DEF CertsAfter
  <2>9. t.ks = KeyAfter(s, s.pidx)
    BY <1>3, <2>2, <2>6 DEF Deleted, KeyAfter
  <2>10. RevertedExceptRoot(s, t, c)
    BY <1>3, <1>5, <2>2, <2>6, <2>8, <2>9 DEF RevertedExceptRoot, Deleted, p, fl
  <2> QED
    BY <1>2, <2>4, <2>6, <2>7, <2>10 DEF Logged, c
<1>6. CASE "add" \notin s.flags
  <2>1. b = a /\ PendingOf(s) = Undefined
    BY <1>6 DEF PendingOf
  <2> HIDE DEF b
  <2>5. p \in AnyIndex /\ fl \in SUBSET Flags /\ b \in Dev
    <3>1. b.pidx \in AnyIndex /\ b.flags \in SUBSET Flags
      BY <1>3, <2>1 DEF Dev
    <3>2. Undefined \in AnyIndex
      BY IndexIsFinite DEF AnyIndex, Undefined
    <3> QED
      BY <1>3, <2>1, <3>1, <3>2
  <2> HIDE DEF p, fl
  <2>6. /\ t \in Dev /\ t.pend = b.pend /\ t.certs = b.certs /\ t.bad = b.bad /\ t.err = b.err
        /\ t.table = b.table /\ t.count = b.count /\ t.next = b.next /\ t.pidx = p
        /\ t.flags = fl /\ t.ks = b.ks /\ t.fs = b.fs /\ t.work = b.work
        /\ t.disk = b.disk /\ t.log = b.log
    BY <2>5 DEF Dev
  <2> HIDE DEF t
  <2>7. Agree(t, Undefined, o)
    BY <1>3, <1>4, <2>1, <2>6, AgreeFrame
  <2>8. RevertedExceptRoot(s, t, c)
    BY <1>3, <1>6, <2>1, <2>6 DEF RevertedExceptRoot, p, fl
  <2> QED
    BY <1>2, <1>3, <2>1, <2>6, <2>7, <2>8 DEF Logged, c
<1> QED
  BY <1>5, <1>6

\* What RevertPendingFabricData does.
Reverted(s, t) ==
    /\ t \in Dev
    /\ t.bad = s.bad /\ t.err = s.err /\ t.fs = s.fs /\ t.work = s.work
    /\ t.pend = None /\ t.flags = {} /\ t.pidx = Undefined /\ t.certs = NoCerts /\ t.ks = NoKey
    /\ t.table = IF "add" \in s.flags THEN [s.table EXCEPT ![s.pidx] = None] ELSE s.table

LEMMA RevertIs ==
    ASSUME NEW s \in Dev, OneFault(s.bad), NEW o, Settles(s, o)
    PROVE  LET t == RevertPendingFabricData(s)
           IN  /\ Reverted(s, t)
               /\ Agree(t, Undefined, o)
               /\ s.bad = {} /\ Logged(s, o) => Logged(t, o)
<1> DEFINE b == RevertPendingOpCertsExceptRoot(s)
           t == [b EXCEPT !.ks = NoKey, !.certs = NoCerts, !.flags = {}, !.pidx = Undefined]
<1>1. /\ RevertedExceptRoot(s, b, CertsExceptRootReverted(s.certs))
      /\ Agree(b, Undefined, o)
      /\ s.bad = {} /\ Logged(s, o) => Logged(b, o)
  BY RevertExceptRootIs
<1>2. RevertPendingFabricData(s) = t
  BY DEF RevertPendingFabricData
<1> HIDE DEF b
<1>3. b \in Dev /\ Undefined \in AnyIndex
  BY <1>1, IndexIsFinite DEF RevertedExceptRoot, AnyIndex, Undefined
<1>4. /\ t \in Dev /\ t.pend = b.pend /\ t.certs = NoCerts /\ t.bad = b.bad /\ t.err = b.err
      /\ t.table = b.table /\ t.count = b.count /\ t.next = b.next /\ t.pidx = Undefined
      /\ t.flags = {} /\ t.ks = NoKey /\ t.fs = b.fs /\ t.work = b.work
      /\ t.disk = b.disk /\ t.log = b.log
  BY <1>3, Initials DEF Dev
<1> HIDE DEF t
<1>5. Agree(t, Undefined, o)
  BY <1>1, <1>4, AgreeFrame
<1>6. Reverted(s, t)
  BY <1>1, <1>4 DEF Reverted, RevertedExceptRoot
<1> QED
  BY <1>1, <1>2, <1>4, <1>5, <1>6 DEF Logged

(* Delete, of a fabric while no other is being added, leaves a table that  *)
(* agrees with the disk.                                                   *)
LEMMA DeleteIs ==
    ASSUME NEW s \in Dev, OneFault(s.bad), NEW o, NEW u, NEW i \in Index, Settles(s, o),
           OwesElsewhere(o, u, i),
           \A p \in Index : PendingOf(s) = p => p = i \/ s.table[p] = None,
           HasPendingFabricUpdate(s) => "add" \notin s.flags
    PROVE  LET t == Delete(s, i)
               r == IF HasPendingFabricUpdate(s) /\ s.pend.idx = i THEN RevertPendingFabricData(s)
                    ELSE s
           IN  /\ r \in Dev /\ Deleted(r, t, i) /\ t = DeleteEntry(r, i)
               /\ r = s \/ (Reverted(s, r) /\ HasPendingFabricUpdate(s) /\ s.pend.idx = i)
               /\ r = s => ~(HasPendingFabricUpdate(s) /\ s.pend.idx = i)
               /\ Agree(t, Undefined, u) /\ ~Loads(t.disk, i)
               /\ s.bad = {} /\ Logged(s, u) /\ (u[i] = Unsure \/ i \notin CommittedOf(s)) => Logged(t, u)
<1> DEFINE upd == HasPendingFabricUpdate(s) /\ s.pend.idx = i
           r == IF upd THEN RevertPendingFabricData(s) ELSE s
           t == DeleteEntry(r, i)
<1>0. Undefined \notin Index /\ Undefined \in AnyIndex /\ Index \subseteq AnyIndex
  BY IndexIsFinite DEF Undefined, Index, AnyIndex
<1>1. Delete(s, i) = t
  BY <1>0 DEF Delete
<1>2. r \in Dev /\ r.bad = s.bad /\ (r = s \/ (Reverted(s, r) /\ upd)) /\ (upd => Reverted(s, r))
  BY RevertIs DEF Reverted
<1>3. Agree(r, i, u)
  <2>1. CASE upd
    <3>1. r = RevertPendingFabricData(s)
      BY <2>1
    <3>2. Agree(r, Undefined, o)
      BY <3>1, RevertIs
    <3> HIDE DEF r
    <3> QED
      BY <1>0, <1>2, <3>2, AgreeAside
  <2>2. CASE ~upd
    <3>1. r = s
      BY <2>2
    <3>2. Agree(s, PendingOf(s), o) /\ PendingOf(s) \in AnyIndex
      BY <1>0 DEF Settles, PendingOf, Dev
    <3>3. PendingOf(s) \in {Undefined, i} \/ (s.table[PendingOf(s)] = None /\ ~Loads(s.disk, PendingOf(s)))
      BY <1>0 DEF Settles, PendingOf
    <3> QED
      BY <3>1, <3>2, <3>3, AgreeAside
  <2> QED
    BY <2>1, <2>2
<1>4. s.bad = {} /\ Logged(s, u) /\ (u[i] = Unsure \/ i \notin CommittedOf(s))
        => Logged(r, u) /\ Restartable(r.disk, u)
  <2> SUFFICES ASSUME s.bad = {}, Logged(s, u), u[i] = Unsure \/ i \notin CommittedOf(s)
               PROVE  Logged(r, u) /\ Restartable(r.disk, u)
    OBVIOUS
  <2>1. Restartable(s.disk, o)
    <3>1. PendingOf(s) = Undefined \/ ~Loads(s.disk, PendingOf(s))
      BY DEF Settles, PendingOf
    <3>2. PendingOf(s) \in AnyIndex
      BY <1>0 DEF Settles, PendingOf, Dev
    <3> QED
      BY <3>1, <3>2, AgreeRestartable DEF Settles
  <2>2. u[i] = Unsure \/ ~Survives(s.disk, i)
    BY <1>0 DEF Settles, Agree, CommittedOf, Survives, PendingOf
  <2>3. Restartable(s.disk, u)
    BY <2>1, <2>2, RestartableUnsure
  <2>4. r.disk = s.disk /\ r.log = s.log
    <3>1. CASE upd
      <4>1. "add" \notin s.flags /\ r = RevertPendingFabricData(s)
        BY <3>1
      <4>2. RevertedExceptRoot(s, RevertPendingOpCertsExceptRoot(s), CertsExceptRootReverted(s.certs))
        BY RevertExceptRootIs
      <4> HIDE DEF r
      <4>3. r.disk = RevertPendingOpCertsExceptRoot(s).disk /\ r.log = RevertPendingOpCertsExceptRoot(s).log
        BY <4>1, <4>2 DEF RevertPendingFabricData, RevertedExceptRoot, Dev
      <4> QED
        BY <4>1, <4>2, <4>3 DEF RevertedExceptRoot
    <3>2. CASE ~upd
      BY <3>2
    <3> QED
      BY <3>1, <3>2
  <2> HIDE DEF r
  <2> QED
    BY <2>3, <2>4 DEF Logged
<1> HIDE DEF r
<1>5. Deleted(r, t, i)
  BY <1>2, DeleteEntryIs
<1>6. Agree(t, Undefined, u) /\ ~Loads(t.disk, i)
  BY <1>2, <1>3, DeleteAgrees
<1>7. s.bad = {} /\ Logged(s, u) /\ (u[i] = Unsure \/ i \notin CommittedOf(s)) => Logged(t, u)
  BY <1>2, <1>3, <1>4, DeleteSafe
<1>8. r = s => ~upd
  <2> SUFFICES ASSUME r = s, upd PROVE FALSE
    OBVIOUS
  <2>1. Reverted(s, s)
    BY <1>2
  <2> QED
    BY <2>1 DEF Reverted, HasPendingFabricUpdate
<1> QED
  BY <1>1, <1>2, <1>5, <1>6, <1>7, <1>8 DEF r

----------------------------------------------------------------------------
(* What is pending, the fail-safe and the scheduled work.                  *)

\* A pending addition is complete, or a RemoveFabric has taken all of it.
AddPending(s) ==
    "add" \in s.flags =>
        /\ {"data", "root"} \subseteq s.flags /\ "update" \notin s.flags
        /\ s.table[s.pidx] = None => s.certs = NoCerts /\ s.ks = NoKey
        /\ s.table[s.pidx] # None =>
              /\ s.next = s.pidx
              /\ s.certs.idx = s.pidx /\ s.certs.flags = {"root", "add"}
              /\ s.certs.noc = Identity(s.table[s.pidx])
              /\ s.certs.rcac = s.certs.noc.fabric
              /\ s.certs.icac \in {None, s.certs.noc.key}
              /\ s.ks = [idx |-> s.pidx, key |-> s.certs.noc.key, active |-> TRUE]

\* A pending update is complete.
UpdatePending(s) ==
    /\ s.pend # None <=> "update" \in s.flags
    /\ "update" \in s.flags =>
        /\ "data" \in s.flags /\ "root" \notin s.flags /\ "add" \notin s.flags
        /\ s.pidx \in InUse(s) /\ s.pend.idx = s.pidx
        /\ s.certs.idx = s.pidx /\ s.certs.flags = {"update"} /\ s.certs.rcac = None
        /\ s.certs.noc = Identity(s.pend) /\ s.pend.fabric = s.table[s.pidx].fabric
        /\ s.certs.icac \in {None, s.certs.noc.key}
        /\ s.ks = [idx |-> s.pidx, key |-> s.certs.noc.key, active |-> TRUE]

\* Before the NOC command there is no more than a root certificate, or what a
\* refused UpdateNOC left.
NotYetPending(s) ==
    s.flags \cap {"add", "update"} = {} =>
        /\ s.ks.active = FALSE
        /\ \/ s.certs = NoCerts
           \/ /\ "root" \in s.flags
              /\ s.certs.flags = {"root"} /\ s.certs.idx = s.pidx /\ s.pidx \in Index
              /\ s.certs.noc = None /\ s.certs.icac = None /\ s.certs.rcac \in Fabrics
           \/ /\ "root" \notin s.flags
              /\ s.certs.flags = {"update"} /\ s.certs.rcac = None

\* A command that asks for the pending key finds it: a removal took the key
\* only together with the session, or with the root certificate.
KeyPending(s) ==
    /\ s.ks.key = None <=> s.ks.idx = Undefined
    /\ s.ks.key = None => s.ks.active = FALSE
    /\ s.ks.key # None => "key" \in s.flags
    /\ s.flags \subseteq {"keyForUpdate"} => s.certs = NoCerts
    /\ s.fs.armed /\ "key" \in s.flags /\ s.ks.key = None =>
            \/ s.fs.idx \notin {PASE} \cup InUse(s)
            \/ "root" \in s.flags /\ s.certs = NoCerts
    /\ s.fs.armed /\ s.ks.idx \in InUse(s) => s.fs.idx = s.ks.idx

\* The fail-safe knows what is pending: nothing is while it is idle, and the
\* fabric it would roll back is the pending one, or gone.
Guarded(s) ==
    /\ s.fs.armed => ~s.fs.busy
    /\ ~s.fs.armed /\ ~s.fs.busy => s.flags = {} /\ ~s.fs.add /\ ~s.fs.upd
    /\ s.fs.armed => ("add" \in s.flags => s.fs.add) /\ ("update" \in s.flags => s.fs.upd)
    /\ s.fs.armed /\ s.fs.add =>
            \/ "add" \in s.flags /\ s.fs.idx = s.pidx
            \/ s.fs.idx \notin {PASE} \cup InUse(s)
    /\ s.fs.armed /\ s.fs.upd =>
            \/ "update" \in s.flags /\ s.fs.idx = s.pidx
            \/ s.fs.idx \notin {PASE} \cup InUse(s)

\* The clean-up is followed by the disarming and never meets a committed fabric.
disarm == [do |-> "disarm"]
clear  == [do |-> "clearMarker"]
Scheduled(s) ==
    /\ ~s.fs.busy => s.work \in {<<>>, <<clear>>}
    /\ s.fs.busy =>
        \/ s.flags = {} /\ s.work \in {<<disarm>>, <<disarm, clear>>}
        \/ \E c \in Cleanup :
            /\ s.work \in {<<c, disarm>>, <<c, disarm, clear>>, <<clear, c, disarm>>}
            /\ c.add => c.idx \notin CommittedOf(s)

Pending(s) == AddPending(s) /\ UpdatePending(s) /\ NotYetPending(s)
Running(s, o) ==
    Settles(s, o) /\ Pending(s) /\ KeyPending(s) /\ Guarded(s) /\ Scheduled(s)

\* The inductive invariant.
FabricInv ==
    /\ keys \in Nat /\ owed \in [Index -> NOC \cup {None, Unsure}]
    /\ \/ dev \in Dev /\ Running(dev, owed) /\ dev.bad = {} /\ dev.log = <<>>
       \/ dev \in OffDev /\ Restartable(dev.disk, owed)

\* The administrators remove no fabric while another has pending data and
\* complete no commissioning before the NOC command; one part of the storage
\* fails at a time, and neither posting an event nor clearing the marker fails.
Orderly ==
    /\ ~RemoveWhilePending /\ ~EarlyComplete
    /\ \A bad \in Faults : \E part \in Parts \ {"clear", "post"} : bad = {part}

----------------------------------------------------------------------------
(* The invariant gives the properties and holds initially.                 *)

LEMMA InvGivesAgree ==
    ASSUME FabricInv
    PROVE  IndexBookkeeping /\ CommittedIsWhole /\ CommittedIsDurable
<1>1. CASE dev \in OffDev
  <2>1. dev.up = FALSE
    BY <1>1 DEF OffDev
  <2> QED
    BY <2>1 DEF IndexBookkeeping, CommittedIsWhole, CommittedIsDurable
<1>2. CASE dev \in Dev /\ Running(dev, owed)
  <2>1. Agree(dev, PendingOf(dev), owed) /\ Committed = InUse(dev) \ {PendingOf(dev)}
    BY <1>2 DEF Running, Settles, Committed, PendingAdd, PendingOf
  <2>2. IndexBookkeeping
    BY <2>1 DEF Agree, IndexBookkeeping
  <2>3. CommittedIsWhole
    BY <2>1 DEF Agree, Kept, CommittedIsWhole
  <2>4. CommittedIsDurable
    BY <2>1 DEF Agree, CommittedIsDurable
  <2> QED
    BY <2>2, <2>3, <2>4
<1> QED
  BY <1>1, <1>2 DEF FabricInv

LEMMA InvGivesCoherence ==
    ASSUME FabricInv
    PROVE  PendingIsCoherent
<1>1. CASE dev \in OffDev
  <2>1. dev.up = FALSE
    BY <1>1 DEF OffDev
  <2> QED
    BY <2>1 DEF PendingIsCoherent
<1>2. CASE dev \in Dev /\ Running(dev, owed)
  <2>0. AddPending(dev) /\ UpdatePending(dev) /\ ("add" \in dev.flags => dev.pidx \in Index)
    BY <1>2 DEF Running, Pending, Settles
  <2>1. CASE "update" \in dev.flags
    <3>1. dev.pidx \in Committed
      BY <2>0, <2>1 DEF UpdatePending, Committed, PendingAdd, InUse, Undefined, Index
    <3>2. dev.ks.active = TRUE /\ dev.ks.key = dev.certs.noc.key /\ dev.ks.idx = dev.pidx
      BY <2>0, <2>1 DEF UpdatePending
    <3> QED
      BY <2>0, <2>1, <3>1, <3>2 DEF PendingIsCoherent, UpdatePending
  <2>2. CASE "add" \in dev.flags /\ "update" \notin dev.flags
    <3>1. CASE dev.table[dev.pidx] = None
      <4>1. dev.certs.noc = None /\ dev.ks.active = FALSE
        BY <2>0, <2>2, <3>1 DEF AddPending, NoCerts, NoKey
      <4> QED
        BY <2>2, <4>1 DEF PendingIsCoherent
    <3>2. CASE dev.table[dev.pidx] # None
      <4>1. dev.ks.active = TRUE /\ dev.ks.key = dev.certs.noc.key /\ dev.ks.idx = dev.pidx
        BY <2>0, <2>2, <3>2 DEF AddPending
      <4> QED
        BY <2>0, <2>2, <3>2, <4>1 DEF PendingIsCoherent, AddPending
    <3> QED
      BY <3>1, <3>2
  <2>3. CASE "add" \notin dev.flags /\ "update" \notin dev.flags
    BY <2>3 DEF PendingIsCoherent
  <2> QED
    BY <2>1, <2>2, <2>3
<1> QED
  BY <1>1, <1>2 DEF FabricInv

LEMMA InvInit ==
    Init => FabricInv
<1> SUFFICES ASSUME Init PROVE FabricInv
  OBVIOUS
<1>0. /\ MaxIndex \in Nat /\ MaxIndex > 1 /\ 1 \in Index /\ Undefined \in AnyIndex
      /\ 1 + (1 % MaxIndex) = 2
  <2>1. MaxIndex \in Nat /\ MaxIndex > 1
    BY IndexIsFinite
  <2>2. 1 % MaxIndex = 1
    BY <2>1
  <2> QED
    BY <2>1, <2>2 DEF Index, AnyIndex, Undefined
<1>1. EmptyDisk \in Disk /\ \A i \in Index : EmptyDisk.noc[i] = None /\ EmptyDisk.meta[i] = None
  BY <1>0 DEF EmptyDisk, Disk, NoFabric
<1>2. CASE dev = Off(EmptyDisk)
  <2>1. dev \in OffDev /\ dev.disk = EmptyDisk
    BY <1>1, <1>2 DEF Off, OffDev
  <2>2. owed = [i \in Index |-> None]
    BY <1>1, <2>1 DEF Init
  <2>3. Restartable(EmptyDisk, owed)
    <3>1. EmptyDisk.index = None
      BY DEF EmptyDisk
    <3> QED
      BY <1>1, <2>2, <3>1 DEF Restartable, IndexApart, Survives, Loads
  <2>4. owed \in [Index -> NOC \cup {None, Unsure}]
    BY <2>2
  <2> QED
    BY <2>1, <2>3, <2>4 DEF FabricInv, Init
<1>3. ASSUME NEW f \in Fabrics, NEW c \in {None, 1},
             dev = Off([EmptyDisk EXCEPT !.meta[1] = "", !.key[1] = 1, !.rcac[1] = f, !.icac[1] = c,
                                !.noc[1] = [fabric |-> f, key |-> 1],
                                !.index = [next |-> 1 + (1 % MaxIndex), fabrics |-> {1}]])
      PROVE  FabricInv
  <2> DEFINE n == [fabric |-> f, key |-> 1]
             x == [next |-> 2, fabrics |-> {1}]
             d == [meta |-> [NoFabric EXCEPT ![1] = ""], key |-> [NoFabric EXCEPT ![1] = 1],
                   noc |-> [NoFabric EXCEPT ![1] = n], icac |-> [NoFabric EXCEPT ![1] = c],
                   rcac |-> [NoFabric EXCEPT ![1] = f], index |-> x, marker |-> Undefined]
  <2>1. dev = [up |-> FALSE, disk |-> d]
    BY <1>0, <1>3 DEF Off, EmptyDisk
  <2>2. n \in NOC /\ x \in IndexInfo /\ "" \in Labels
    <3>1. "" \in Labels
      BY FabricAssumption, Zenon
    <3>2. n \in NOC
      BY DEF NOC
    <3>3. 2 \in AnyIndex /\ {1} \in SUBSET Index
      BY <1>0 DEF AnyIndex
    <3>4. x \in IndexInfo
      BY <3>3 DEF IndexInfo
    <3> QED
      BY <3>1, <3>2, <3>4
  <2>3. d \in Disk
    <3> HIDE DEF n, x
    <3>0. \A S : \A v \in S \cup {None} : [NoFabric EXCEPT ![1] = v] \in [Index -> S \cup {None}]
      BY <1>0 DEF NoFabric
    <3>1. /\ [NoFabric EXCEPT ![1] = ""] \in [Index -> Labels \cup {None}]
          /\ [NoFabric EXCEPT ![1] = 1] \in [Index -> Nat \cup {None}]
          /\ [NoFabric EXCEPT ![1] = n] \in [Index -> NOC \cup {None}]
          /\ [NoFabric EXCEPT ![1] = c] \in [Index -> Nat \cup {None}]
          /\ [NoFabric EXCEPT ![1] = f] \in [Index -> Fabrics \cup {None}]
      BY <2>2, <3>0
    <3> QED
      BY <1>0, <2>2, <3>1 DEF Disk
  <2>4. dev \in OffDev /\ dev.disk = d
    BY <2>1, <2>3 DEF OffDev
  <2>5. /\ d.meta[1] = "" /\ d.key[1] = 1 /\ d.noc[1] = n /\ d.icac[1] = c /\ d.rcac[1] = f
        /\ d.index = x /\ d.marker = Undefined
        /\ \A i \in Index \ {1} : d.noc[i] = None /\ d.meta[i] = None
    BY <1>0 DEF NoFabric
  <2> HIDE DEF d
  <2>7. n.fabric = f /\ n.key = 1 /\ x.next = 2 /\ x.fabrics = {1}
    OBVIOUS
  <2> HIDE DEF n, x
  <2>6. None # n /\ None # x /\ None # "" /\ None # 1 /\ None # f
    <3>1. None # n /\ None # x /\ None # "" /\ None # f
      BY <2>2, NoneApart, Zenon
    <3>2. None # 1
      BY NoneApart
    <3> QED
      BY <3>1, <3>2
  <2>8. owed = [i \in Index |-> IF i = 1 THEN n ELSE None]
    BY <2>4, <2>5, <2>6 DEF Init
  <2>9. Restartable(d, owed)
    <3>1. Survives(d, 1) /\ \A i \in Index \ {1} : ~Survives(d, i)
      BY <1>0, <2>5, <2>6, NoneApart DEF Survives, Loads
    <3>2. Whole(d, 1)
      BY <2>5, <2>6, <2>7 DEF Whole
    <3>3. IndexApart(d) /\ d.index # None /\ 1 \in d.index.fabrics
      <4>1. d.index.next = 2 /\ d.index.fabrics = {1} /\ d.index # None
        BY <2>5, <2>6, <2>7, Zenon
      <4> QED
        BY <4>1 DEF IndexApart
    <3>4. \A i \in Index : owed[i] = IF Survives(d, i) THEN d.noc[i] ELSE None
      BY <2>5, <2>8, <3>1
    <3> QED
      BY <3>1, <3>2, <3>3, <3>4 DEF Restartable
  <2>10. owed \in [Index -> NOC \cup {None, Unsure}]
    BY <2>2, <2>8
  <2> QED
    BY <2>4, <2>9, <2>10 DEF FabricInv, Init
<1>4. \/ dev = Off(EmptyDisk)
      \/ \E f \in Fabrics, c \in {None, 1} :
             dev = Off([EmptyDisk EXCEPT !.meta[1] = "", !.key[1] = 1, !.rcac[1] = f, !.icac[1] = c,
                                !.noc[1] = [fabric |-> f, key |-> 1],
                                !.index = [next |-> 1 + (1 % MaxIndex), fabrics |-> {1}]])
  BY Zenon DEF Init
<1> QED
  BY <1>2, <1>3, <1>4, Zenon

----------------------------------------------------------------------------
(* Handlers and steps.                                                     *)

\* t is s but for what a handler forgets at its end.
SameState(s, t) ==
    /\ t.table = s.table /\ t.count = s.count /\ t.next = s.next /\ t.disk = s.disk
    /\ t.pend = s.pend /\ t.pidx = s.pidx /\ t.flags = s.flags /\ t.certs = s.certs
    /\ t.ks = s.ks /\ t.fs = s.fs /\ t.work = s.work

LEMMA RunningFrame ==
    ASSUME NEW s, NEW t, NEW o, Running(s, o), SameState(s, t)
    PROVE  Running(t, o)
<1>1. InUse(t) = InUse(s) /\ PendingOf(t) = PendingOf(s) /\ CommittedOf(t) = CommittedOf(s)
  BY DEF SameState, InUse, PendingOf, CommittedOf
<1>2. Settles(t, o)
  BY <1>1, AgreeFrame DEF SameState, Settles, Running
<1>3. AddPending(t) /\ UpdatePending(t) /\ NotYetPending(t)
  BY <1>1 DEF SameState, Running, Pending, AddPending, UpdatePending, NotYetPending
<1>4. KeyPending(t) /\ Guarded(t)
  BY <1>1 DEF SameState, Running, KeyPending, Guarded
<1>5. Scheduled(t)
  BY <1>1 DEF SameState, Running, Scheduled
<1> QED
  BY <1>2, <1>3, <1>4, <1>5 DEF Running, Pending

LEMMA SettledIs ==
    ASSUME NEW s \in Dev
    PROVE  Settled(s) \in Dev /\ SameState(s, Settled(s)) /\ Settled(s).bad = {} /\ Settled(s).log = <<>>
<1>1. <<>> \in Seq(Disk) /\ {} \in SUBSET Parts /\ FALSE \in BOOLEAN
  OBVIOUS
<1> QED
  BY <1>1 DEF Settled, SameState, Dev

(* A handler that runs to its end.                                         *)
LEMMA CompletesInv ==
    ASSUME NEW s \in Dev, keys' \in Nat, owed' \in [Index -> NOC \cup {None, Unsure}],
           Completes(s), Running(s, owed')
    PROVE  FabricInv'
<1>1. dev' = Settled(s)
  BY DEF Completes
<1>2. dev' \in Dev /\ SameState(s, dev') /\ dev'.bad = {} /\ dev'.log = <<>>
  BY <1>1, SettledIs
<1>3. Running(dev', owed')
  BY <1>2, RunningFrame
<1> QED
  BY <1>2, <1>3 DEF FabricInv

(* A handler during which the power fails.                                 *)
LEMMA PowerFailsInInv ==
    ASSUME NEW s \in Dev, keys' \in Nat, owed' \in [Index -> NOC \cup {None, Unsure}],
           PowerFailsIn(s), s.bad = {} => Logged(s, owed')
    PROVE  FabricInv'
<1>1. PICK k \in 1..Len(s.log) : dev' = Off(s.log[k])
  BY DEF PowerFailsIn
<1>2. s.log \in Seq(Disk)
  BY DEF Dev
<1>3. s.log[k] \in Disk /\ Restartable(s.log[k], owed')
  BY <1>1, <1>2 DEF Logged, PowerFailsIn
<1>4. dev' \in OffDev /\ dev'.disk = s.log[k]
  BY <1>1, <1>3 DEF Off, OffDev
<1> QED
  BY <1>3, <1>4 DEF FabricInv

(* A device that is up.                                                    *)
LEMMA UpIs ==
    ASSUME FabricInv, dev.up
    PROVE  /\ dev \in Dev /\ Running(dev, owed) /\ dev.bad = {} /\ dev.log = <<>>
           /\ keys \in Nat /\ owed \in [Index -> NOC \cup {None, Unsure}]
<1>1. dev \notin OffDev
  BY DEF OffDev
<1> QED
  BY <1>1 DEF FabricInv

LEMMA PowerFailsStep ==
    ASSUME FabricInv, PowerFails
    PROVE  FabricInv'
<1>1. /\ dev \in Dev /\ Running(dev, owed) /\ dev' = Off(dev.disk)
      /\ keys' \in Nat /\ owed' \in [Index -> NOC \cup {None, Unsure}] /\ owed' = owed
  BY UpIs DEF PowerFails
<1>2. Restartable(dev.disk, owed)
  <2>1. PendingOf(dev) \in AnyIndex /\ (PendingOf(dev) = Undefined \/ ~Loads(dev.disk, PendingOf(dev)))
    BY <1>1, NoneApart DEF Running, Settles, PendingOf
  <2> QED
    BY <1>1, <2>1, AgreeRestartable DEF Running, Settles
<1>3. dev' \in OffDev /\ dev'.disk = dev.disk
  BY <1>1 DEF Off, OffDev, Dev
<1> QED
  BY <1>1, <1>2, <1>3 DEF FabricInv

----------------------------------------------------------------------------
(* The fail-safe: arming and expiry.                                       *)

\* t is s but for the fail-safe and the scheduled work.
SameData(s, t) ==
    /\ t \in Dev
    /\ t.table = s.table /\ t.count = s.count /\ t.next = s.next /\ t.disk = s.disk
    /\ t.pend = s.pend /\ t.pidx = s.pidx /\ t.flags = s.flags /\ t.certs = s.certs
    /\ t.ks = s.ks

(* What is pending and stored does not depend on them.                     *)
LEMMA SameDataFrame ==
    ASSUME NEW s \in Dev, NEW t, NEW o, Settles(s, o), Pending(s), SameData(s, t)
    PROVE  /\ Settles(t, o) /\ Pending(t)
           /\ InUse(t) = InUse(s) /\ CommittedOf(t) = CommittedOf(s)
<1>1. InUse(t) = InUse(s) /\ PendingOf(t) = PendingOf(s) /\ CommittedOf(t) = CommittedOf(s)
  BY DEF SameData, InUse, PendingOf, CommittedOf
<1>2. Settles(t, o)
  BY <1>1, AgreeFrame DEF SameData, Settles
<1>3. AddPending(t) /\ UpdatePending(t) /\ NotYetPending(t)
  BY <1>1 DEF SameData, Pending, AddPending, UpdatePending, NotYetPending
<1> QED
  BY <1>1, <1>2, <1>3 DEF Pending

LEMMA WithFs ==
    ASSUME NEW s \in Dev, NEW f \in FailSafe
    PROVE  SameData(s, [s EXCEPT !.fs = f]) /\ [s EXCEPT !.fs = f].fs = f /\ [s EXCEPT !.fs = f].work = s.work
           /\ [s EXCEPT !.fs = f].log = s.log /\ [s EXCEPT !.fs = f].bad = s.bad
           /\ [s EXCEPT !.fs = f].err = s.err
BY DEF SameData, Dev

LEMMA ArmFailSafeStep ==
    ASSUME FabricInv, ArmFailSafe
    PROVE  FabricInv'
<1>1. /\ dev \in Dev /\ Running(dev, owed)
      /\ keys' \in Nat /\ owed' \in [Index -> NOC \cup {None, Unsure}] /\ owed' = owed
  BY UpIs DEF ArmFailSafe, InMemory
<1>2. PICK a \in Sessions :
          /\ ~dev.fs.busy /\ (dev.fs.armed => dev.fs.idx = a)
          /\ Completes([dev EXCEPT !.fs.armed = TRUE, !.fs.idx = a])
  BY DEF ArmFailSafe, InMemory
<1> DEFINE f == [dev.fs EXCEPT !.armed = TRUE, !.idx = a]
           t == [dev EXCEPT !.fs = f]
<1>3. [dev EXCEPT !.fs.armed = TRUE, !.fs.idx = a] = t
  BY <1>1 DEF Dev, FailSafe
<1>4. a \in AnyIndex
  BY <1>1, NoneApart DEF Sessions, InUse, PASE
<1>5. /\ f \in FailSafe /\ f.armed = TRUE /\ f.idx = a /\ f.busy = dev.fs.busy
      /\ f.add = dev.fs.add /\ f.upd = dev.fs.upd
  BY <1>1, <1>4 DEF Dev, FailSafe
<1> HIDE DEF f
<1>6. SameData(dev, t) /\ t.fs = f /\ t.work = dev.work
  BY <1>1, <1>5, WithFs
<1> HIDE DEF t
<1>7. Settles(t, owed) /\ Pending(t) /\ InUse(t) = InUse(dev) /\ CommittedOf(t) = CommittedOf(dev)
  BY <1>1, <1>6, SameDataFrame DEF Running
<1>8. KeyPending(t) /\ Guarded(t)
  <2>0. KeyPending(dev) /\ Guarded(dev)
    BY <1>1 DEF Running
  <2>1. CASE dev.fs.armed
    BY <1>2, <1>5, <1>6, <1>7, <2>0, <2>1 DEF KeyPending, Guarded, SameData
  <2>2. CASE ~dev.fs.armed
    <3>1. dev.flags = {} /\ ~dev.fs.add /\ ~dev.fs.upd
      BY <1>2, <2>0, <2>2 DEF Guarded
    <3>2. dev.ks.key = None /\ dev.ks.idx = Undefined /\ Undefined \notin InUse(t)
      BY <2>0, <3>1, NoneApart DEF KeyPending, InUse
    <3>3. KeyPending(t)
      BY <1>6, <2>0, <3>1, <3>2 DEF KeyPending, SameData
    <3>4. Guarded(t)
      BY <1>2, <1>5, <1>6, <3>1 DEF Guarded, SameData
    <3> QED
      BY <3>3, <3>4
  <2> QED
    BY <2>1, <2>2
<1>9. Scheduled(t)
  BY <1>1, <1>2, <1>5, <1>6, <1>7 DEF Running, Scheduled, SameData
<1>10. t \in Dev /\ Running(t, owed')
  BY <1>1, <1>6, <1>7, <1>8, <1>9 DEF Running, SameData
<1> QED
  BY <1>1, <1>2, <1>3, <1>10, CompletesInv

(* The storage failures of an orderly run.                                 *)
LEMMA OrderlyFaults ==
    ASSUME Orderly, NEW bad \in FaultChoices
    PROVE  /\ OneFault(bad) /\ bad \in SUBSET Parts /\ "post" \notin bad /\ "clear" \notin bad
<1>1. bad = {} \/ bad \in Faults
  BY DEF FaultChoices
<1> QED
  BY <1>1 DEF Orderly, OneFault

LEMMA BeginIs ==
    ASSUME dev \in Dev, NEW bad \in SUBSET Parts
    PROVE  Begin(bad) \in Dev /\ SameState(dev, Begin(bad)) /\ Begin(bad).bad = bad /\ Begin(bad).log = dev.log
           /\ Begin(bad).err = dev.err
BY DEF Begin, Dev, SameState

\* What ScheduleFailSafeCleanup does when posting works.
CleanupItem(i, add) == [do |-> "cleanup", idx |-> i, add |-> add]

LEMMA ScheduleIs ==
    ASSUME NEW s \in Dev, NEW x \in FailSafe, "post" \notin s.bad
    PROVE  LET t == ScheduleFailSafeCleanup(s, x.idx, x.add)
           IN  /\ SameData(s, t) /\ t.bad = s.bad /\ t.log = s.log
               /\ t.fs.armed = FALSE /\ t.fs.busy = TRUE
               /\ t.work = s.work \o <<CleanupItem(x.idx, x.add), disarm>>
               /\ CleanupItem(x.idx, x.add) \in Cleanup
               /\ CleanupItem(x.idx, x.add).add = x.add /\ CleanupItem(x.idx, x.add).idx = x.idx
<1> DEFINE c == CleanupItem(x.idx, x.add)
           w == (s.work \o <<c>>) \o <<disarm>>
           f == [s.fs EXCEPT !.busy = TRUE, !.armed = FALSE]
           t == [s EXCEPT !.fs = f, !.work = w]
<1>1. c \in Cleanup /\ c.add = x.add /\ c.idx = x.idx
  BY DEF CleanupItem, Cleanup, FailSafe
<1>2. c \in Work /\ disarm \in Work
  BY <1>1 DEF Work, disarm
<1>3. f \in FailSafe /\ f.busy = TRUE /\ f.armed = FALSE
  BY DEF Dev, FailSafe
<1>4. ScheduleFailSafeCleanup(s, x.idx, x.add) = t
  <2>1. s \in Dev /\ s.fs \in FailSafe
    BY DEF Dev
  <2> QED
    BY <2>1 DEF ScheduleFailSafeCleanup, CleanupItem, disarm, Dev, FailSafe
<1> HIDE DEF c, f
<1>5. w \in Seq(Work) /\ w = s.work \o <<c, disarm>>
  <2>1. s.work \in Seq(Work) /\ <<c>> \in Seq(Work) /\ <<disarm>> \in Seq(Work)
    BY <1>2 DEF Dev
  <2>2. w \in Seq(Work)
    BY <2>1
  <2>3. <<c, disarm>> = <<c>> \o <<disarm>>
    OBVIOUS
  <2>4. w = s.work \o <<c, disarm>>
    BY <2>1, <2>3
  <2> QED
    BY <2>2, <2>4
<1> HIDE DEF w
<1>6. SameData(s, t) /\ t.bad = s.bad /\ t.log = s.log /\ t.fs = f /\ t.work = w
  BY <1>3, <1>5 DEF SameData, Dev
<1> HIDE DEF t
<1> QED
  BY <1>1, <1>3, <1>4, <1>5, <1>6 DEF c

(* Short sequences, joined and split.                                      *)
LEMMA Joined ==
    ASSUME NEW x, NEW y, NEW z
    PROVE  <<>> \o <<x, y>> = <<x, y>> /\ <<z>> \o <<x, y>> = <<z, x, y>>
<1> DEFINE S == {x, y, z}
<1>1. <<x, y>> \in Seq(S) /\ <<z>> \in Seq(S) /\ <<z, x, y>> \in Seq(S)
  OBVIOUS
<1>2. <<>> \o <<x, y>> = <<x, y>>
  BY <1>1, ConcatEmptySeq
<1>3. <<z>> \o <<x, y>> = <<z, x, y>>
  <2> DEFINE l == <<z>>
             r == <<x, y>>
             m == <<z, x, y>>
             c == l \o r
  <2>1. Len(l) = 1 /\ Len(r) = 2 /\ Len(m) = 3
    OBVIOUS
  <2>2. /\ c \in Seq(S) /\ Len(c) = 3
        /\ \A i \in 1..3 : c[i] = IF i <= 1 THEN l[i] ELSE r[i - 1]
    BY <1>1, <2>1, ConcatProperties
  <2>3. l[1] = z /\ r[1] = x /\ r[2] = y /\ m[1] = z /\ m[2] = x /\ m[3] = y
    OBVIOUS
  <2> HIDE DEF c, l, r, m, S
  <2>4. c[1] = l[1] /\ c[2] = r[1] /\ c[3] = r[2]
    BY <2>2
  <2>5. \A i \in 1..3 : i = 1 \/ i = 2 \/ i = 3
    OBVIOUS
  <2>6. \A i \in 1..Len(c) : c[i] = m[i]
    BY <2>2, <2>3, <2>4, <2>5
  <2>7. c \in Seq(S) /\ m \in Seq(S) /\ Len(c) = Len(m)
    BY <1>1, <2>1, <2>2 DEF m
  <2>8. c = m
    BY <2>6, <2>7, SeqEqual
  <2> QED
    BY <2>8 DEF c, l, r, m
<1> QED
  BY <1>2, <1>3

(* Once the expiry is scheduled, what the fail-safe guards waits for it.   *)
LEMMA ScheduledRuns ==
    ASSUME NEW s \in Dev, NEW t, NEW o, Settles(s, o), Pending(s), KeyPending(s), SameData(s, t),
           t.fs.armed = FALSE, t.fs.busy = TRUE, NEW c \in Cleanup,
           t.work \in {<<c, disarm>>, <<c, disarm, clear>>, <<clear, c, disarm>>},
           c.add => c.idx \notin CommittedOf(s)
    PROVE  Running(t, o)
<1>1. Settles(t, o) /\ Pending(t) /\ InUse(t) = InUse(s) /\ CommittedOf(t) = CommittedOf(s)
  BY SameDataFrame
<1>2. KeyPending(t) /\ Guarded(t)
  BY <1>1 DEF KeyPending, Guarded, SameData
<1>3. Scheduled(t)
  BY <1>1 DEF Scheduled
<1> QED
  BY <1>1, <1>2, <1>3 DEF Running

LEMMA FailSafeTimerExpiredStep ==
    ASSUME Orderly, FabricInv, FailSafeTimerExpired
    PROVE  FabricInv'
<1>1. /\ dev \in Dev /\ Running(dev, owed)
      /\ keys' \in Nat /\ owed' \in [Index -> NOC \cup {None, Unsure}] /\ owed' = owed
  BY UpIs DEF FailSafeTimerExpired
<1>2. PICK bad \in FaultChoices : Completes(ScheduleFailSafeCleanup(Begin(bad), dev.fs.idx, dev.fs.add))
  BY DEF FailSafeTimerExpired
<1>3. bad \in SUBSET Parts /\ "post" \notin bad
  BY OrderlyFaults
<1> DEFINE s == Begin(bad)
           c == CleanupItem(dev.fs.idx, dev.fs.add)
           t == ScheduleFailSafeCleanup(s, dev.fs.idx, dev.fs.add)
<1>4. s \in Dev /\ SameState(dev, s) /\ s.bad = bad
  BY <1>1, <1>3, BeginIs
<1> HIDE DEF s
<1>5. Running(s, owed)
  BY <1>1, <1>4, RunningFrame
<1>6. dev.fs \in FailSafe
  BY <1>1 DEF Dev
<1>7. /\ SameData(s, t) /\ t.fs.armed = FALSE /\ t.fs.busy = TRUE
      /\ t.work = s.work \o <<c, disarm>> /\ c \in Cleanup /\ c.add = dev.fs.add /\ c.idx = dev.fs.idx
  <2>1. "post" \notin s.bad
    BY <1>3, <1>4
  <2> QED
    BY <1>4, <1>6, <2>1, ScheduleIs
<1> HIDE DEF t, c
<1>8. dev.fs.armed /\ s.fs = dev.fs
  BY <1>4 DEF FailSafeTimerExpired, SameState
<1>9. t.work \in {<<c, disarm>>, <<clear, c, disarm>>}
  <2>1. s.work \in {<<>>, <<clear>>}
    BY <1>5, <1>8 DEF Running, Guarded, Scheduled
  <2>2. CASE s.work = <<>>
    BY <1>7, <2>2, Joined
  <2>3. CASE s.work = <<clear>>
    BY <1>7, <2>3, Joined
  <2> QED
    BY <2>1, <2>2, <2>3
<1>10. c.add => c.idx \notin CommittedOf(s)
  BY <1>5, <1>7, <1>8 DEF Running, Guarded, CommittedOf, PendingOf
<1>11. Running(t, owed)
  BY <1>4, <1>5, <1>7, <1>9, <1>10, ScheduledRuns DEF Running
<1>12. t \in Dev
  BY <1>7 DEF SameData
<1> QED
  BY <1>1, <1>2, <1>11, <1>12, CompletesInv DEF t, s

----------------------------------------------------------------------------
(* Nothing is pending after a revert, a removal or a commit.               *)

LEMMA NothingPending ==
    ASSUME NEW t \in Dev, NEW o, t.flags = {}, t.certs = NoCerts, t.ks = NoKey, t.pend = None,
           Agree(t, Undefined, o)
    PROVE  Settles(t, o) /\ Pending(t) /\ KeyPending(t)
<1>1. PendingOf(t) = Undefined
  BY DEF PendingOf
<1>2. t.ks.key = None /\ t.ks.idx = Undefined /\ t.ks.active = FALSE /\ Undefined \notin InUse(t)
  BY NoneApart DEF NoKey, InUse
<1>3. Settles(t, o)
  BY <1>1 DEF Settles
<1>4. AddPending(t) /\ UpdatePending(t) /\ NotYetPending(t)
  BY <1>2 DEF AddPending, UpdatePending, NotYetPending
<1>5. KeyPending(t)
  BY <1>2 DEF KeyPending
<1> QED
  BY <1>3, <1>4, <1>5 DEF Pending

----------------------------------------------------------------------------
(* The event loop runs scheduled work.                                     *)

(* An index that is not Undefined.                                         *)
LEMMA Defined == \A i \in AnyIndex : i # Undefined => i \in Index
BY IndexIsFinite DEF AnyIndex, Index, Undefined

\* s without its first work item.
NextWork(s) == [s EXCEPT !.work = Tail(@)]

LEMMA NextWorkIs ==
    ASSUME NEW s \in Dev, s.work # <<>>
    PROVE  /\ SameData(s, NextWork(s)) /\ NextWork(s).fs = s.fs /\ NextWork(s).work = Tail(s.work)
           /\ NextWork(s).bad = s.bad /\ NextWork(s).log = s.log
<1>1. Tail(s.work) \in Seq(Work)
  BY DEF Dev
<1> QED
  BY <1>1 DEF NextWork, SameData, Dev

(* The clean-up leaves nothing pending, and no committed fabric changes.   *)
LEMMA FailSafeCleanupIs ==
    ASSUME NEW s \in Dev, OneFault(s.bad), NEW o, Settles(s, o), NEW c \in Cleanup,
           c.add => c.idx \notin CommittedOf(s)
    PROVE  LET t == FailSafeCleanup(s, c.idx, c.add)
           IN  /\ t \in Dev /\ t.bad = s.bad /\ t.fs = s.fs /\ t.work = s.work
               /\ t.flags = {} /\ t.certs = NoCerts /\ t.ks = NoKey /\ t.pend = None
               /\ Agree(t, Undefined, o)
               /\ s.bad = {} /\ Logged(s, o) => Logged(t, o)
<1> DEFINE r == RevertPendingFabricData(s)
<1>1. Reverted(s, r) /\ Agree(r, Undefined, o) /\ (s.bad = {} /\ Logged(s, o) => Logged(r, o))
  BY RevertIs
<1> HIDE DEF r
<1>2. /\ r \in Dev /\ r.bad = s.bad /\ r.fs = s.fs /\ r.work = s.work
      /\ r.flags = {} /\ r.certs = NoCerts /\ r.ks = NoKey /\ r.pend = None
  BY <1>1 DEF Reverted
<1>3. CASE ~c.add \/ c.idx = Undefined
  <2>1. FailSafeCleanup(s, c.idx, c.add) = r
    BY <1>3 DEF FailSafeCleanup, Delete, r
  <2> QED
    BY <1>1, <1>2, <2>1
<1>4. CASE c.add /\ c.idx # Undefined
  <2>1. c.idx \in Index
    BY <1>4, Defined DEF Cleanup
  <2>2. FailSafeCleanup(s, c.idx, c.add) = Delete(r, c.idx)
    BY <1>4 DEF FailSafeCleanup, r
  <2>3. PendingOf(r) = Undefined /\ ~HasPendingFabricUpdate(r) /\ CommittedOf(r) = InUse(r)
    BY <1>2, NoneApart DEF PendingOf, HasPendingFabricUpdate, CommittedOf, InUse
  <2>4. c.idx \notin InUse(r)
    <3>1. "add" \in s.flags => s.pidx \in Index
      BY DEF Settles
    <3>2. InUse(r) = CommittedOf(s)
      <4>1. CASE "add" \in s.flags
        <5>1. r.table = [s.table EXCEPT ![s.pidx] = None] /\ s.table \in [Index -> Entry \cup {None}]
          BY <1>1, <4>1 DEF Reverted, Dev
        <5> QED
          BY <3>1, <4>1, <5>1 DEF InUse, CommittedOf, PendingOf
      <4>2. CASE "add" \notin s.flags
        BY <1>1, <4>2, NoneApart DEF Reverted, InUse, CommittedOf, PendingOf
      <4> QED
        BY <4>1, <4>2
    <3> QED
      BY <1>4, <3>2
  <2>5. OwesElsewhere(o, o, c.idx)
    BY <1>1, <2>1, <2>4 DEF Agree, OwesElsewhere
  <2>6. Settles(r, o)
    BY <1>1, <1>2, <2>3 DEF Settles
  <2>7. \A p \in Index : PendingOf(r) = p => p = c.idx \/ r.table[p] = None
    BY <2>3, NoneApart
  <2> DEFINE i == c.idx
             t == Delete(r, i)
  <2>8. /\ Deleted(r, t, i) /\ Agree(t, Undefined, o)
        /\ r.bad = {} /\ Logged(r, o) /\ (o[i] = Unsure \/ i \notin CommittedOf(r)) => Logged(t, o)
    <3>1. OneFault(r.bad) /\ i \in Index /\ OwesElsewhere(o, o, i)
      BY <1>2, <2>1, <2>5
    <3>2. (IF HasPendingFabricUpdate(r) /\ r.pend.idx = i THEN RevertPendingFabricData(r) ELSE r) = r
      BY <2>3
    <3> QED
      BY <1>2, <2>3, <2>6, <2>7, <3>1, <3>2, DeleteIs
  <2> HIDE DEF t
  <2>9. s.bad = {} /\ Logged(s, o) => Logged(t, o)
    BY <1>1, <1>2, <2>3, <2>4, <2>8
  <2>10. KeyAfter(r, i) = NoKey /\ CertsAfter(r, i) = NoCerts
    BY <1>2 DEF KeyAfter, CertsAfter
  <2> QED
    BY <1>2, <2>2, <2>8, <2>9, <2>10 DEF Deleted, t
<1> QED
  BY <1>3, <1>4

(* Removing the marker once nothing depends on it.                         *)
LEMMA ClearMarkerIs ==
    ASSUME NEW s \in Dev, "clear" \notin s.bad, NEW p \in AnyIndex, NEW o, Agree(s, p, o)
    PROVE  LET t == ClearCommitMarker(s)
           IN  /\ SameMemory(s, t) /\ t.disk.marker = Undefined
               /\ t.disk = PutMarker(s.disk, Undefined) /\ t.log = Append(s.log, s.disk)
               /\ Agree(t, p, o) /\ \A j \in Index : Loads(t.disk, j) <=> Loads(s.disk, j)
<1> DEFINE d == PutMarker(s.disk, Undefined)
           t == ClearCommitMarker(s)
<1>1. s.disk \in Disk /\ "clear" \in Parts /\ Undefined \in AnyIndex
  BY NoneApart DEF Dev, Parts
<1>2. /\ d \in Disk /\ d.index = s.disk.index /\ d.marker = Undefined
      /\ d.meta = s.disk.meta /\ d.key = s.disk.key /\ d.noc = s.disk.noc /\ d.icac = s.disk.icac
      /\ d.rcac = s.disk.rcac
  BY <1>1, MarkerPut
<1>3. t = Store(s, "clear", d)
  BY DEF ClearCommitMarker, PutMarker
<1> HIDE DEF d
<1>4. Stores(s, t, "clear", d)
  BY <1>1, <1>2, <1>3, StoreIs
<1> HIDE DEF t
<1>5. SameMemory(s, t) /\ t.disk = d /\ t.log = Append(s.log, s.disk)
  BY <1>4 DEF Stores
<1>6. InUse(t) = InUse(s) /\ t.table = s.table
  BY <1>5 DEF SameMemory, InUse
<1>7. \A j \in Index : Loads(d, j) <=> Loads(s.disk, j)
  BY <1>2 DEF Loads
<1>8. \A j \in InUse(s) : Kept(s, j) => Kept(t, j)
  BY <1>2, <1>5, <1>6, NoneApart DEF Kept, Whole, InUse
<1>9. Agree(t, p, o)
  BY <1>2, <1>5, <1>6, <1>7, <1>8 DEF Agree, SameMemory, IndexApart
<1> QED
  BY <1>2, <1>5, <1>7, <1>9 DEF d, t

(* The clean-up's turn: Running, the fail-safe still busy.                 *)
LEMMA WorkDone ==
    ASSUME NEW s \in Dev, NEW t \in Dev, NEW o, Running(s, o), t.fs = s.fs, s.fs.busy,
           t.flags = {}, t.certs = NoCerts, t.ks = NoKey, t.pend = None, Agree(t, Undefined, o),
           t.work \in {<<disarm>>, <<disarm, clear>>}
    PROVE  Running(t, o)
<1>1. Settles(t, o) /\ Pending(t) /\ KeyPending(t)
  BY NothingPending
<1>2. Guarded(t)
  BY DEF Running, Guarded
<1>3. Scheduled(t)
  BY DEF Scheduled
<1> QED
  BY <1>1, <1>2, <1>3 DEF Running

(* The fail-safe goes idle when nothing is pending any more.               *)
LEMMA DisarmFailSafeIs ==
    ASSUME NEW s \in Dev
    PROVE  LET t == DisarmFailSafe(s)
           IN  /\ SameData(s, t) /\ t.work = s.work /\ t.bad = s.bad /\ t.log = s.log
               /\ t.fs.armed = FALSE /\ t.fs.busy = FALSE /\ t.fs.add = FALSE /\ t.fs.upd = FALSE
<1> DEFINE f == [Disarmed EXCEPT !.idx = s.fs.idx]
<1>1. s.fs.idx \in AnyIndex
  BY DEF Dev, FailSafe
<1>2. f \in FailSafe /\ f.armed = FALSE /\ f.busy = FALSE /\ f.add = FALSE /\ f.upd = FALSE
  BY <1>1 DEF Disarmed, FailSafe
<1>3. DisarmFailSafe(s) = [s EXCEPT !.fs = f]
  BY DEF DisarmFailSafe
<1> HIDE DEF f
<1> QED
  BY <1>2, <1>3, WithFs

LEMMA IdleRuns ==
    ASSUME NEW s \in Dev, NEW t \in Dev, NEW o, Settles(s, o), Pending(s), KeyPending(s), s.flags = {},
           SameData(s, t), t.fs.armed = FALSE, t.fs.busy = FALSE, t.fs.add = FALSE, t.fs.upd = FALSE,
           t.work \in {<<>>, <<clear>>}
    PROVE  Running(t, o)
<1>1. Settles(t, o) /\ Pending(t) /\ InUse(t) = InUse(s)
  BY SameDataFrame
<1>2. KeyPending(t) /\ Guarded(t)
  BY <1>1 DEF KeyPending, Guarded, SameData
<1>3. Scheduled(t)
  BY DEF Scheduled
<1> QED
  BY <1>1, <1>2, <1>3 DEF Running

(* The first work item and the others.                                     *)
LEMMA Items ==
    ASSUME NEW x, NEW y, NEW z
    PROVE  /\ Head(<<x>>) = x /\ Tail(<<x>>) = <<>>
           /\ Head(<<x, y>>) = x /\ Tail(<<x, y>>) = <<y>>
           /\ Head(<<x, y, z>>) = x /\ Tail(<<x, y, z>>) = <<y, z>>
OBVIOUS

(* Without the marker the same runs.                                       *)
LEMMA MarkerGone ==
    ASSUME NEW s \in Dev, NEW t \in Dev, NEW o, Settles(s, o), Pending(s), KeyPending(s), Guarded(s),
           SameMemory(s, t), Agree(t, PendingOf(s), o), \A j \in Index : Loads(t.disk, j) <=> Loads(s.disk, j)
    PROVE  /\ Settles(t, o) /\ Pending(t) /\ KeyPending(t) /\ Guarded(t)
           /\ CommittedOf(t) = CommittedOf(s)
<1>1. InUse(t) = InUse(s) /\ PendingOf(t) = PendingOf(s) /\ CommittedOf(t) = CommittedOf(s)
  BY DEF SameMemory, InUse, PendingOf, CommittedOf
<1>2. Settles(t, o)
  BY <1>1 DEF SameMemory, Settles
<1>3. AddPending(t) /\ UpdatePending(t) /\ NotYetPending(t)
  BY <1>1 DEF SameMemory, Pending, AddPending, UpdatePending, NotYetPending
<1>4. KeyPending(t) /\ Guarded(t)
  BY <1>1 DEF SameMemory, KeyPending, Guarded
<1> QED
  BY <1>1, <1>2, <1>3, <1>4 DEF Pending

(* A start from the disk of a running device is safe.                      *)
LEMMA SettlesRestartable ==
    ASSUME NEW s \in Dev, NEW o, Settles(s, o)
    PROVE  Restartable(s.disk, o) /\ PendingOf(s) \in AnyIndex
<1>1. PendingOf(s) \in AnyIndex /\ (PendingOf(s) = Undefined \/ ~Loads(s.disk, PendingOf(s)))
  BY NoneApart DEF Settles, PendingOf
<1> QED
  BY <1>1, AgreeRestartable DEF Settles

LEMMA RunWorkStep ==
    ASSUME Orderly, FabricInv, RunWork
    PROVE  FabricInv'
<1>1. /\ dev \in Dev /\ Running(dev, owed) /\ dev.log = <<>> /\ dev.work # <<>>
      /\ keys' \in Nat /\ owed' \in [Index -> NOC \cup {None, Unsure}] /\ owed' = owed
  BY UpIs DEF RunWork
<1> DEFINE w == Head(dev.work)
<1>2. PICK bad \in FaultChoices :
        LET s0 == NextWork(Begin(bad))
            s == CASE w.do = "cleanup" -> FailSafeCleanup(s0, w.idx, w.add)
                   [] w.do = "disarm"  -> DisarmFailSafe(s0)
                   [] OTHER            -> ClearCommitMarker(s0)
        IN  Completes(s) \/ PowerFailsIn(s)
  BY DEF RunWork, NextWork
<1>3. bad \in SUBSET Parts /\ "clear" \notin bad /\ OneFault(bad)
  BY OrderlyFaults
<1> DEFINE b == Begin(bad)
           s == NextWork(b)
<1>4. b \in Dev /\ SameState(dev, b) /\ b.bad = bad /\ b.log = <<>>
  BY <1>1, <1>3, BeginIs
<1>5. b.work = dev.work /\ b.fs = dev.fs /\ b.flags = dev.flags
  BY <1>4 DEF SameState
<1> HIDE DEF b
<1>6. Running(b, owed)
  BY <1>1, <1>4, RunningFrame
<1>7. SameData(b, s) /\ s \in Dev /\ s.fs = dev.fs /\ s.work = Tail(dev.work) /\ s.bad = bad /\ s.log = <<>>
  BY <1>1, <1>4, <1>5, NextWorkIs DEF SameData
<1> HIDE DEF s
<1>8. /\ Settles(s, owed) /\ Pending(s) /\ InUse(s) = InUse(b) /\ CommittedOf(s) = CommittedOf(b)
      /\ KeyPending(s) /\ Guarded(s) /\ s.flags = dev.flags
  <2>1. Settles(s, owed) /\ Pending(s) /\ InUse(s) = InUse(b) /\ CommittedOf(s) = CommittedOf(b)
    BY <1>4, <1>6, <1>7, SameDataFrame DEF Running
  <2> QED
    BY <1>5, <1>6, <1>7, <2>1 DEF Running, KeyPending, Guarded, SameData
<1>9. Logged(s, owed) /\ Restartable(s.disk, owed) /\ PendingOf(s) \in AnyIndex
  BY <1>7, <1>8, SettlesRestartable DEF Logged
<1>10. ASSUME w = clear,
              \/ ~dev.fs.busy /\ Tail(dev.work) = <<>>
              \/ \E c \in Cleanup : dev.fs.busy /\ Tail(dev.work) = <<c, disarm>>
                                    /\ (c.add => c.idx \notin CommittedOf(b))
       PROVE  FabricInv'
  <2> DEFINE t == ClearCommitMarker(s)
  <2>1. Completes(t) \/ PowerFailsIn(t)
    BY <1>2, <1>10 DEF clear, s, b
  <2>2. /\ SameMemory(s, t) /\ t.log = Append(s.log, s.disk)
        /\ Agree(t, PendingOf(s), owed) /\ \A j \in Index : Loads(t.disk, j) <=> Loads(s.disk, j)
    BY <1>3, <1>7, <1>8, <1>9, ClearMarkerIs DEF Settles
  <2> HIDE DEF t
  <2>3. t \in Dev /\ t.fs = s.fs /\ t.work = s.work
    BY <2>2 DEF SameMemory
  <2>4. Settles(t, owed) /\ Pending(t) /\ KeyPending(t) /\ Guarded(t) /\ CommittedOf(t) = CommittedOf(s)
    BY <1>7, <1>8, <2>2, <2>3, MarkerGone
  <2>5. Scheduled(t)
    BY <1>7, <1>8, <1>10, <2>3, <2>4 DEF Scheduled
  <2>6. Running(t, owed')
    BY <1>1, <2>4, <2>5 DEF Running
  <2>7. Logged(t, owed')
    BY <1>1, <1>7, <1>9, <2>2, <2>3, LoggedGrows
  <2> QED
    BY <1>1, <2>1, <2>3, <2>6, <2>7, CompletesInv, PowerFailsInInv
<1>11. ASSUME w = disarm, dev.flags = {}, Tail(dev.work) \in {<<>>, <<clear>>}
       PROVE  FabricInv'
  <2> DEFINE t == DisarmFailSafe(s)
  <2>1. Completes(t) \/ PowerFailsIn(t)
    BY <1>2, <1>11 DEF disarm, s, b
  <2>2. /\ SameData(s, t) /\ t.work = s.work /\ t.log = s.log
        /\ t.fs.armed = FALSE /\ t.fs.busy = FALSE /\ t.fs.add = FALSE /\ t.fs.upd = FALSE
    BY <1>7, DisarmFailSafeIs
  <2> HIDE DEF t
  <2>3. t \in Dev
    BY <2>2 DEF SameData
  <2>4. Running(t, owed')
    BY <1>1, <1>7, <1>8, <1>11, <2>2, <2>3, IdleRuns
  <2>5. Logged(t, owed')
    BY <1>1, <1>9, <2>2 DEF Logged
  <2> QED
    BY <1>1, <2>1, <2>3, <2>4, <2>5, CompletesInv, PowerFailsInInv
<1>12. ASSUME w \in Cleanup, dev.fs.busy, w.add => w.idx \notin CommittedOf(b),
              Tail(dev.work) \in {<<disarm>>, <<disarm, clear>>}
       PROVE  FabricInv'
  <2> DEFINE t == FailSafeCleanup(s, w.idx, w.add)
  <2>1. Completes(t) \/ PowerFailsIn(t)
    BY <1>2, <1>12 DEF Cleanup, s, b
  <2> HIDE DEF w
  <2>2. /\ t \in Dev /\ t.bad = s.bad /\ t.fs = s.fs /\ t.work = s.work
        /\ t.flags = {} /\ t.certs = NoCerts /\ t.ks = NoKey /\ t.pend = None
        /\ Agree(t, Undefined, owed) /\ (s.bad = {} /\ Logged(s, owed) => Logged(t, owed))
    BY <1>3, <1>7, <1>8, <1>12, FailSafeCleanupIs
  <2> HIDE DEF t
  <2>3. Running(t, owed')
    BY <1>1, <1>4, <1>5, <1>6, <1>7, <1>12, <2>2, WorkDone
  <2>4. t.bad = {} => Logged(t, owed')
    BY <1>1, <1>9, <2>2
  <2> QED
    BY <1>1, <2>1, <2>2, <2>3, <2>4, CompletesInv, PowerFailsInInv
<1>13. CASE ~dev.fs.busy
  <2>1. dev.work = <<clear>>
    BY <1>1, <1>13 DEF Running, Scheduled
  <2> QED
    BY <1>10, <1>13, <2>1, Items
<1>14. CASE dev.fs.busy /\ dev.flags = {} /\ dev.work \in {<<disarm>>, <<disarm, clear>>}
  <2>1. w = disarm /\ Tail(dev.work) \in {<<>>, <<clear>>}
    <3>1. CASE dev.work = <<disarm>>
      BY <3>1, Items
    <3>2. CASE dev.work = <<disarm, clear>>
      BY <3>2, Items
    <3> QED
      BY <1>14, <3>1, <3>2
  <2> QED
    BY <1>11, <1>14, <2>1
<1>15. ASSUME dev.fs.busy, NEW c \in Cleanup, c.add => c.idx \notin CommittedOf(b),
              dev.work \in {<<c, disarm>>, <<c, disarm, clear>>, <<clear, c, disarm>>}
       PROVE  FabricInv'
  <2>1. CASE dev.work = <<c, disarm>>
    <3>1. w = c /\ Tail(dev.work) = <<disarm>>
      BY <2>1, Items
    <3> QED
      BY <1>12, <1>15, <3>1
  <2>2. CASE dev.work = <<c, disarm, clear>>
    <3>1. w = c /\ Tail(dev.work) = <<disarm, clear>>
      BY <2>2, Items
    <3> QED
      BY <1>12, <1>15, <3>1
  <2>3. CASE dev.work = <<clear, c, disarm>>
    <3>1. w = clear /\ Tail(dev.work) = <<c, disarm>>
      BY <2>3, Items
    <3> QED
      BY <1>10, <1>15, <3>1
  <2> QED
    BY <1>15, <2>1, <2>2, <2>3
<1> QED
  <2>1. Scheduled(b)
    BY <1>6 DEF Running
  <2> QED
    BY <1>5, <1>13, <1>14, <1>15, <2>1 DEF Scheduled

----------------------------------------------------------------------------
(* RemoveFabric.                                                           *)

LEMMA RemoveRuns ==
    ASSUME NEW s \in Dev, OneFault(s.bad), NEW o, NEW u, NEW i \in Index, Running(s, o),
           OwesElsewhere(o, u, i),
           s.certs.idx \in {Undefined, i}, s.ks.idx = i => i \in InUse(s)
    PROVE  LET t == Delete(s, i)
           IN  /\ t \in Dev /\ t.bad = s.bad /\ Running(t, u)
               /\ s.bad = {} /\ Logged(s, u) /\ u[i] = Unsure => Logged(t, u)
<1> DEFINE t == Delete(s, i)
           upd == HasPendingFabricUpdate(s) /\ s.pend.idx = i
           r == IF upd THEN RevertPendingFabricData(s) ELSE s
<1>0. /\ Settles(s, o) /\ AddPending(s) /\ UpdatePending(s) /\ NotYetPending(s)
      /\ KeyPending(s) /\ Guarded(s) /\ Scheduled(s)
      /\ Undefined \notin Index /\ InUse(s) \subseteq Index
  BY NoneApart DEF Running, Pending, InUse
<1>1. \A p \in Index : PendingOf(s) = p => p = i \/ s.table[p] = None
  BY <1>0 DEF PendingOf, AddPending
<1>2. HasPendingFabricUpdate(s) => "add" \notin s.flags
  BY <1>0 DEF HasPendingFabricUpdate, AddPending
<1>3. /\ r \in Dev /\ Deleted(r, t, i)
      /\ r = s \/ (Reverted(s, r) /\ upd)
      /\ r = s => ~upd
      /\ Agree(t, Undefined, u) /\ ~Loads(t.disk, i)
      /\ s.bad = {} /\ Logged(s, u) /\ (u[i] = Unsure \/ i \notin CommittedOf(s)) => Logged(t, u)
  BY <1>0, <1>1, <1>2, DeleteIs
<1> HIDE DEF r, t
<1>4. t \in Dev /\ t.bad = s.bad /\ t.fs = s.fs /\ t.work = s.work
  BY <1>3 DEF Deleted, Reverted
<1>5. ASSUME Reverted(s, r), upd PROVE Running(t, u)
  <2>1. "add" \notin s.flags /\ r.table = s.table /\ r.flags = {} /\ r.certs = NoCerts /\ r.ks = NoKey
        /\ r.pend = None
    BY <1>2, <1>5 DEF Reverted
  <2>2. t.flags = {} /\ t.certs = NoCerts /\ t.ks = NoKey /\ t.pend = None
    BY <1>3, <2>1 DEF Deleted, KeyAfter, CertsAfter
  <2>3. Settles(t, u) /\ Pending(t) /\ KeyPending(t)
    BY <1>3, <1>4, <2>2, NothingPending
  <2>4. InUse(t) = InUse(s) \ {i}
    BY <1>3, <2>1 DEF Deleted, InUse, Dev
  <2>5. CommittedOf(t) = InUse(t) /\ CommittedOf(s) = InUse(s)
    BY <1>0, <2>1, <2>2, <2>4 DEF CommittedOf, PendingOf
  <2>6. "update" \in s.flags /\ s.pidx = i
    BY <1>0, <1>5 DEF HasPendingFabricUpdate, UpdatePending
  <2>7. Guarded(t)
    BY <1>0, <1>4, <2>1, <2>2, <2>4, <2>6 DEF Guarded, PASE
  <2>8. Scheduled(t)
    BY <1>0, <1>4, <2>2, <2>4, <2>5 DEF Scheduled
  <2> QED
    BY <2>3, <2>7, <2>8 DEF Running
<1>6. ASSUME r = s PROVE Running(t, u)
  <2>0. ~upd
    BY <1>3, <1>6
  <2>1. "update" \notin s.flags
    <3> SUFFICES ASSUME "update" \in s.flags PROVE FALSE
      OBVIOUS
    <3>1. s.pidx = i /\ s.pend # None /\ s.pend.idx = s.pidx /\ "data" \in s.flags
      BY <1>0 DEF UpdatePending
    <3> QED
      BY <2>0, <3>1 DEF HasPendingFabricUpdate
  <2>2. /\ t.pend = s.pend /\ t.pidx = s.pidx /\ t.flags = s.flags
        /\ t.ks = KeyAfter(s, i) /\ t.certs = CertsAfter(s, i)
        /\ t.table = [s.table EXCEPT ![i] = None] /\ PiecesGone(s.bad, s.disk, t.disk, i)
    BY <1>3, <1>6 DEF Deleted
  <2>3. InUse(t) = InUse(s) \ {i} /\ PendingOf(t) = PendingOf(s)
    BY <2>2 DEF InUse, PendingOf, Dev
  <2>4. CommittedOf(t) = InUse(t) \ {PendingOf(s)} /\ CommittedOf(t) \subseteq CommittedOf(s)
    BY <2>3 DEF CommittedOf
  <2>5. "add" \in s.flags => s.pidx \in Index /\ t.table[s.pidx] = None
    BY <1>0, <1>1, <2>2 DEF Settles, PendingOf, Dev
  <2>6. Settles(t, u)
    <3>1. InUse(t) \ {PendingOf(t)} = InUse(t) /\ InUse(t) \ {Undefined} = InUse(t)
      BY <1>0, <2>3, <2>5 DEF InUse, PendingOf
    <3>2. Agree(t, PendingOf(t), u)
      <4>1. \A j \in Index : Loads(t.disk, j) => j \in InUse(t)
        BY <1>0, <1>3 DEF Agree
      <4> QED
        BY <1>3, <3>1, <4>1 DEF Agree
    <3>3. "add" \in t.flags => ~Loads(t.disk, t.pidx)
      BY <2>2, <3>2, <2>5, <1>3, <1>0 DEF Agree, InUse
    <3> QED
      BY <2>2, <2>5, <3>2, <3>3 DEF Settles
  <2>7. AddPending(t)
    <3> SUFFICES ASSUME "add" \in s.flags
                 PROVE  /\ {"data", "root"} \subseteq s.flags /\ "update" \notin s.flags
                        /\ t.certs = NoCerts /\ t.ks = NoKey
      BY <2>2, <2>5 DEF AddPending
    <3>1. CASE s.table[s.pidx] = None
      BY <1>0, <2>2, <3>1 DEF AddPending, KeyAfter, CertsAfter
    <3>2. CASE s.table[s.pidx] # None
      <4>1. s.pidx = i
        BY <1>1, <2>5, <3>2 DEF PendingOf
      <4>2. s.ks.idx = i /\ s.certs.noc = Identity(s.table[s.pidx])
        BY <1>0, <3>2, <4>1 DEF AddPending
      <4>3. s.certs.noc # None
        <5>1. s.table[s.pidx] \in Entry
          BY <2>5, <3>2 DEF Dev
        <5> QED
          BY <4>2, <5>1, NoneApart DEF Identity, Entry, NOC
      <4>4. HasAnyCertificateForFabric(s, i)
        BY <4>3 DEF HasAnyCertificateForFabric
      <4> QED
        BY <1>0, <2>2, <4>2, <4>4 DEF AddPending, KeyAfter, CertsAfter
    <3> QED
      BY <3>1, <3>2
  <2>8. UpdatePending(t)
    BY <1>0, <2>1, <2>2 DEF UpdatePending
  <2>9. NotYetPending(t)
    <3> SUFFICES ASSUME s.flags \cap {"add", "update"} = {}
                 PROVE  NotYetPending(t)
      BY <2>2 DEF NotYetPending
    <3>1. t.ks.active = FALSE
      BY <1>0, <2>2 DEF NotYetPending, KeyAfter, NoKey
    <3>2. t.certs = NoCerts \/ t.certs = s.certs
      BY <2>2 DEF CertsAfter
    <3> QED
      BY <1>0, <2>2, <3>1, <3>2 DEF NotYetPending
  <2>10. KeyPending(t)
    <3>1. t.certs = NoCerts \/ t.certs = s.certs
      BY <2>2 DEF CertsAfter
    <3>2. CASE s.ks.idx = i
      <4>1. t.ks.idx = Undefined /\ t.ks.key = None /\ t.ks.active = FALSE
        BY <2>2, <3>2 DEF KeyAfter, NoKey
      <4>2. s.fs.armed => s.fs.idx = i
        BY <1>0, <3>2 DEF KeyPending
      <4>3. i # PASE /\ i \notin InUse(t) /\ Undefined \notin InUse(t)
        BY <1>0, <2>3 DEF PASE
      <4> QED
        BY <1>0, <1>4, <2>2, <3>1, <4>1, <4>2, <4>3 DEF KeyPending
    <3>3. CASE s.ks.idx # i
      <4>1. t.ks = s.ks
        BY <2>2, <3>3 DEF KeyAfter
      <4> QED
        BY <1>0, <1>4, <2>2, <2>3, <3>1, <4>1 DEF KeyPending
    <3> QED
      BY <3>2, <3>3
  <2>11. Guarded(t)
    BY <1>0, <1>4, <2>2, <2>3 DEF Guarded
  <2>12. Scheduled(t)
    BY <1>0, <1>4, <2>2, <2>4 DEF Scheduled
  <2> QED
    BY <2>6, <2>7, <2>8, <2>9, <2>10, <2>11, <2>12 DEF Running, Pending
<1> QED
  BY <1>3, <1>4, <1>5, <1>6 DEF t

LEMMA RemoveFabricStep ==
    ASSUME Orderly, FabricInv, RemoveFabric
    PROVE  FabricInv'
<1>1. /\ dev \in Dev /\ Running(dev, owed) /\ dev.log = <<>> /\ keys' \in Nat
      /\ owed \in [Index -> NOC \cup {None, Unsure}]
  BY UpIs DEF RemoveFabric
<1>2. PICK i \in Index, bad \in FaultChoices :
        /\ dev.certs.idx \in {Undefined, i} /\ (dev.ks.idx = i => i \in InUse(dev))
        /\ \/ Completes(Delete(Begin(bad), i)) /\ owed' = [owed EXCEPT ![i] = None]
           \/ PowerFailsIn(Delete(Begin(bad), i)) /\ owed' = [owed EXCEPT ![i] = Unsure]
  BY DEF RemoveFabric, Orderly
<1>3. bad \in SUBSET Parts /\ OneFault(bad)
  BY OrderlyFaults
<1>4. OwesElsewhere(owed, owed', i) /\ owed' \in [Index -> NOC \cup {None, Unsure}]
  BY <1>1, <1>2 DEF OwesElsewhere
<1> DEFINE s == Begin(bad)
           t == Delete(s, i)
<1>5. s \in Dev /\ SameState(dev, s) /\ s.bad = bad /\ s.log = <<>>
  BY <1>1, <1>3, BeginIs
<1> HIDE DEF s
<1>6. Running(s, owed) /\ InUse(s) = InUse(dev) /\ s.certs = dev.certs /\ s.ks = dev.ks
  BY <1>1, <1>5, RunningFrame DEF SameState, InUse
<1>7. /\ t \in Dev /\ t.bad = s.bad /\ Running(t, owed')
      /\ s.bad = {} /\ Logged(s, owed') /\ owed'[i] = Unsure => Logged(t, owed')
  BY <1>2, <1>3, <1>4, <1>5, <1>6, RemoveRuns
<1>8. Logged(s, owed')
  BY <1>5 DEF Logged
<1> HIDE DEF t
<1>9. CASE Completes(t)
  BY <1>1, <1>4, <1>7, <1>9, CompletesInv
<1>10. CASE PowerFailsIn(t) /\ owed' = [owed EXCEPT ![i] = Unsure]
  <2>1. owed'[i] = Unsure
    BY <1>1, <1>10
  <2> QED
    BY <1>1, <1>4, <1>7, <1>8, <1>10, <2>1, PowerFailsInInv
<1> QED
  BY <1>2, <1>9, <1>10 DEF t, s

----------------------------------------------------------------------------
(* UpdateFabricLabel.                                                      *)

\* t is s but for labels.
SameButLabels(s, t) ==
    /\ t.count = s.count /\ t.next = s.next /\ t.pidx = s.pidx /\ t.flags = s.flags
    /\ t.certs = s.certs /\ t.ks = s.ks /\ t.fs = s.fs /\ t.work = s.work
    /\ InUse(t) = InUse(s)
    /\ \A j \in InUse(s) : Identity(t.table[j]) = Identity(s.table[j])
                           /\ t.table[j].fabric = s.table[j].fabric
    /\ t.pend = None <=> s.pend = None
    /\ s.pend # None => /\ t.pend.idx = s.pend.idx /\ t.pend.fabric = s.pend.fabric
                        /\ Identity(t.pend) = Identity(s.pend)
    /\ t.disk.index = s.disk.index /\ t.disk.marker = s.disk.marker /\ t.disk.noc = s.disk.noc
    /\ t.disk.key = s.disk.key /\ t.disk.icac = s.disk.icac /\ t.disk.rcac = s.disk.rcac
    /\ \A j \in Index : t.disk.meta[j] = None <=> s.disk.meta[j] = None

LEMMA LabelsFrame ==
    ASSUME NEW s \in Dev, NEW t \in Dev, NEW o, Running(s, o), SameButLabels(s, t)
    PROVE  Running(t, o)
<1>0. InUse(s) \subseteq Index /\ InUse(t) = InUse(s) /\ t.flags = s.flags /\ t.pidx = s.pidx
  BY DEF InUse, SameButLabels
<1>1. PendingOf(t) = PendingOf(s) /\ CommittedOf(t) = CommittedOf(s)
  BY <1>0 DEF PendingOf, CommittedOf
<1>2. \A j \in Index : (Loads(t.disk, j) <=> Loads(s.disk, j)) /\ (Whole(t.disk, j) <=> Whole(s.disk, j))
  BY DEF SameButLabels, Loads, Whole
<1>3. \A j \in InUse(s) : Kept(s, j) => Kept(t, j)
  BY <1>0, <1>2 DEF SameButLabels, Kept
<1>4. Settles(t, o)
  <2>1. Agree(s, PendingOf(s), o)
    BY DEF Running, Settles
  <2>2. \A j \in Index : \/ o[j] = Unsure
                         \/ o[j] = IF j \in InUse(t) \ {PendingOf(t)} THEN Identity(t.table[j]) ELSE None
    BY <1>0, <1>1, <2>1 DEF Agree, SameButLabels
  <2>3. IndexApart(t.disk)
    BY <2>1 DEF Agree, IndexApart, SameButLabels
  <2>4. Agree(t, PendingOf(t), o)
    BY <1>0, <1>1, <1>2, <1>3, <2>1, <2>2, <2>3 DEF Agree, SameButLabels
  <2> QED
    BY <1>0, <1>2, <2>4 DEF Running, Settles
<1>5. AddPending(t)
  <2> SUFFICES ASSUME "add" \in s.flags PROVE AddPending(t)
    BY <1>0 DEF AddPending
  <2>0. s.pidx \in Index /\ AddPending(s)
    BY DEF Running, Settles, Pending
  <2>1. (t.table[s.pidx] = None <=> s.table[s.pidx] = None)
        /\ (s.table[s.pidx] # None => s.pidx \in InUse(s))
    BY <1>0, <2>0 DEF InUse
  <2> QED
    BY <1>0, <2>0, <2>1 DEF AddPending, SameButLabels
<1>6. UpdatePending(t)
  BY <1>0 DEF Running, Pending, UpdatePending, SameButLabels
<1>7. NotYetPending(t) /\ KeyPending(t) /\ Guarded(t)
  BY <1>0 DEF Running, Pending, NotYetPending, KeyPending, Guarded, SameButLabels
<1>8. Scheduled(t)
  BY <1>0, <1>1 DEF Running, Scheduled, SameButLabels
<1> QED
  BY <1>4, <1>5, <1>6, <1>7, <1>8 DEF Running, Pending

LEMMA SetFabricLabelIs ==
    ASSUME NEW s \in Dev, NEW o, Running(s, o), NEW a \in InUse(s), NEW label \in Labels
    PROVE  SetFabricLabel(s, a, label) \in Dev /\ SameButLabels(s, SetFabricLabel(s, a, label))
<1>0. a \in Index /\ s.table[a] \in Entry /\ s.table[a] # None /\ s.table \in [Index -> Entry \cup {None}]
  BY DEF InUse, Dev
<1>1. CASE HasPendingFabricUpdate(s) /\ s.pend.idx = a
  <2> DEFINE p == [s.pend EXCEPT !.label = label]
             t == [s EXCEPT !.pend = p]
  <2>1. SetFabricLabel(s, a, label) = t
    BY <1>1 DEF SetFabricLabel, HasPendingFabricUpdate, Dev
  <2>2. s.pend \in Shadow /\ s.pend # None
    BY <1>1 DEF HasPendingFabricUpdate, Dev
  <2>3. /\ p \in Shadow /\ p.idx = s.pend.idx /\ p.fabric = s.pend.fabric
        /\ Identity(p) = Identity(s.pend)
    BY <2>2 DEF Shadow, Identity
  <2>4. p # None
    BY <2>3, NoneApart
  <2> HIDE DEF p
  <2>5. /\ t \in Dev /\ t.pend = p /\ t.table = s.table /\ t.disk = s.disk
        /\ t.count = s.count /\ t.next = s.next /\ t.pidx = s.pidx /\ t.flags = s.flags
        /\ t.certs = s.certs /\ t.ks = s.ks /\ t.fs = s.fs /\ t.work = s.work
    BY <2>3 DEF Dev
  <2> HIDE DEF t
  <2>6. InUse(t) = InUse(s)
    BY <2>5 DEF InUse
  <2> QED
    BY <2>1, <2>2, <2>3, <2>4, <2>5, <2>6 DEF SameButLabels
<1>2. CASE ~(HasPendingFabricUpdate(s) /\ s.pend.idx = a)
  <2> DEFINE e == [s.table[a] EXCEPT !.label = label]
             tab == [s.table EXCEPT ![a] = e]
             r == [s EXCEPT !.table = tab]
             t == SetFabricLabel(s, a, label)
  <2>1. t = IF s.flags \cap {"add", "update"} # {} THEN r ELSE Write(r, "meta", a, label)
    BY <1>2 DEF SetFabricLabel, Dev
  <2>2. e \in Entry /\ e.fabric = s.table[a].fabric /\ Identity(e) = Identity(s.table[a]) /\ e # None
    BY <1>0, NoneApart DEF Entry, Identity
  <2> HIDE DEF e
  <2>3. tab \in [Index -> Entry \cup {None}] /\ tab[a] = e /\ \A j \in Index \ {a} : tab[j] = s.table[j]
    BY <1>0, <2>2
  <2> HIDE DEF tab
  <2>4. /\ r \in Dev /\ r.pend = s.pend /\ r.table = tab /\ r.disk = s.disk
        /\ r.count = s.count /\ r.next = s.next /\ r.pidx = s.pidx /\ r.flags = s.flags
        /\ r.certs = s.certs /\ r.ks = s.ks /\ r.fs = s.fs /\ r.work = s.work
    BY <2>3 DEF Dev
  <2> HIDE DEF r
  <2>5. InUse(r) = InUse(s)
    BY <1>0, <2>2, <2>3, <2>4 DEF InUse
  <2>6. SameButLabels(s, r)
    <3>1. \A j \in InUse(s) : /\ Identity(r.table[j]) = Identity(s.table[j])
                              /\ r.table[j].fabric = s.table[j].fabric
      BY <2>2, <2>3, <2>4 DEF InUse
    <3> QED
      BY <2>4, <2>5, <3>1 DEF SameButLabels
  <2>7. CASE s.flags \cap {"add", "update"} # {}
    BY <2>1, <2>4, <2>6, <2>7
  <2>8. CASE s.flags \cap {"add", "update"} = {}
    <3>1. t = Write(r, "meta", a, label) /\ "meta" \in Pieces /\ label \in Piece("meta") \cup {None}
      BY <2>1, <2>8 DEF Pieces, Piece
    <3> HIDE DEF t
    <3>2. Writes(r, t, "meta", a, label) /\ t \in Dev
      BY <1>0, <2>4, <3>1, WriteIs
    <3>3. /\ \A j \in Index \ {a} : SamePieces(r.disk, t.disk, j)
          /\ t.disk.meta[a] = IF "meta" \in r.bad THEN r.disk.meta[a] ELSE label
      BY <1>0, <2>4, <3>1, <3>2, WritesElsewhere
    <3>4. /\ t.disk.key = r.disk.key /\ t.disk.noc = r.disk.noc /\ t.disk.icac = r.disk.icac
          /\ t.disk.rcac = r.disk.rcac /\ t.disk.index = r.disk.index /\ t.disk.marker = r.disk.marker
      BY <3>2 DEF Writes, Pieces
    <3>5. s.disk.meta[a] # None /\ label # None
      <4>1. PendingOf(s) = Undefined /\ a # Undefined
        BY <1>0, <2>8, NoneApart DEF PendingOf
      <4>2. Kept(s, a)
        BY <4>1 DEF Running, Settles, Agree
      <4> QED
        BY <4>2, NoneApart DEF Kept, Whole
    <3>6. \A j \in Index : t.disk.meta[j] = None <=> s.disk.meta[j] = None
      BY <2>4, <3>3, <3>5 DEF SamePieces, Pieces
    <3>7. SameMemory(r, t) /\ InUse(t) = InUse(r)
      BY <3>2 DEF Writes, SameMemory, InUse
    <3>8. SameButLabels(s, t)
      BY <2>4, <2>6, <3>4, <3>6, <3>7 DEF SameButLabels, SameMemory
    <3> QED
      BY <3>2, <3>8 DEF t
  <2> QED
    BY <2>7, <2>8
<1> QED
  BY <1>1, <1>2

LEMMA UpdateFabricLabelStep ==
    ASSUME Orderly, FabricInv, UpdateFabricLabel
    PROVE  FabricInv'
<1>1. /\ dev \in Dev /\ Running(dev, owed) /\ keys' \in Nat /\ owed' = owed
      /\ owed' \in [Index -> NOC \cup {None, Unsure}]
  BY UpIs DEF UpdateFabricLabel
<1>2. PICK a \in InUse(dev), label \in Labels, bad \in FaultChoices :
        Completes(SetFabricLabel(Begin(bad), a, label))
  BY DEF UpdateFabricLabel
<1>3. bad \in SUBSET Parts
  BY OrderlyFaults
<1> DEFINE s == Begin(bad)
           t == SetFabricLabel(s, a, label)
<1>4. s \in Dev /\ SameState(dev, s)
  BY <1>1, <1>3, BeginIs
<1> HIDE DEF s
<1>5. Running(s, owed) /\ InUse(s) = InUse(dev)
  BY <1>1, <1>4, RunningFrame DEF SameState, InUse
<1>6. t \in Dev /\ SameButLabels(s, t)
  BY <1>2, <1>4, <1>5, SetFabricLabelIs
<1> HIDE DEF t
<1>7. Running(t, owed')
  BY <1>1, <1>4, <1>5, <1>6, LabelsFrame
<1> QED
  BY <1>1, <1>2, <1>6, <1>7, CompletesInv DEF t, s

----------------------------------------------------------------------------
(* CSRRequest and AddTrustedRootCertificate.                               *)

(* The next index is up to date whenever a command asks for it.            *)
LEMMA EnsureIsDone ==
    ASSUME NEW s \in Dev, NEW p, NEW o, Agree(s, p, o)
    PROVE  EnsureNextAvailableFabricIndexUpdated(s) = s
<1>1. CASE s.next # Undefined
  BY <1>1 DEF EnsureNextAvailableFabricIndexUpdated
<1>2. CASE s.next = Undefined
  <2>1. s.count = Cardinality(Index)
    BY <1>2 DEF Agree
  <2>2. Cardinality(Index) = MaxIndex
    BY IndexIsFinite, FS_Interval DEF Index
  <2>3. s.count >= MaxIndex
    BY <2>1, <2>2, IndexIsFinite
  <2> QED
    BY <2>3 DEF EnsureNextAvailableFabricIndexUpdated
<1> QED
  BY <1>1, <1>2

\* Before the NOC command: t differs from s in what a command prepares for it.
Prepares(s, t) ==
    /\ t \in Dev
    /\ t.table = s.table /\ t.count = s.count /\ t.next = s.next /\ t.disk = s.disk
    /\ t.pend = s.pend /\ t.work = s.work
    /\ t.fs.armed = s.fs.armed /\ t.fs.busy = s.fs.busy /\ t.fs.add = s.fs.add
    /\ t.fs.upd = s.fs.upd /\ t.fs.idx = s.fs.idx
    /\ t.flags \cap {"add", "update"} = {}

\* The NOC command has not come yet.
Early(s) == s.fs.armed /\ ~NocInvoked(s)

LEMMA EarlyIs ==
    ASSUME NEW s \in Dev, NEW o, Running(s, o), Early(s)
    PROVE  /\ s.flags \cap {"add", "update"} = {} /\ s.pend = None /\ ~s.fs.busy
           /\ PendingOf(s) = Undefined /\ Agree(s, Undefined, o) /\ s.next \notin InUse(s)
           /\ NotYetPending(s) /\ KeyPending(s) /\ Undefined \notin InUse(s)
<1>1. "add" \notin s.flags /\ "update" \notin s.flags /\ ~s.fs.busy
  BY DEF Running, Guarded, Early, NocInvoked
<1>2. PendingOf(s) = Undefined /\ s.pend = None
  BY <1>1 DEF PendingOf, Running, Pending, UpdatePending
<1>3. Agree(s, Undefined, o) /\ Undefined \notin InUse(s)
  BY <1>2, NoneApart DEF Running, Settles, InUse
<1>4. s.next \notin InUse(s)
  BY <1>3 DEF Agree
<1> QED
  BY <1>1, <1>2, <1>3, <1>4 DEF Running, Pending

LEMMA EarlyRuns ==
    ASSUME NEW s \in Dev, NEW t \in Dev, NEW o, Running(s, o), Early(s), Prepares(s, t),
           NotYetPending(t), KeyPending(t)
    PROVE  Running(t, o)
<1>1. /\ s.flags \cap {"add", "update"} = {} /\ s.pend = None /\ ~s.fs.busy
      /\ Agree(s, Undefined, o)
  BY EarlyIs
<1>2. "add" \notin t.flags /\ "update" \notin t.flags /\ PendingOf(t) = Undefined /\ t.pend = None
  BY <1>1 DEF Prepares, PendingOf
<1>3. Settles(t, o)
  BY <1>1, <1>2, AgreeFrame DEF Settles, Prepares
<1>4. Pending(t)
  BY <1>2 DEF Pending, AddPending, UpdatePending
<1>5. Guarded(t)
  BY <1>1, <1>2 DEF Guarded, Prepares, Early, NocInvoked
<1>6. Scheduled(t)
  BY <1>1 DEF Running, Scheduled, Prepares
<1> QED
  BY <1>3, <1>4, <1>5, <1>6 DEF Running

(* Refusing changes nothing that matters.                                  *)
LEMMA RefuseIs ==
    ASSUME NEW s \in Dev
    PROVE  /\ Refuse(s) \in Dev /\ SameState(s, Refuse(s)) /\ Refuse(s).bad = s.bad
           /\ Refuse(s).log = s.log /\ Refuse(s).err = TRUE
           /\ Ok(s) \in Dev /\ SameState(s, Ok(s)) /\ Ok(s).bad = s.bad
           /\ Ok(s).log = s.log /\ Ok(s).err = FALSE
BY DEF Refuse, Ok, Dev, SameState

\* What a CSRRequest notes before it generates the key.
ForUpdate(s, i) == IF i # Undefined THEN s.flags \cup {"keyForUpdate"} ELSE s.flags \ {"keyForUpdate"}

LEMMA AllocateRuns ==
    ASSUME NEW s \in Dev, NEW o, Running(s, o), Early(s), NEW i \in AnyIndex, NEW key \in Nat,
           i # Undefined => s.fs.idx = i
    PROVE  LET t == AllocatePendingOperationalKey(s, i, key) IN t \in Dev /\ Running(t, o)
<1> DEFINE use == IF i # Undefined THEN i ELSE s.next
           fl == ForUpdate(s, i)
           k == [idx |-> use, key |-> key, active |-> FALSE]
           s2 == [s EXCEPT !.flags = fl]
           s3 == [s2 EXCEPT !.pidx = use]
           s4 == [s3 EXCEPT !.ks = k, !.flags = @ \cup {"key"}]
           t == AllocatePendingOperationalKey(s, i, key)
<1>0. /\ s.flags \cap {"add", "update"} = {} /\ s.pend = None
      /\ Agree(s, Undefined, o) /\ s.next \notin InUse(s)
      /\ NotYetPending(s) /\ KeyPending(s) /\ Undefined \notin InUse(s)
  BY EarlyIs
<1>1. EnsureNextAvailableFabricIndexUpdated(s) = s
  BY <1>0, EnsureIsDone
<1>2. t = IF "data" \in s.flags THEN Refuse(s)
          ELSE IF use = Undefined THEN Refuse(s)
          ELSE IF ~CanSetPending(s, use) THEN Refuse(s2)
          ELSE IF s.ks.idx \notin {Undefined, use} THEN Refuse(s3)
          ELSE Ok(s4)
  BY <1>1 DEF AllocatePendingOperationalKey, ForUpdate
<1>3. /\ fl \in SUBSET Flags /\ fl \cap {"add", "update"} = {} /\ fl \ {"keyForUpdate"} = s.flags \ {"keyForUpdate"}
      /\ use \in AnyIndex
  <2>1. s.flags \in SUBSET Flags /\ s.next \in AnyIndex
    BY DEF Dev
  <2> QED
    BY <1>0, <2>1 DEF ForUpdate, Flags
<1>4. k \in Keypair /\ k.idx = use /\ k.key = key /\ k.active = FALSE
  BY <1>3 DEF Keypair
<1> HIDE DEF fl, use, k
<1>5. /\ Prepares(s, s2) /\ s2.flags = fl /\ s2.pidx = s.pidx /\ s2.ks = s.ks /\ s2.certs = s.certs
      /\ s2.fs = s.fs
  BY <1>3 DEF Dev, Prepares
<1>6. /\ Prepares(s, s3) /\ s3.flags = fl /\ s3.pidx = use /\ s3.ks = s.ks /\ s3.certs = s.certs
      /\ s3.fs = s.fs
  BY <1>3 DEF Dev, Prepares
<1>7. /\ Prepares(s, s4) /\ s4.flags = fl \cup {"key"} /\ s4.pidx = use /\ s4.ks = k /\ s4.certs = s.certs
      /\ s4.fs = s.fs
  <2>1. fl \cup {"key"} \in SUBSET Flags /\ (fl \cup {"key"}) \cap {"add", "update"} = {}
    BY <1>3 DEF Flags
  <2> QED
    BY <1>3, <1>4, <2>1 DEF Dev, Prepares
<1>8. ASSUME t = Refuse(s) PROVE t \in Dev /\ Running(t, o)
  BY <1>8, RefuseIs, RunningFrame
<1> HIDE DEF s2, s3, s4
<1>n. /\ s2 \in Dev /\ s3 \in Dev /\ s4 \in Dev
      /\ InUse(s2) = InUse(s) /\ InUse(s3) = InUse(s) /\ InUse(s4) = InUse(s)
  BY <1>5, <1>6, <1>7 DEF Prepares, InUse
<1>m. ("root" \in fl <=> "root" \in s.flags) /\ ("key" \in fl <=> "key" \in s.flags)
      /\ (fl \subseteq {"keyForUpdate"} <=> s.flags \subseteq {"keyForUpdate"})
  BY <1>3
<1>9. ASSUME t = Refuse(s2) PROVE t \in Dev /\ Running(t, o)
  <2>1. NotYetPending(s2)
    BY <1>0, <1>5, <1>m DEF NotYetPending
  <2>2. KeyPending(s2)
    BY <1>0, <1>5, <1>n, <1>m DEF KeyPending
  <2>3. Running(s2, o)
    BY <1>5, <1>n, <2>1, <2>2, EarlyRuns
  <2> QED
    BY <1>9, <1>n, <2>3, RefuseIs, RunningFrame
<1>10. ASSUME CanSetPending(s, use), use # Undefined
       PROVE  /\ s.certs = NoCerts
                 \/ ("root" \in s.flags /\ s.certs.flags = {"root"} /\ s.certs.idx = use /\ use \in Index
                     /\ s.certs.noc = None /\ s.certs.icac = None /\ s.certs.rcac \in Fabrics)
                 \/ ("root" \notin s.flags /\ s.certs.flags = {"update"} /\ s.certs.rcac = None)
              /\ s.ks.active = FALSE
  BY <1>0, <1>10, NoneApart DEF CanSetPending, NotYetPending
<1>11. ASSUME t = Refuse(s3), CanSetPending(s, use), use # Undefined PROVE t \in Dev /\ Running(t, o)
  <2>1. NotYetPending(s3)
    BY <1>6, <1>m, <1>10, <1>11 DEF NotYetPending
  <2>2. KeyPending(s3)
    BY <1>0, <1>6, <1>n, <1>m DEF KeyPending
  <2>3. Running(s3, o)
    BY <1>6, <1>n, <2>1, <2>2, EarlyRuns
  <2> QED
    BY <1>11, <1>n, <2>3, RefuseIs, RunningFrame
<1>12. ASSUME t = Ok(s4), CanSetPending(s, use), use # Undefined PROVE t \in Dev /\ Running(t, o)
  <2>1. NotYetPending(s4)
    <3>1. "root" \in s4.flags <=> "root" \in s.flags
      BY <1>7, <1>m
    <3> QED
      BY <1>4, <1>7, <1>10, <1>12, <3>1 DEF NotYetPending
  <2>2. KeyPending(s4)
    <3>1. use \in InUse(s) => s.fs.idx = use
      BY <1>0 DEF use
    <3>2. key # None
      BY NoneApart
    <3>3. "key" \in s4.flags /\ ~(s4.flags \subseteq {"keyForUpdate"})
      BY <1>7
    <3> QED
      BY <1>4, <1>7, <1>12, <1>n, <3>1, <3>2, <3>3 DEF KeyPending
  <2>3. Running(s4, o)
    BY <1>7, <1>n, <2>1, <2>2, EarlyRuns
  <2> QED
    BY <1>12, <1>n, <2>3, RefuseIs, RunningFrame
<1>13. \/ t = Refuse(s) \/ t = Refuse(s2)
       \/ t = Refuse(s3) /\ CanSetPending(s, use) /\ use # Undefined
       \/ t = Ok(s4) /\ CanSetPending(s, use) /\ use # Undefined
  <2> HIDE DEF t
  <2> QED
    BY <1>2
<1>14. t \in Dev /\ Running(t, o)
  <2> HIDE DEF t
  <2> QED
    BY <1>8, <1>9, <1>11, <1>12, <1>13
<1> QED
  BY <1>14

LEMMA CSRRequestStep ==
    ASSUME FabricInv, CSRRequest
    PROVE  FabricInv'
<1>1. /\ dev \in Dev /\ Running(dev, owed) /\ keys \in Nat /\ keys' = keys + 1
      /\ owed \in [Index -> NOC \cup {None, Unsure}]
  BY UpIs DEF CSRRequest
<1>2. PICK a \in Sessions, forUpdate \in BOOLEAN :
        /\ ArmedFor(a) /\ ~NocInvoked(dev)
        /\ InMemory(AllocatePendingOperationalKey(dev, IF forUpdate THEN a ELSE Undefined, keys + 1))
  BY DEF CSRRequest
<1> DEFINE i == IF forUpdate THEN a ELSE Undefined
           t == AllocatePendingOperationalKey(dev, i, keys + 1)
<1>3. i \in AnyIndex /\ (i # Undefined => dev.fs.idx = i) /\ Early(dev)
  BY <1>2, NoneApart DEF Sessions, InUse, PASE, ArmedFor, Early
<1>4. keys + 1 \in Nat /\ keys' \in Nat
  BY <1>1
<1> HIDE DEF i
<1>5. t \in Dev /\ Running(t, owed)
  BY <1>1, <1>3, <1>4, AllocateRuns
<1>6. Completes(t) /\ owed' = owed
  BY <1>2 DEF InMemory, i
<1> HIDE DEF t
<1> QED
  BY <1>1, <1>4, <1>5, <1>6, CompletesInv

\* s with another root flag of the fail-safe.
WithRoot(s, f) == [s EXCEPT !.fs.root = f.root]

LEMMA WithRootRuns ==
    ASSUME NEW s \in Dev, NEW o, Running(s, o), NEW f \in FailSafe
    PROVE  WithRoot(s, f) \in Dev /\ Running(WithRoot(s, f), o)
<1> DEFINE g == [s.fs EXCEPT !.root = f.root]
           t == WithRoot(s, f)
<1>1. t = [s EXCEPT !.fs = g]
  BY DEF WithRoot, Dev, FailSafe
<1>2. /\ g \in FailSafe /\ g.armed = s.fs.armed /\ g.busy = s.fs.busy /\ g.add = s.fs.add
      /\ g.upd = s.fs.upd /\ g.idx = s.fs.idx
  BY DEF Dev, FailSafe
<1> HIDE DEF g
<1>3. SameData(s, t) /\ t.fs = g /\ t.work = s.work
  BY <1>1, <1>2, WithFs
<1> HIDE DEF t
<1>4. Settles(t, o) /\ Pending(t) /\ InUse(t) = InUse(s) /\ CommittedOf(t) = CommittedOf(s)
  BY <1>3, SameDataFrame DEF Running
<1>5. KeyPending(t) /\ Guarded(t) /\ Scheduled(t)
  <2>1. KeyPending(s) /\ Guarded(s) /\ Scheduled(s)
    BY DEF Running
  <2>2. KeyPending(t)
    BY <1>2, <1>3, <1>4, <2>1 DEF KeyPending, SameData
  <2>3. Guarded(t)
    BY <1>2, <1>3, <1>4, <2>1 DEF Guarded, SameData
  <2>4. Scheduled(t)
    BY <1>2, <1>3, <1>4, <2>1 DEF Scheduled, SameData
  <2> QED
    BY <2>2, <2>3, <2>4
<1> QED
  BY <1>3, <1>4, <1>5 DEF Running, SameData, t

LEMMA AddRootRuns ==
    ASSUME NEW s \in Dev, NEW o, Running(s, o), Early(s), NEW fabric \in Fabrics,
           s.fs.idx \in {PASE} \cup InUse(s)
    PROVE  LET t == AddNewPendingTrustedRootCert(s, fabric) IN t \in Dev /\ Running(t, o)
<1> DEFINE i == s.next
           s2 == [s EXCEPT !.pidx = i]
           c == [s.certs EXCEPT !.idx = i, !.rcac = fabric, !.flags = @ \cup {"root"}]
           fl == s.flags \cup {"data", "root"}
           s3 == [s EXCEPT !.pidx = i, !.flags = fl, !.certs = c]
           t == AddNewPendingTrustedRootCert(s, fabric)
<1>0. /\ s.flags \cap {"add", "update"} = {} /\ s.pend = None
      /\ Agree(s, Undefined, o) /\ s.next \notin InUse(s)
      /\ NotYetPending(s) /\ KeyPending(s) /\ Undefined \notin InUse(s)
  BY EarlyIs
<1>1. EnsureNextAvailableFabricIndexUpdated(s) = s /\ s.next \in AnyIndex
  BY <1>0, EnsureIsDone DEF Dev
<1>2. t = IF s.flags \cap {"root", "update", "add"} # {} THEN Refuse(s)
          ELSE IF i = Undefined \/ ~CanSetPending(s, i) THEN Refuse(s)
          ELSE IF s.certs.flags # {} \/ s.disk.rcac[i] # None THEN Refuse(s2)
          ELSE Ok(s3)
  <2>1. [s EXCEPT !.pidx = i, !.flags = @ \cup {"data", "root"}, !.certs.idx = i, !.certs.rcac = fabric,
                  !.certs.flags = @ \cup {"root"}] = s3
    BY DEF Dev, Certs
  <2> QED
    BY <1>1, <2>1 DEF AddNewPendingTrustedRootCert
<1>3. ASSUME t = Refuse(s) PROVE t \in Dev /\ Running(t, o)
  BY <1>3, RefuseIs, RunningFrame
<1>4. ASSUME t = Refuse(s2), "root" \notin s.flags PROVE t \in Dev /\ Running(t, o)
  <2>1. Prepares(s, s2) /\ s2.ks = s.ks /\ s2.certs = s.certs /\ s2.flags = s.flags /\ s2.fs = s.fs
    BY <1>0, <1>1 DEF Prepares, Dev
  <2> HIDE DEF s2
  <2>2. s2 \in Dev /\ InUse(s2) = InUse(s)
    BY <2>1 DEF Prepares, InUse
  <2>3. NotYetPending(s2)
    BY <1>0, <1>4, <2>1 DEF NotYetPending
  <2>4. KeyPending(s2)
    BY <1>0, <2>1, <2>2 DEF KeyPending
  <2>5. Running(s2, o)
    BY <2>1, <2>2, <2>3, <2>4, EarlyRuns
  <2> QED
    BY <1>4, <2>2, <2>5, RefuseIs, RunningFrame
<1>5. ASSUME t = Ok(s3), "root" \notin s.flags, i # Undefined, s.certs.flags = {} PROVE t \in Dev /\ Running(t, o)
  <2>0. s.certs = NoCerts /\ i \in Index
    BY <1>0, <1>1, <1>5, Defined DEF NotYetPending
  <2>1. /\ c \in Certs /\ c.idx = i /\ c.rcac = fabric /\ c.noc = None /\ c.icac = None
        /\ c.flags = {"root"}
    <3>1. /\ s.certs \in Certs /\ s.certs.noc = None /\ s.certs.icac = None
          /\ s.certs.flags \cup {"root"} = {"root"}
      BY <2>0, Initials DEF NoCerts
    <3>2. {"root"} \in SUBSET CertFlags
      BY DEF CertFlags
    <3>3. c = [s.certs EXCEPT !.idx = i, !.rcac = fabric, !.flags = {"root"}]
      BY <3>1
    <3> QED
      BY <1>1, <3>1, <3>2, <3>3 DEF Certs
  <2>2. fl \in SUBSET Flags /\ fl \cap {"add", "update"} = {} /\ "root" \in fl
        /\ ("key" \in fl <=> "key" \in s.flags)
    <3>1. s.flags \in SUBSET Flags
      BY DEF Dev
    <3> QED
      BY <1>0, <3>1 DEF Flags
  <2> HIDE DEF c, fl
  <2>3. Prepares(s, s3) /\ s3.ks = s.ks /\ s3.certs = c /\ s3.flags = fl /\ s3.fs = s.fs /\ s3.pidx = i
    BY <1>1, <2>1, <2>2 DEF Prepares, Dev
  <2> HIDE DEF s3
  <2>4. s3 \in Dev /\ InUse(s3) = InUse(s)
    BY <2>3 DEF Prepares, InUse
  <2>5. NotYetPending(s3)
    BY <1>0, <2>0, <2>1, <2>2, <2>3 DEF NotYetPending
  <2>6. KeyPending(s3)
    <3>1. ~(s3.flags \subseteq {"keyForUpdate"})
      BY <2>2, <2>3
    <3>2. s.fs.armed /\ "key" \in s.flags => s.ks.key # None
      BY <1>0, <1>5 DEF KeyPending
    <3> QED
      BY <1>0, <2>2, <2>3, <2>4, <3>1, <3>2 DEF KeyPending
  <2>7. Running(s3, o)
    BY <2>3, <2>4, <2>5, <2>6, EarlyRuns
  <2> QED
    BY <1>5, <2>4, <2>7, RefuseIs, RunningFrame
<1>6. \/ t = Refuse(s)
      \/ t = Refuse(s2) /\ "root" \notin s.flags
      \/ t = Ok(s3) /\ "root" \notin s.flags /\ i # Undefined /\ s.certs.flags = {}
  <2> HIDE DEF t, s2, s3
  <2> QED
    BY <1>2
<1>7. t \in Dev /\ Running(t, o)
  <2> HIDE DEF t, s2, s3
  <2> QED
    BY <1>3, <1>4, <1>5, <1>6
<1> QED
  BY <1>7

LEMMA AddTrustedRootCertificateStep ==
    ASSUME FabricInv, AddTrustedRootCertificate
    PROVE  FabricInv'
<1>1. /\ dev \in Dev /\ Running(dev, owed) /\ keys' \in Nat
      /\ owed \in [Index -> NOC \cup {None, Unsure}]
  BY UpIs DEF AddTrustedRootCertificate
<1>2. PICK a \in Sessions, fabric \in Fabrics :
        /\ ArmedFor(a) /\ ~NocInvoked(dev)
        /\ LET s == AddNewPendingTrustedRootCert(dev, fabric)
           IN  InMemory([s EXCEPT !.fs.root = ~s.err])
  BY DEF AddTrustedRootCertificate
<1> DEFINE s == AddNewPendingTrustedRootCert(dev, fabric)
           f == [Disarmed EXCEPT !.root = ~s.err]
           t == WithRoot(s, f)
<1>3. Early(dev) /\ dev.fs.idx \in {PASE} \cup InUse(dev)
  BY <1>2 DEF Sessions, ArmedFor, Early
<1>4. s \in Dev /\ Running(s, owed)
  BY <1>1, <1>3, AddRootRuns
<1>5. InMemory([s EXCEPT !.fs.root = ~s.err])
  BY <1>2
<1> HIDE DEF s
<1>6. f \in FailSafe /\ f.root = ~s.err
  BY Initials DEF FailSafe, Disarmed
<1>7. t \in Dev /\ Running(t, owed)
  BY <1>4, <1>6, WithRootRuns
<1>8. Completes(t) /\ owed' = owed
  BY <1>5, <1>6 DEF InMemory, WithRoot
<1> HIDE DEF t
<1> QED
  BY <1>1, <1>7, <1>8, CompletesInv

----------------------------------------------------------------------------
(* UpdateNOC.                                                              *)

\* The certificates an UpdateNOC leaves pending.
UpdateCerts(i, noc, icac) == [idx |-> i, rcac |-> None, noc |-> noc, icac |-> icac, flags |-> {"update"}]

LEMMA UpdateCertsIs ==
    ASSUME NEW i \in AnyIndex, NEW noc \in NOC, NEW icac \in Nat \cup {None}
    PROVE  LET c == UpdateCerts(i, noc, icac)
           IN  /\ c \in Certs /\ c.idx = i /\ c.rcac = None /\ c.noc = noc /\ c.icac = icac
               /\ c.flags = {"update"}
BY DEF UpdateCerts, Certs, CertFlags

(* Equal certificates.                                                     *)
LEMMA SameCerts ==
    ASSUME NEW c \in Certs, NEW d \in Certs, c.idx = d.idx, c.rcac = d.rcac, c.noc = d.noc,
           c.icac = d.icac, c.flags = d.flags
    PROVE  c = d
BY DEF Certs

\* What the UpdateNOC command does with the answer of the fabric table.
WithUpd(s) == [s EXCEPT !.fs.upd = ~s.err]

LEMMA WithUpdIs ==
    ASSUME NEW s \in Dev
    PROVE  /\ SameData(s, WithUpd(s)) /\ WithUpd(s).work = s.work
           /\ WithUpd(s).fs.armed = s.fs.armed /\ WithUpd(s).fs.busy = s.fs.busy
           /\ WithUpd(s).fs.add = s.fs.add /\ WithUpd(s).fs.idx = s.fs.idx
           /\ WithUpd(s).fs.upd = ~s.err
<1> DEFINE g == [s.fs EXCEPT !.upd = ~s.err]
<1>1. WithUpd(s) = [s EXCEPT !.fs = g]
  BY DEF WithUpd, Dev, FailSafe
<1>2. /\ g \in FailSafe /\ g.armed = s.fs.armed /\ g.busy = s.fs.busy /\ g.add = s.fs.add
      /\ g.upd = ~s.err /\ g.idx = s.fs.idx
  BY DEF Dev, FailSafe
<1> HIDE DEF g
<1> QED
  BY <1>1, <1>2, WithFs

(* A refused UpdateNOC.                                                    *)
LEMMA RefusedUpdateRuns ==
    ASSUME NEW s \in Dev, NEW o, Running(s, o), Early(s), s.err = TRUE
    PROVE  WithUpd(s) \in Dev /\ Running(WithUpd(s), o)
<1> DEFINE t == WithUpd(s)
<1>1. /\ SameData(s, t) /\ t.work = s.work /\ t.fs.armed = s.fs.armed /\ t.fs.busy = s.fs.busy
      /\ t.fs.add = s.fs.add /\ t.fs.idx = s.fs.idx /\ t.fs.upd = FALSE
  BY WithUpdIs
<1>2. s.flags \cap {"add", "update"} = {} /\ NotYetPending(s) /\ KeyPending(s) /\ s.fs.upd = FALSE
  BY EarlyIs DEF Early, NocInvoked, Dev, FailSafe
<1> HIDE DEF t
<1>3. t \in Dev /\ Prepares(s, t) /\ InUse(t) = InUse(s)
  BY <1>1, <1>2 DEF SameData, Prepares, InUse
<1>4. NotYetPending(t) /\ KeyPending(t)
  BY <1>1, <1>2, <1>3 DEF NotYetPending, KeyPending, SameData
<1>5. Running(t, o)
  BY <1>3, <1>4, EarlyRuns
<1> QED
  BY <1>3, <1>5 DEF t

LEMMA UpdateRuns ==
    ASSUME NEW s \in Dev, NEW o, Running(s, o), Early(s), OneFault(s.bad), NEW i \in InUse(s), s.fs.idx = i,
           "key" \in s.flags, NEW noc \in NOC, NEW icac \in {None, noc.key}
    PROVE  LET t == WithUpd(UpdatePendingFabricCommon(s, i, noc, icac)) IN t \in Dev /\ Running(t, o)
<1> DEFINE c == UpdateCerts(i, noc, icac)
           s1 == [s EXCEPT !.certs = c]
           s2 == [s1 EXCEPT !.pidx = i, !.pend = None]
           k == [s.ks EXCEPT !.active = @ \/ s.ks.key # None]
           p == [idx |-> i, fabric |-> noc.fabric, key |-> noc.key, label |-> s.table[i].label]
           fl == s.flags \cup {"update", "data"}
           s3 == [s2 EXCEPT !.flags = fl, !.ks = k, !.pend = p]
           u == UpdatePendingFabricCommon(s, i, noc, icac)
           refused == \/ ~HasOpKeypairForFabric(s, i) /\ s.ks.key = None
                      \/ s.flags \cap {"root", "add"} # {} \/ s.table[i] = None
                      \/ noc.fabric # GetCertificate(s, i, "rcac") \/ s.table[i].fabric # noc.fabric
                      \/ s.certs.flags # {} \/ s.disk.rcac[i] = None \/ s.disk.noc[i] = None
<1>0. /\ s.flags \cap {"add", "update"} = {} /\ s.pend = None /\ ~s.fs.busy
      /\ Agree(s, Undefined, o) /\ PendingOf(s) = Undefined
      /\ NotYetPending(s) /\ KeyPending(s) /\ Undefined \notin InUse(s)
  BY EarlyIs
<1>1. /\ i \in Index /\ i \in AnyIndex /\ s.table[i] \in Entry /\ noc.fabric \in Fabrics /\ noc.key \in Nat
      /\ icac \in Nat \cup {None} /\ s.flags \in SUBSET Flags
  BY NoneApart DEF InUse, Dev, NOC
<1>2. /\ c \in Certs /\ c.idx = i /\ c.rcac = None /\ c.noc = noc /\ c.icac = icac
      /\ c.flags = {"update"}
  BY <1>1, UpdateCertsIs
<1>3. u = IF refused THEN Refuse(s)
          ELSE IF ~CanSetPending(s, i) THEN Refuse(s1)
          ELSE IF ~ChainIsGood(s1, i, noc) THEN Refuse(RevertPendingOpCertsExceptRoot(s2))
          ELSE Ok(s3)
  <2>1. [s2 EXCEPT !.flags = @ \cup {"update", "data"}, !.ks.active = @ \/ s.ks.key # None,
                   !.pend = p] = s3
    BY DEF Dev, Keypair
  <2> QED
    BY <2>1 DEF UpdatePendingFabricCommon, UpdateCerts
<1> HIDE DEF c
<1>4. /\ s1 \in Dev /\ s1.certs = c /\ s1.table = s.table /\ s1.count = s.count /\ s1.next = s.next
      /\ s1.disk = s.disk /\ s1.pend = s.pend /\ s1.pidx = s.pidx /\ s1.flags = s.flags /\ s1.ks = s.ks
      /\ s1.fs = s.fs /\ s1.work = s.work
  BY <1>2 DEF Dev
<1>5. /\ s2 \in Dev /\ s2.certs = c /\ s2.table = s.table /\ s2.count = s.count /\ s2.next = s.next
      /\ s2.disk = s.disk /\ s2.pend = None /\ s2.pidx = i /\ s2.flags = s.flags /\ s2.ks = s.ks
      /\ s2.fs = s.fs /\ s2.work = s.work /\ s2.bad = s.bad
  BY <1>1, <1>2 DEF Dev
<1>6. ASSUME u = Refuse(s) PROVE WithUpd(u) \in Dev /\ Running(WithUpd(u), o)
  <2>1. u \in Dev /\ SameState(s, u) /\ u.err = TRUE
    BY <1>6, RefuseIs
  <2>2. Running(u, o) /\ Early(u)
    BY <2>1, RunningFrame DEF SameState, Early, NocInvoked
  <2> QED
    BY <2>1, <2>2, RefusedUpdateRuns
<1>7. ASSUME u = Refuse(s1), "root" \notin s.flags PROVE WithUpd(u) \in Dev /\ Running(WithUpd(u), o)
  <2> HIDE DEF s1
  <2>1. Prepares(s, s1) /\ InUse(s1) = InUse(s)
    BY <1>0, <1>4 DEF Prepares, InUse
  <2>2. NotYetPending(s1) /\ KeyPending(s1)
    BY <1>0, <1>2, <1>4, <1>7, <2>1 DEF NotYetPending, KeyPending
  <2>3. Running(s1, o)
    BY <1>4, <2>1, <2>2, EarlyRuns
  <2>4. u \in Dev /\ SameState(s1, u) /\ u.err = TRUE
    BY <1>4, <1>7, RefuseIs
  <2>5. Running(u, o) /\ Early(u)
    BY <1>4, <2>3, <2>4, RunningFrame DEF SameState, Early, NocInvoked
  <2> QED
    BY <2>4, <2>5, RefusedUpdateRuns
<1>8. ASSUME u = Refuse(RevertPendingOpCertsExceptRoot(s2)), "root" \notin s.flags
      PROVE  WithUpd(u) \in Dev /\ Running(WithUpd(u), o)
  <2> HIDE DEF s2
  <2> DEFINE r == RevertPendingOpCertsExceptRoot(s2)
             e == CertsExceptRootReverted(c)
  <2>1. Settles(s2, o)
    BY <1>0, <1>5, AgreeFrame DEF Settles, PendingOf
  <2>2. RevertedExceptRoot(s2, r, e)
    BY <1>5, <2>1, RevertExceptRootIs
  <2> HIDE DEF r
  <2>3. e = NoCerts
    <3>1. /\ e \in Certs /\ e.noc = None /\ e.icac = None /\ e.rcac = c.rcac
          /\ e.flags = c.flags \ {"add", "update"}
          /\ e.idx = IF c.rcac = None THEN Undefined ELSE c.idx
      BY <1>2, ExceptRoot
    <3> HIDE DEF e
    <3>2. NoCerts.idx = Undefined /\ NoCerts.rcac = None /\ NoCerts.noc = None /\ NoCerts.icac = None
          /\ NoCerts.flags = {}
      BY DEF NoCerts
    <3>3. c.flags \ {"add", "update"} = {}
      BY <1>2
    <3> QED
      BY <1>2, <3>1, <3>2, <3>3, Initials, SameCerts
  <2> HIDE DEF e
  <2>4. s.flags \ {"add", "update"} = s.flags /\ "add" \notin s2.flags
    BY <1>0, <1>5
  <2>5. /\ r \in Dev /\ r.flags = s.flags /\ r.certs = NoCerts /\ r.ks = s.ks /\ r.fs = s.fs
        /\ r.pend = None /\ r.table = s.table /\ r.count = s.count /\ r.next = s.next
        /\ r.disk = s.disk /\ r.work = s.work
    BY <1>5, <2>2, <2>3, <2>4 DEF RevertedExceptRoot
  <2>6. Prepares(s, r) /\ InUse(r) = InUse(s)
    BY <1>0, <2>5 DEF Prepares, InUse
  <2>7. NotYetPending(r) /\ KeyPending(r)
    BY <1>0, <2>5, <2>6 DEF NotYetPending, KeyPending
  <2>8. Running(r, o)
    BY <2>5, <2>6, <2>7, EarlyRuns
  <2>9. u \in Dev /\ SameState(r, u) /\ u.err = TRUE
    BY <1>8, <2>5, RefuseIs DEF r
  <2>10. Running(u, o) /\ Early(u)
    BY <2>5, <2>8, <2>9, RunningFrame DEF SameState, Early, NocInvoked
  <2> QED
    BY <2>9, <2>10, RefusedUpdateRuns
<1>9. ASSUME u = Ok(s3), "root" \notin s.flags, s.table[i].fabric = noc.fabric, ChainIsGood(s1, i, noc)
      PROVE  WithUpd(u) \in Dev /\ Running(WithUpd(u), o)
  <2> HIDE DEF s1
  <2>1. s.ks.key # None
    BY <1>0, <1>9 DEF KeyPending, Early
  <2>2. s.ks.idx = i /\ s.ks.key = noc.key
    BY <1>4, <1>9, <2>1 DEF ChainIsGood
  <2>3. k \in Keypair /\ k = [idx |-> i, key |-> noc.key, active |-> TRUE]
    <3>1. s.ks \in Keypair
      BY DEF Dev
    <3>2. s.ks.active \in BOOLEAN
      BY <3>1 DEF Keypair
    <3>3. (s.ks.active \/ s.ks.key # None) = TRUE
      BY <2>1, <3>2
    <3>4. k = [s.ks EXCEPT !.active = TRUE]
      BY <3>3
    <3> HIDE DEF k
    <3>5. k = [idx |-> s.ks.idx, key |-> s.ks.key, active |-> TRUE]
      BY <3>1, <3>4 DEF Keypair
    <3> QED
      BY <1>1, <2>2, <3>5 DEF Keypair
  <2>4. p \in Shadow /\ p.idx = i /\ p.fabric = noc.fabric /\ p.key = noc.key /\ Identity(p) = noc
    BY <1>1 DEF Shadow, Entry, Identity, NOC
  <2>5. fl \in SUBSET Flags /\ {"update", "data"} \subseteq fl /\ "root" \notin fl /\ "add" \notin fl /\ "key" \in fl
    BY <1>0, <1>1, <1>9 DEF Flags
  <2> HIDE DEF k, p, fl
  <2>6. /\ s3 \in Dev /\ s3.certs = c /\ s3.table = s.table /\ s3.count = s.count /\ s3.next = s.next
        /\ s3.disk = s.disk /\ s3.pend = p /\ s3.pidx = i /\ s3.flags = fl /\ s3.ks = k
        /\ s3.fs = s.fs /\ s3.work = s.work
    <3> HIDE DEF s2
    <3> QED
      BY <1>5, <2>3, <2>4, <2>5 DEF Dev
  <2> HIDE DEF s3
  <2>7. u \in Dev /\ SameState(s3, u) /\ u.err = FALSE
    BY <1>9, <2>6, RefuseIs
  <2> DEFINE t == WithUpd(u)
  <2>8. /\ SameData(u, t) /\ t.work = u.work /\ t.fs.armed = u.fs.armed /\ t.fs.busy = u.fs.busy
        /\ t.fs.add = u.fs.add /\ t.fs.idx = u.fs.idx /\ t.fs.upd = TRUE
    BY <2>7, WithUpdIs
  <2> HIDE DEF t, u
  <2>9. /\ t \in Dev /\ t.certs = c /\ t.table = s.table /\ t.count = s.count /\ t.next = s.next
        /\ t.disk = s.disk /\ t.pend = p /\ t.pidx = i /\ t.flags = fl /\ t.ks = k /\ t.work = s.work
        /\ t.fs.armed = s.fs.armed /\ t.fs.busy = s.fs.busy /\ t.fs.add = s.fs.add
        /\ t.fs.idx = i /\ t.fs.upd = TRUE
    BY <2>6, <2>7, <2>8 DEF SameData, SameState
  <2>10. InUse(t) = InUse(s) /\ PendingOf(t) = Undefined
    BY <2>5, <2>9 DEF InUse, PendingOf
  <2>11. Settles(t, o)
    BY <1>0, <2>5, <2>9, <2>10, AgreeFrame DEF Settles
  <2>12. AddPending(t) /\ NotYetPending(t)
    BY <2>5, <2>9 DEF AddPending, NotYetPending
  <2>13. UpdatePending(t)
    <3>1. t.pend # None /\ "update" \in t.flags
      BY <2>4, <2>5, <2>9, NoneApart
    <3>2. "data" \in t.flags /\ "root" \notin t.flags /\ "add" \notin t.flags
      BY <2>5, <2>9
    <3>3. t.pidx \in InUse(t) /\ t.pend.idx = t.pidx /\ t.certs.idx = t.pidx /\ t.certs.flags = {"update"}
          /\ t.certs.rcac = None
      BY <1>2, <2>4, <2>9, <2>10
    <3>4. t.certs.noc = Identity(t.pend) /\ t.pend.fabric = t.table[t.pidx].fabric
      BY <1>2, <1>9, <2>4, <2>9
    <3>5. t.certs.icac \in {None, t.certs.noc.key}
      BY <1>2, <2>9
    <3>6. t.ks = [idx |-> t.pidx, key |-> t.certs.noc.key, active |-> TRUE]
      BY <1>2, <2>3, <2>9
    <3> QED
      BY <3>1, <3>2, <3>3, <3>4, <3>5, <3>6 DEF UpdatePending
  <2>14. KeyPending(t)
    <3>1. t.ks.idx = i /\ t.ks.key = noc.key /\ i # Undefined /\ noc.key # None
      BY <1>1, <2>3, <2>9, NoneApart
    <3>2. "key" \in t.flags /\ ~(t.flags \subseteq {"keyForUpdate"})
      BY <2>5, <2>9
    <3> QED
      BY <2>9, <3>1, <3>2 DEF KeyPending
  <2>15. Guarded(t)
    BY <1>0, <2>5, <2>9 DEF Guarded, Early, NocInvoked
  <2>16. Scheduled(t)
    BY <1>0, <2>9 DEF Running, Scheduled
  <2>17. Running(t, o)
    BY <2>11, <2>12, <2>13, <2>14, <2>15, <2>16 DEF Running, Pending
  <2> QED
    BY <2>9, <2>17 DEF t
<1>10. \/ u = Refuse(s)
       \/ u = Refuse(s1) /\ "root" \notin s.flags
       \/ u = Refuse(RevertPendingOpCertsExceptRoot(s2)) /\ "root" \notin s.flags
       \/ u = Ok(s3) /\ "root" \notin s.flags /\ s.table[i].fabric = noc.fabric /\ ChainIsGood(s1, i, noc)
  <2> HIDE DEF u, s1, s2, s3
  <2> QED
    BY <1>3
<1> QED
  <2> HIDE DEF s1, s2, s3
  <2>1. WithUpd(u) \in Dev /\ Running(WithUpd(u), o)
    <3> HIDE DEF u
    <3> QED
      BY <1>6, <1>7, <1>8, <1>9, <1>10
  <2> QED
    BY <2>1

LEMMA UpdateNOCStep ==
    ASSUME FabricInv, UpdateNOC
    PROVE  FabricInv'
<1>1. /\ dev \in Dev /\ Running(dev, owed) /\ dev.bad = {} /\ keys \in Nat /\ keys' = keys
      /\ owed \in [Index -> NOC \cup {None, Unsure}]
  BY UpIs DEF UpdateNOC
<1>2. PICK a \in Sessions \ {PASE}, noc \in NOCs : \E icac \in ICACs(noc) :
        /\ ArmedFor(a) /\ ~NocInvoked(dev) /\ {"key", "keyForUpdate"} \subseteq dev.flags
        /\ InMemory(WithUpd(UpdatePendingFabricCommon(dev, a, noc, icac)))
  BY DEF UpdateNOC, WithUpd
<1>3. PICK icac \in ICACs(noc) :
        /\ ArmedFor(a) /\ ~NocInvoked(dev) /\ {"key", "keyForUpdate"} \subseteq dev.flags
        /\ InMemory(WithUpd(UpdatePendingFabricCommon(dev, a, noc, icac)))
  BY <1>2
<1> DEFINE t == WithUpd(UpdatePendingFabricCommon(dev, a, noc, icac))
<1>4. a \in InUse(dev) /\ dev.fs.idx = a /\ Early(dev) /\ "key" \in dev.flags /\ OneFault(dev.bad)
  BY <1>1, <1>3 DEF Sessions, ArmedFor, Early, OneFault
<1>5. noc \in NOC /\ icac \in {None, noc.key}
  BY <1>1 DEF NOCs, NOC, ICACs
<1>6. t \in Dev /\ Running(t, owed)
  BY <1>1, <1>4, <1>5, UpdateRuns
<1>7. Completes(t) /\ owed' = owed
  BY <1>3 DEF InMemory
<1> HIDE DEF t
<1> QED
  BY <1>1, <1>6, <1>7, CompletesInv

----------------------------------------------------------------------------
(* AddNOC.                                                                 *)

\* t is what the AddNOC command makes of the fabric table's answer s.
AddAnswer(s, bad) ==
    CASE s.err -> s
      [] ~s.err /\ "acl" \in bad -> RevertPendingOpCertsExceptRoot(s)
      [] OTHER -> [s EXCEPT !.fs.add = TRUE, !.fs.idx = s.pidx]

AddedFs(s) == [s.fs EXCEPT !.add = TRUE, !.idx = s.pidx]

LEMMA AddAnswerIs ==
    ASSUME NEW s \in Dev, NEW bad
    PROVE  /\ s.err = TRUE => AddAnswer(s, bad) = s
           /\ s.err = FALSE /\ "acl" \in bad => AddAnswer(s, bad) = RevertPendingOpCertsExceptRoot(s)
           /\ s.err = FALSE /\ "acl" \notin bad => AddAnswer(s, bad) = [s EXCEPT !.fs = AddedFs(s)]
           /\ AddedFs(s) \in FailSafe /\ AddedFs(s).add = TRUE /\ AddedFs(s).idx = s.pidx
           /\ AddedFs(s).armed = s.fs.armed /\ AddedFs(s).busy = s.fs.busy /\ AddedFs(s).upd = s.fs.upd
<1>1. s.fs \in FailSafe /\ s.pidx \in AnyIndex
  BY DEF Dev
<1>2. /\ AddedFs(s) \in FailSafe /\ AddedFs(s).add = TRUE /\ AddedFs(s).idx = s.pidx
      /\ AddedFs(s).armed = s.fs.armed /\ AddedFs(s).busy = s.fs.busy /\ AddedFs(s).upd = s.fs.upd
  BY <1>1 DEF AddedFs, FailSafe
<1>3. [s EXCEPT !.fs.add = TRUE, !.fs.idx = s.pidx] = [s EXCEPT !.fs = AddedFs(s)]
  BY <1>1 DEF AddedFs, Dev, FailSafe
<1>4. s.err = TRUE => AddAnswer(s, bad) = s
  BY DEF AddAnswer
<1>5. s.err = FALSE /\ "acl" \in bad => AddAnswer(s, bad) = RevertPendingOpCertsExceptRoot(s)
  BY DEF AddAnswer
<1>6. s.err = FALSE /\ "acl" \notin bad => AddAnswer(s, bad) = [s EXCEPT !.fs = AddedFs(s)]
  BY <1>3 DEF AddAnswer
<1> QED
  BY <1>2, <1>4, <1>5, <1>6

LEMMA AddRuns ==
    ASSUME NEW s \in Dev, NEW o, Running(s, o), Early(s), OneFault(s.bad),
           s.fs.idx \in {PASE} \cup InUse(s), "key" \in s.flags,
           NEW noc \in NOC, NEW icac \in {None, noc.key}
    PROVE  LET t == AddAnswer(AddNewPendingFabricCommon(s, noc, icac), s.bad)
           IN  /\ t \in Dev /\ Running(t, o) /\ t.bad = s.bad
               /\ s.bad = {} => t.log = s.log
<1> DEFINE i == s.next
           c == [s.certs EXCEPT !.noc = noc, !.icac = icac, !.flags = @ \cup {"add"}]
           s2 == [s EXCEPT !.certs = c]
           s3 == [s2 EXCEPT !.pidx = i]
           k == [s.ks EXCEPT !.active = @ \/ s.ks.key # None]
           e == [fabric |-> noc.fabric, key |-> noc.key, label |-> ""]
           tab == [s.table EXCEPT ![i] = e]
           fl == s.flags \cup {"add", "data"}
           n == s.count + 1
           s4 == [s2 EXCEPT !.pidx = i, !.count = n, !.flags = fl, !.ks = k, !.table = tab]
           u == AddNewPendingFabricCommon(s, noc, icac)
           refused == \/ i = Undefined
                      \/ ~HasOpKeypairForFabric(s, i) /\ s.ks.key = None
                      \/ GetCertificate(s, i, "rcac") = None
                      \/ /\ noc.fabric = GetCertificate(s, i, "rcac")
                         /\ \E j \in InUse(s) : s.table[j].fabric = noc.fabric
                      \/ "root" \notin s.certs.flags \/ "add" \in s.certs.flags \/ i # s.certs.idx
                      \/ s.disk.noc[i] # None \/ s.disk.icac[i] # None
           Goal(v) == /\ AddAnswer(v, s.bad) \in Dev /\ Running(AddAnswer(v, s.bad), o) /\ AddAnswer(v, s.bad).bad = s.bad
                      /\ s.bad = {} => AddAnswer(v, s.bad).log = s.log
<1>0. /\ s.flags \cap {"add", "update"} = {} /\ s.pend = None /\ ~s.fs.busy
      /\ Agree(s, Undefined, o) /\ PendingOf(s) = Undefined /\ s.next \notin InUse(s)
      /\ NotYetPending(s) /\ KeyPending(s) /\ Undefined \notin InUse(s)
  BY EarlyIs
<1>1. /\ EnsureNextAvailableFabricIndexUpdated(s) = s /\ s.next \in AnyIndex
      /\ noc.fabric \in Fabrics /\ noc.key \in Nat /\ icac \in Nat \cup {None}
      /\ s.certs \in Certs /\ s.ks \in Keypair /\ s.flags \in SUBSET Flags
      /\ s.table \in [Index -> Entry \cup {None}] /\ s.count \in Nat
  BY <1>0, EnsureIsDone DEF Dev, NOC
<1>2. u = IF "root" \notin s.flags \/ "update" \in s.flags THEN Refuse(s)
          ELSE IF refused THEN Refuse(s)
          ELSE IF ~CanSetPending(s, i) THEN Refuse(s2)
          ELSE IF Cardinality(InUse(s)) = MaxFabrics \/ ~ChainIsGood(s, i, noc)
               THEN Refuse(RevertPendingOpCertsExceptRoot(s3))
          ELSE Ok(s4)
  <2>1. [s EXCEPT !.certs.noc = noc, !.certs.icac = icac, !.certs.flags = @ \cup {"add"}] = s2
    BY <1>1 DEF Dev, Certs
  <2>2. [s2 EXCEPT !.pidx = i, !.count = @ + 1, !.flags = @ \cup {"add", "data"},
                   !.ks.active = @ \/ s.ks.key # None, !.table[i] = e] = s4
    BY <1>1 DEF Dev, Keypair
  <2> DEFINE x == EnsureNextAvailableFabricIndexUpdated(s)
             y == [x EXCEPT !.certs.noc = noc, !.certs.icac = icac, !.certs.flags = @ \cup {"add"}]
             z == [y EXCEPT !.pidx = x.next, !.count = @ + 1, !.flags = @ \cup {"add", "data"},
                            !.ks.active = @ \/ s.ks.key # None, !.table[x.next] = e]
  <2>3. x = s /\ y = s2 /\ z = s4 /\ [y EXCEPT !.pidx = x.next] = s3
    <3>1. x = s
      BY <1>1
    <3> HIDE DEF x
    <3>2. y = s2
      BY <2>1, <3>1
    <3> HIDE DEF y
    <3> QED
      BY <2>2, <3>1, <3>2
  <2>4. u = IF "root" \notin s.flags \/ "update" \in s.flags THEN Refuse(s)
            ELSE IF \/ x.next = Undefined
                    \/ ~HasOpKeypairForFabric(s, x.next) /\ s.ks.key = None
                    \/ GetCertificate(s, x.next, "rcac") = None
                    \/ /\ noc.fabric = GetCertificate(s, x.next, "rcac")
                       /\ \E j \in InUse(s) : s.table[j].fabric = noc.fabric
                    \/ "root" \notin s.certs.flags \/ "add" \in s.certs.flags \/ x.next # s.certs.idx
                    \/ s.disk.noc[x.next] # None \/ s.disk.icac[x.next] # None
                 THEN Refuse(x)
            ELSE IF ~CanSetPending(s, x.next) THEN Refuse(y)
            ELSE IF Cardinality(InUse(s)) = MaxFabrics \/ ~ChainIsGood(s, x.next, noc)
                 THEN Refuse(RevertPendingOpCertsExceptRoot([y EXCEPT !.pidx = x.next]))
            ELSE Ok(z)
    BY DEF AddNewPendingFabricCommon
  <2> HIDE DEF u, x, y, z, s2, s3, s4
  <2> QED
    BY <2>3, <2>4
<1>3. /\ c \in Certs /\ c.idx = s.certs.idx /\ c.rcac = s.certs.rcac /\ c.noc = noc /\ c.icac = icac
      /\ c.flags = s.certs.flags \cup {"add"}
  <2>1. s.certs.flags \cup {"add"} \in SUBSET CertFlags
    BY <1>1 DEF Certs, CertFlags
  <2> QED
    BY <1>1, <2>1 DEF Certs
<1> HIDE DEF c
<1>4. ASSUME u = Refuse(s) PROVE Goal(u)
  <2>1. u \in Dev /\ SameState(s, u) /\ u.err = TRUE /\ u.bad = s.bad /\ u.log = s.log
    BY <1>4, RefuseIs
  <2> HIDE DEF u
  <2>2. Running(u, o)
    BY <2>1, RunningFrame
  <2>3. AddAnswer(u, s.bad) = u
    BY <2>1, AddAnswerIs
  <2> QED
    BY <2>1, <2>2, <2>3
<1>5. ASSUME "root" \in s.flags, ~refused
      PROVE  /\ s.pidx = i /\ i \in Index /\ s.certs.idx = i /\ s.certs.flags = {"root"}
             /\ s.certs.noc = None /\ s.certs.icac = None /\ s.certs.rcac \in Fabrics
             /\ s.certs # NoCerts
  <2>1. "root" \in s.certs.flags /\ i = s.certs.idx /\ i # Undefined
    BY <1>5
  <2>2. s.certs # NoCerts
    BY <2>1 DEF NoCerts
  <2> QED
    BY <1>0, <1>5, <2>1, <2>2 DEF NotYetPending
<1>6. ASSUME u = Refuse(RevertPendingOpCertsExceptRoot(s3)), "root" \in s.flags, ~refused
      PROVE  Goal(u)
  <2> HIDE DEF refused
  <2>0. /\ s.pidx = i /\ i \in Index /\ s.certs.idx = i /\ s.certs.flags = {"root"}
        /\ s.certs.noc = None /\ s.certs.icac = None /\ s.certs.rcac \in Fabrics
    BY <1>5, <1>6
  <2>1. /\ s3 \in Dev /\ s3.certs = c /\ s3.table = s.table /\ s3.count = s.count /\ s3.next = s.next
        /\ s3.disk = s.disk /\ s3.pend = s.pend /\ s3.pidx = i /\ s3.flags = s.flags /\ s3.ks = s.ks
        /\ s3.fs = s.fs /\ s3.work = s.work /\ s3.bad = s.bad /\ s3.log = s.log
    BY <1>1, <1>3 DEF Dev
  <2> HIDE DEF s3
  <2> DEFINE r == RevertPendingOpCertsExceptRoot(s3)
             d == CertsExceptRootReverted(c)
  <2>2. Settles(s3, o)
    BY <1>0, <2>1, AgreeFrame DEF Settles, PendingOf
  <2>3. RevertedExceptRoot(s3, r, d)
    BY <2>1, <2>2, RevertExceptRootIs
  <2>4. d = s.certs
    <3>1. /\ d \in Certs /\ d.noc = None /\ d.icac = None /\ d.rcac = c.rcac
          /\ d.flags = c.flags \ {"add", "update"}
          /\ d.idx = IF c.rcac = None THEN Undefined ELSE c.idx
      BY <1>3, ExceptRoot
    <3> HIDE DEF d
    <3>2. c.flags \ {"add", "update"} = s.certs.flags /\ c.rcac # None
      BY <1>3, <2>0, NoneApart
    <3>3. /\ d.idx = s.certs.idx /\ d.rcac = s.certs.rcac /\ d.noc = s.certs.noc
          /\ d.icac = s.certs.icac /\ d.flags = s.certs.flags
      BY <1>3, <2>0, <3>1, <3>2
    <3>4. s.certs \in Certs
      BY DEF Dev
    <3> QED
      BY <3>1, <3>3, <3>4, SameCerts
  <2> HIDE DEF r, d
  <2>5. s.flags \ {"add", "update"} = s.flags /\ "add" \notin s3.flags /\ "root" \in s3.flags
    BY <1>0, <1>6, <2>1
  <2>6. r \in Dev /\ SameState(s, r) /\ r.bad = s.bad /\ r.log = s.log
    BY <1>0, <2>0, <2>1, <2>3, <2>4, <2>5 DEF RevertedExceptRoot, SameState
  <2>7. u \in Dev /\ SameState(r, u) /\ u.err = TRUE /\ u.bad = r.bad /\ u.log = r.log
    BY <1>6, <2>6, RefuseIs DEF r
  <2> HIDE DEF u
  <2>8. Running(r, o)
    BY <2>6, RunningFrame
  <2>9. Running(u, o)
    BY <2>7, <2>8, RunningFrame
  <2>10. AddAnswer(u, s.bad) = u
    BY <2>7, AddAnswerIs
  <2> QED
    BY <2>6, <2>7, <2>9, <2>10
<1>7. ASSUME u = Ok(s4), "root" \in s.flags, ~refused, ChainIsGood(s, i, noc)
      PROVE  Goal(u)
  <2> HIDE DEF refused
  <2>0. /\ s.pidx = i /\ i \in Index /\ s.certs.idx = i /\ s.certs.flags = {"root"}
        /\ s.certs.noc = None /\ s.certs.icac = None /\ s.certs.rcac \in Fabrics /\ s.certs # NoCerts
        /\ i # Undefined
    BY <1>5, <1>7, NoneApart
  <2>1. s.ks.key # None
    BY <1>0, <2>0 DEF KeyPending, Early
  <2>2. s.ks.idx = i /\ s.ks.key = noc.key /\ s.certs.rcac = noc.fabric
    <3>1. s.certs.rcac # None
      BY <2>0, NoneApart
    <3> QED
      BY <1>7, <2>0, <2>1, <3>1 DEF ChainIsGood, GetCertificate
  <2>3. k \in Keypair /\ k = [idx |-> i, key |-> noc.key, active |-> TRUE]
    <3>2. s.ks.active \in BOOLEAN
      BY <1>1 DEF Keypair
    <3>3. (s.ks.active \/ s.ks.key # None) = TRUE
      BY <2>1, <3>2
    <3>4. k = [s.ks EXCEPT !.active = TRUE]
      BY <3>3
    <3> HIDE DEF k
    <3>5. k = [idx |-> s.ks.idx, key |-> s.ks.key, active |-> TRUE]
      BY <1>1, <3>4 DEF Keypair
    <3> QED
      BY <1>1, <2>2, <3>5 DEF Keypair
  <2>4. e \in Entry /\ e # None /\ Identity(e) = noc
    <3>1. "" \in Labels
      BY FabricAssumption, Zenon
    <3>2. e \in Entry /\ Identity(e) = noc
      BY <1>1, <3>1 DEF Entry, Identity, NOC
    <3> QED
      BY <3>2, NoneApart
  <2> HIDE DEF e
  <2>5. tab \in [Index -> Entry \cup {None}] /\ tab[i] = e /\ \A j \in Index \ {i} : tab[j] = s.table[j]
    BY <1>1, <2>0, <2>4
  <2>6. /\ fl \in SUBSET Flags /\ {"add", "data", "root", "key"} \subseteq fl /\ "update" \notin fl
        /\ fl \ {"add", "update"} = s.flags \cup {"data"}
    BY <1>0, <1>1, <1>7 DEF Flags
  <2> HIDE DEF k, tab, fl, i
  <2>7. /\ s4 \in Dev /\ s4.certs = c /\ s4.table = tab /\ s4.count = s.count + 1 /\ s4.next = s.next
        /\ s4.disk = s.disk /\ s4.pend = s.pend /\ s4.pidx = i /\ s4.flags = fl /\ s4.ks = k
        /\ s4.fs = s.fs /\ s4.work = s.work /\ s4.bad = s.bad /\ s4.log = s.log
    <3>1. i \in AnyIndex /\ n \in Nat
      BY <1>1, <2>0, NoneApart
    <3>2. /\ s2 \in Dev /\ s2.certs = c /\ s2.next = s.next /\ s2.disk = s.disk /\ s2.pend = s.pend
          /\ s2.fs = s.fs /\ s2.work = s.work /\ s2.bad = s.bad /\ s2.log = s.log
      BY <1>3 DEF Dev
    <3> HIDE DEF s2
    <3>3. /\ s4 \in Dev /\ s4.table = tab /\ s4.count = n /\ s4.pidx = i /\ s4.flags = fl /\ s4.ks = k
      <4> HIDE DEF n
      <4> QED
        BY <2>3, <2>5, <2>6, <3>1, <3>2 DEF Dev
    <3>4. /\ s4.certs = c /\ s4.next = s.next /\ s4.disk = s.disk /\ s4.pend = s.pend
          /\ s4.fs = s.fs /\ s4.work = s.work /\ s4.bad = s.bad /\ s4.log = s.log
      BY <3>2 DEF Dev
    <3> QED
      BY <3>3, <3>4
  <2> HIDE DEF s4
  <2>8. u \in Dev /\ SameState(s4, u) /\ u.err = FALSE /\ u.bad = s.bad /\ u.log = s.log
    BY <1>7, <2>7, RefuseIs
  <2> HIDE DEF u
  <2>9. /\ u.certs = c /\ u.table = tab /\ u.count = s.count + 1 /\ u.next = i
        /\ u.disk = s.disk /\ u.pend = None /\ u.pidx = i /\ u.flags = fl /\ u.ks = k
        /\ u.fs = s.fs /\ u.work = s.work
    BY <1>0, <2>7, <2>8 DEF SameState, i
  <2>10. InUse(u) = InUse(s) \cup {i} /\ i \notin InUse(s) /\ PendingOf(u) = i
    BY <1>0, <2>0, <2>4, <2>5, <2>6, <2>9 DEF InUse, PendingOf, i
  <2>11. Agree(u, i, o)
    <3>1. Cardinality(InUse(u)) = Cardinality(InUse(s)) + 1
      <4>1. IsFiniteSet(InUse(s))
        BY IndexIsFinite, FS_Subset DEF InUse
      <4> DEFINE T == InUse(s)
      <4> HIDE DEF T
      <4>2. IsFiniteSet(T)
        BY <4>1 DEF T
      <4>3. Cardinality(T \cup {i}) = IF i \in T THEN Cardinality(T) ELSE Cardinality(T) + 1
        BY <4>2, FS_AddElement
      <4>4. InUse(u) = T \cup {i} /\ i \notin T
        BY <2>10 DEF T
      <4> QED
        BY <4>3, <4>4 DEF T
    <3>2. InUse(u) \ {i} = InUse(s) /\ InUse(s) \ {Undefined} = InUse(s) /\ InUse(s) \subseteq Index
      BY <1>0, <2>10 DEF InUse
    <3>3. \A j \in InUse(s) : u.table[j] = s.table[j]
      BY <2>5, <2>9, <2>10, <3>2
    <3>4. \A j \in InUse(s) : Kept(u, j)
      BY <1>0, <2>9, <3>2, <3>3 DEF Agree, Kept
    <3>5. \A j \in Index \ {i} : Loads(u.disk, j) => j \in InUse(u)
      BY <1>0, <2>9, <2>10, <3>2, NoneApart DEF Agree
    <3>6. \A j \in Index : \/ o[j] = Unsure
                           \/ o[j] = IF j \in InUse(u) \ {i} THEN Identity(u.table[j]) ELSE None
      BY <1>0, <3>2, <3>3 DEF Agree
    <3> QED
      BY <1>0, <2>0, <2>9, <3>1, <3>2, <3>4, <3>5, <3>6 DEF Agree
  <2>12. ~Loads(u.disk, i)
    BY <1>0, <2>0, <2>9, <2>10, NoneApart DEF Agree
  <2>13. Settles(u, o)
    BY <2>0, <2>9, <2>10, <2>11, <2>12 DEF Settles
  <2>14. CASE "acl" \in s.bad
    <3> DEFINE r == RevertPendingOpCertsExceptRoot(u)
               d == CertsExceptRootReverted(c)
    <3>1. AddAnswer(u, s.bad) = r
      BY <2>8, <2>14, AddAnswerIs
    <3>2. RevertedExceptRoot(u, r, d) /\ Agree(r, Undefined, o)
      BY <2>8, <2>9, <2>13, RevertExceptRootIs
    <3>3. d.rcac # None
      BY <1>3, <2>0, ExceptRoot, NoneApart
    <3> HIDE DEF r, d
    <3>4. /\ r \in Dev /\ r.bad = s.bad /\ r.fs = s.fs /\ r.work = s.work /\ r.pend = None
          /\ r.flags = s.flags \cup {"data"} /\ r.certs = NoCerts /\ r.table = [tab EXCEPT ![i] = None]
      BY <2>6, <2>8, <2>9, <3>2, <3>3 DEF RevertedExceptRoot
    <3>5. r.ks = NoKey
      <4>1. u.ks.idx = i
        BY <2>3, <2>9
      <4> QED
        BY <2>6, <2>9, <3>2, <4>1 DEF RevertedExceptRoot, KeyAfter
    <3>6. /\ "add" \notin r.flags /\ "update" \notin r.flags /\ "root" \in r.flags
          /\ PendingOf(r) = Undefined /\ ~(r.flags \subseteq {"keyForUpdate"})
      BY <1>0, <1>7, <3>4 DEF PendingOf
    <3>7. r.ks.idx = Undefined /\ r.ks.key = None /\ r.ks.active = FALSE /\ Undefined \notin InUse(r)
      BY <3>5, NoneApart DEF NoKey, InUse
    <3>8. Settles(r, o)
      BY <3>2, <3>6 DEF Settles
    <3>9. AddPending(r) /\ UpdatePending(r) /\ NotYetPending(r)
      BY <3>4, <3>6, <3>7 DEF AddPending, UpdatePending, NotYetPending
    <3>10. KeyPending(r)
      BY <3>4, <3>6, <3>7 DEF KeyPending
    <3>11. Guarded(r)
      BY <1>0, <3>4, <3>6 DEF Guarded, Early, NocInvoked
    <3>12. Scheduled(r)
      BY <1>0, <3>4 DEF Running, Scheduled
    <3>13. Running(r, o)
      BY <3>8, <3>9, <3>10, <3>11, <3>12 DEF Running, Pending
    <3> QED
      BY <2>14, <3>1, <3>4, <3>13
  <2>15. CASE "acl" \notin s.bad
    <3> DEFINE f == AddedFs(u)
               t == [u EXCEPT !.fs = f]
    <3>1. /\ AddAnswer(u, s.bad) = t /\ f \in FailSafe /\ f.add = TRUE /\ f.idx = i
          /\ f.armed = s.fs.armed /\ f.busy = s.fs.busy /\ f.upd = s.fs.upd
      BY <2>8, <2>9, <2>15, AddAnswerIs
    <3> HIDE DEF f
    <3>2. SameData(u, t) /\ t.fs = f /\ t.work = u.work /\ t.bad = u.bad /\ t.log = u.log
      BY <2>8, <3>1, WithFs
    <3> HIDE DEF t
    <3>3. /\ t \in Dev /\ t.certs = c /\ t.table = tab /\ t.count = u.count /\ t.next = i
          /\ t.disk = u.disk /\ t.pend = None /\ t.pidx = i /\ t.flags = fl /\ t.ks = k
          /\ t.work = s.work
      BY <2>9, <3>2 DEF SameData
    <3>4. InUse(t) = InUse(u) /\ PendingOf(t) = i
      BY <2>6, <2>9, <3>3 DEF InUse, PendingOf
    <3>5. Settles(t, o)
      <4>1. Agree(t, i, o)
        BY <2>9, <2>11, <3>3, AgreeFrame
      <4> QED
        BY <2>0, <2>12, <3>3, <3>4, <4>1 DEF Settles
    <3>6. AddPending(t)
      <4>1. {"data", "root"} \subseteq t.flags /\ "update" \notin t.flags /\ t.table[t.pidx] = e
        BY <2>5, <2>6, <3>3
      <4>2. t.certs.idx = i /\ t.certs.noc = noc /\ t.certs.rcac = noc.fabric /\ t.certs.icac = icac
        BY <1>3, <2>0, <2>2, <3>3
      <4>3. t.certs.flags = {"root", "add"}
        BY <1>3, <2>0, <3>3
      <4>4. t.ks = [idx |-> i, key |-> noc.key, active |-> TRUE]
        BY <2>3, <3>3
      <4> QED
        BY <2>4, <3>3, <4>1, <4>2, <4>3, <4>4 DEF AddPending
    <3>7. UpdatePending(t) /\ NotYetPending(t)
      BY <2>6, <3>3 DEF UpdatePending, NotYetPending
    <3>8. KeyPending(t)
      <4>1. t.ks.idx = i /\ t.ks.key = noc.key /\ i # Undefined /\ noc.key # None
        BY <1>1, <2>0, <2>3, <3>3, NoneApart
      <4>2. "key" \in t.flags /\ ~(t.flags \subseteq {"keyForUpdate"})
        BY <2>6, <3>3
      <4> QED
        BY <3>1, <3>2, <4>1, <4>2 DEF KeyPending
    <3>9. Guarded(t)
      BY <1>0, <2>6, <3>1, <3>2, <3>3 DEF Guarded, Early, NocInvoked
    <3>10. Scheduled(t)
      BY <1>0, <3>1, <3>2, <3>3 DEF Running, Scheduled
    <3>11. Running(t, o)
      BY <3>5, <3>6, <3>7, <3>8, <3>9, <3>10 DEF Running, Pending
    <3> QED
      BY <2>8, <3>1, <3>2, <3>3, <3>11
  <2> QED
    BY <2>14, <2>15
<1>8. \/ u = Refuse(s)
      \/ u = Refuse(RevertPendingOpCertsExceptRoot(s3)) /\ "root" \in s.flags /\ ~refused
      \/ u = Ok(s4) /\ "root" \in s.flags /\ ~refused /\ ChainIsGood(s, i, noc)
  <2>1. "root" \in s.flags /\ ~refused => CanSetPending(s, i)
    BY <1>5 DEF CanSetPending
  <2> HIDE DEF u, s2, s3, s4, refused
  <2> QED
    BY <1>2, <2>1
<1>9. Goal(u)
  <2> HIDE DEF u, s2, s3, s4, refused, Goal
  <2> QED
    BY <1>4, <1>6, <1>7, <1>8
<1> QED
  BY <1>9

LEMMA AddNOCStep ==
    ASSUME Orderly, FabricInv, AddNOC
    PROVE  FabricInv'
<1>1. /\ dev \in Dev /\ Running(dev, owed) /\ dev.log = <<>> /\ keys \in Nat /\ keys' = keys
      /\ owed \in [Index -> NOC \cup {None, Unsure}] /\ owed' = owed
  BY UpIs DEF AddNOC
<1>2. PICK a \in Sessions, noc \in NOCs, bad \in FaultChoices : \E icac \in ICACs(noc) :
        LET t == AddAnswer(AddNewPendingFabricCommon(Begin(bad), noc, icac), bad)
        IN  /\ ArmedFor(a) /\ ~NocInvoked(dev)
            /\ "key" \in dev.flags /\ "keyForUpdate" \notin dev.flags /\ dev.fs.root
            /\ CountFault(bad)
            /\ Completes(t) \/ PowerFailsIn(t)
  BY DEF AddNOC, AddAnswer
<1>3. bad \in SUBSET Parts /\ OneFault(bad)
  BY OrderlyFaults
<1> DEFINE s == Begin(bad)
<1>4. s \in Dev /\ SameState(dev, s) /\ s.bad = bad /\ s.log = <<>>
  BY <1>1, <1>3, BeginIs
<1>5. PICK icac \in ICACs(noc) :
        LET t == AddAnswer(AddNewPendingFabricCommon(s, noc, icac), bad)
        IN  /\ ArmedFor(a) /\ ~NocInvoked(dev) /\ "key" \in dev.flags
            /\ Completes(t) \/ PowerFailsIn(t)
  BY <1>2
<1> HIDE DEF s
<1> DEFINE t == AddAnswer(AddNewPendingFabricCommon(s, noc, icac), bad)
<1>6. Running(s, owed) /\ InUse(s) = InUse(dev) /\ s.fs = dev.fs /\ s.flags = dev.flags
  BY <1>1, <1>4, RunningFrame DEF SameState, InUse
<1>7. /\ Early(s) /\ s.fs.idx \in {PASE} \cup InUse(s) /\ "key" \in s.flags
      /\ noc \in NOC /\ icac \in {None, noc.key}
  BY <1>1, <1>5, <1>6 DEF Sessions, ArmedFor, Early, NocInvoked, NOCs, NOC, ICACs
<1>8. t \in Dev /\ Running(t, owed) /\ t.bad = bad /\ (bad = {} => t.log = <<>>)
  BY <1>3, <1>4, <1>6, <1>7, AddRuns
<1>10. Completes(t) \/ PowerFailsIn(t)
  BY <1>5
<1> HIDE DEF t
<1>11. t.bad = {} => Logged(t, owed')
  BY <1>8 DEF Logged
<1> QED
  BY <1>1, <1>8, <1>10, <1>11, CompletesInv, PowerFailsInInv

----------------------------------------------------------------------------
(* CommissioningComplete.  While the marker condemns fabric i, its pieces  *)
(* may be written in any order.                                            *)

\* t is s but for the pieces of fabric i, the pending key and certificates
\* and the result; u says what is owed, i set aside.
Touched(s, t, i, u) ==
    /\ t \in Dev
    /\ t.bad = s.bad /\ t.table = s.table /\ t.count = s.count /\ t.next = s.next
    /\ t.pend = s.pend /\ t.pidx = s.pidx /\ t.flags = s.flags /\ t.fs = s.fs /\ t.work = s.work
    /\ t.disk.index = s.disk.index /\ t.disk.marker = s.disk.marker
    /\ \A j \in Index \ {i} : SamePieces(s.disk, t.disk, j)
    /\ i = s.disk.marker /\ Logged(s, u) /\ Restartable(s.disk, u)
            => Logged(t, u) /\ Restartable(t.disk, u)

LEMMA TouchedTrans ==
    ASSUME NEW r, NEW s, NEW t, NEW i, NEW u, Touched(r, s, i, u), Touched(s, t, i, u)
    PROVE  Touched(r, t, i, u)
<1>1. \A j \in Index \ {i} : SamePieces(r.disk, t.disk, j)
  BY DEF Touched, SamePieces
<1> QED
  BY <1>1 DEF Touched

LEMMA WriteTouches ==
    ASSUME NEW s \in Dev, NEW part \in Pieces, NEW i \in Index,
           NEW v \in Piece(part) \cup {None}, NEW u
    PROVE  LET t == Write(s, part, i, v)
           IN  /\ Touched(s, t, i, u) /\ t.certs = s.certs /\ t.ks = s.ks /\ t.err = s.err
               /\ t.disk[part][i] = IF part \in s.bad THEN s.disk[part][i] ELSE v
               /\ \A q \in Pieces \ {part} : t.disk[q][i] = s.disk[q][i]
<1> DEFINE t == Write(s, part, i, v)
<1>1. Writes(s, t, part, i, v) /\ t \in Dev
  BY WriteIs
<1> HIDE DEF t
<1>2. /\ \A j \in Index \ {i} : SamePieces(s.disk, t.disk, j)
      /\ t.disk[part][i] = IF part \in s.bad THEN s.disk[part][i] ELSE v
      /\ \A q \in Pieces \ {part} : t.disk[q][i] = s.disk[q][i]
  BY <1>1, WritesElsewhere
<1>3. i = s.disk.marker /\ Logged(s, u) /\ Restartable(s.disk, u)
            => Logged(t, u) /\ Restartable(t.disk, u)
  BY <1>1, WritesSafely
<1>4. Touched(s, t, i, u)
  BY <1>1, <1>2, <1>3 DEF Touched, Writes, SameMemory
<1> QED
  BY <1>1, <1>2, <1>4 DEF Writes, SameMemory, t

(* The pending key, the pending certificates and the result.               *)
LEMMA MemoryTouches ==
    ASSUME NEW s \in Dev, NEW t \in Dev, NEW i, NEW u,
           t.bad = s.bad, t.table = s.table, t.count = s.count, t.next = s.next, t.pend = s.pend,
           t.pidx = s.pidx, t.flags = s.flags, t.fs = s.fs, t.work = s.work, t.disk = s.disk,
           t.log = s.log
    PROVE  Touched(s, t, i, u)
BY DEF Touched, SamePieces, Logged

(* The table and the disk still agree but for i.                           *)
LEMMA TouchedAgrees ==
    ASSUME NEW s \in Dev, NEW t \in Dev, NEW i \in Index, NEW u, Touched(s, t, i, u), Agree(s, i, u)
    PROVE  Agree(t, i, u)
<1>1. InUse(t) = InUse(s) /\ t.table = s.table /\ InUse(s) \subseteq Index
  BY DEF Touched, InUse
<1>2. \A j \in Index \ {i} : /\ Loads(t.disk, j) <=> Loads(s.disk, j)
                             /\ Whole(t.disk, j) <=> Whole(s.disk, j)
                             /\ t.disk.noc[j] = s.disk.noc[j]
  BY DEF Touched, SamePieces, Pieces, Loads, Whole
<1>3. \A j \in InUse(t) \ {i} : Kept(t, j)
  BY <1>1, <1>2 DEF Agree, Kept, Touched
<1> QED
  BY <1>1, <1>2, <1>3 DEF Agree, Touched, IndexApart

\* What a commit makes of the pending key of fabric i.
LEMMA CommitKeyIs ==
    ASSUME NEW s \in Dev, NEW i \in Index, NEW u,
           s.ks.idx = i, s.ks.active = TRUE, s.ks.key \in Nat
    PROVE  LET t == CommitOpKeypairForFabric(s, i)
           IN  /\ Touched(s, t, i, u) /\ t.certs = s.certs
               /\ t.err = FALSE <=> "key" \notin s.bad
               /\ t.err = FALSE => t.ks = NoKey /\ t.disk.key[i] = s.ks.key
               /\ \A q \in Pieces \ {"key"} : t.disk[q][i] = s.disk[q][i]
<1> DEFINE key == s.ks.key
           w == Write(s, "key", i, key)
           t == CommitOpKeypairForFabric(s, i)
<1>0. s.ks.idx = i /\ s.ks.active = TRUE /\ s.ks.key = key /\ key \in Nat
  OBVIOUS
<1> HIDE DEF key
<1>1. "key" \in Pieces /\ key \in Piece("key") \cup {None}
  BY <1>0 DEF Pieces, Piece
<1>2. /\ Touched(s, w, i, u) /\ w.certs = s.certs
      /\ w.disk.key[i] = IF "key" \in s.bad THEN s.disk.key[i] ELSE key
      /\ \A q \in Pieces \ {"key"} : w.disk[q][i] = s.disk[q][i]
  BY <1>1, WriteTouches
<1>3. CASE "key" \notin s.bad
  <2>1. t = [w EXCEPT !.ks = NoKey, !.err = FALSE]
    BY <1>0, <1>3 DEF CommitOpKeypairForFabric
  <2> HIDE DEF t, w
  <2>2. w \in Dev
    BY <1>2 DEF Touched
  <2>3. /\ t \in Dev /\ t.ks = NoKey /\ t.err = FALSE /\ t.certs = w.certs /\ t.disk = w.disk /\ t.log = w.log
        /\ t.bad = w.bad /\ t.table = w.table /\ t.count = w.count /\ t.next = w.next /\ t.pend = w.pend
        /\ t.pidx = w.pidx /\ t.flags = w.flags /\ t.fs = w.fs /\ t.work = w.work
    BY <2>1, <2>2, Initials DEF Dev
  <2>4. Touched(w, t, i, u)
    BY <2>2, <2>3, MemoryTouches
  <2>5. Touched(s, t, i, u)
    BY <1>2, <2>4, TouchedTrans
  <2> QED
    BY <1>0, <1>2, <1>3, <2>3, <2>5 DEF t
<1>4. CASE "key" \in s.bad
  <2>1. t = [s EXCEPT !.err = TRUE]
    BY <1>4 DEF CommitOpKeypairForFabric
  <2> HIDE DEF t
  <2>3. /\ t \in Dev /\ t.err = TRUE /\ t.certs = s.certs /\ t.disk = s.disk /\ t.log = s.log
        /\ t.bad = s.bad /\ t.table = s.table /\ t.count = s.count /\ t.next = s.next /\ t.pend = s.pend
        /\ t.pidx = s.pidx /\ t.flags = s.flags /\ t.fs = s.fs /\ t.work = s.work
    BY <2>1 DEF Dev
  <2>4. Touched(s, t, i, u)
    BY <2>3, MemoryTouches
  <2> QED
    BY <1>4, <2>3, <2>4 DEF t
<1> QED
  BY <1>3, <1>4

\* What a commit makes of the pending certificates of fabric i.
CertsCommitted(s, t, i, u) ==
    /\ Touched(s, t, i, u) /\ t.ks = s.ks
    /\ s.bad = {} => t.err = FALSE
    /\ t.err = FALSE =>
        /\ t.certs = NoCerts
        /\ t.disk.noc[i] = s.certs.noc /\ t.disk.icac[i] = s.certs.icac
        /\ t.disk.rcac[i] = IF "root" \in s.certs.flags THEN s.certs.rcac ELSE s.disk.rcac[i]
        /\ t.disk.meta[i] = s.disk.meta[i] /\ t.disk.key[i] = s.disk.key[i]

LEMMA CommitCertsIs ==
    ASSUME NEW s \in Dev, NEW i \in Index, NEW u, s.certs.idx = i, s.certs.noc # None
    PROVE  CertsCommitted(s, CommitOpCertsForFabric(s, i), i, u)
<1> DEFINE c == s.certs
           root == "root" \in c.flags
           add == "add" \in c.flags
           a == Write(s, "noc", i, c.noc)
           b == Write(a, "icac", i, c.icac)
           r == Write(b, "rcac", i, c.rcac)
           s2 == IF root THEN r ELSE b
           x == Erase(s2, "noc", i)
           y == Erase(x, "icac", i)
           s3 == IF add THEN y ELSE s2
           z == Erase(s3, "rcac", i)
           s4 == IF root THEN z ELSE s3
           failed == s.bad \cap ({"noc", "icac"} \cup IF root THEN {"rcac"} ELSE {}) # {}
           good == [s2 EXCEPT !.certs = NoCerts, !.err = FALSE]
           fail == [s4 EXCEPT !.err = TRUE]
           t == CommitOpCertsForFabric(s, i)
<1>0. t = IF ~failed THEN good ELSE fail
  BY ZenonT(60) DEF CommitOpCertsForFabric
<1>1. /\ Pieces = {"meta", "key", "noc", "icac", "rcac"} /\ \A q \in Pieces : None \in Piece(q) \cup {None}
      /\ c.noc \in Piece("noc") \cup {None} /\ c.icac \in Piece("icac") \cup {None}
      /\ c.rcac \in Piece("rcac") \cup {None}
  BY DEF Pieces, Piece, Dev, Certs
<1> HIDE DEF t
<1>2. /\ Touched(s, a, i, u) /\ a.ks = s.ks
      /\ a.disk.noc[i] = IF "noc" \in s.bad THEN s.disk.noc[i] ELSE c.noc
      /\ \A q \in Pieces \ {"noc"} : a.disk[q][i] = s.disk[q][i]
  BY <1>1, WriteTouches
<1> HIDE DEF a
<1>3. a \in Dev /\ a.bad = s.bad
  BY <1>2 DEF Touched
<1>4. /\ Touched(a, b, i, u) /\ b.ks = a.ks
      /\ b.disk.icac[i] = IF "icac" \in a.bad THEN a.disk.icac[i] ELSE c.icac
      /\ \A q \in Pieces \ {"icac"} : b.disk[q][i] = a.disk[q][i]
  <2> DEFINE v == c.icac
  <2>1. "icac" \in Pieces /\ v \in Piece("icac") \cup {None}
    BY <1>1
  <2> HIDE DEF v
  <2> QED
    BY <1>3, <2>1, WriteTouches DEF v
<1> HIDE DEF b
<1>5. b \in Dev /\ b.bad = s.bad
  BY <1>3, <1>4 DEF Touched
<1>6. /\ Touched(b, r, i, u) /\ r.ks = b.ks
      /\ r.disk.rcac[i] = IF "rcac" \in b.bad THEN b.disk.rcac[i] ELSE c.rcac
      /\ \A q \in Pieces \ {"rcac"} : r.disk[q][i] = b.disk[q][i]
  BY <1>1, <1>5, WriteTouches
<1> HIDE DEF r
<1>7. Touched(s, b, i, u)
  BY <1>2, <1>4, TouchedTrans
<1>8. Touched(s, s2, i, u) /\ s2.ks = s.ks
  <2>1. Touched(s, r, i, u)
    BY <1>6, <1>7, TouchedTrans
  <2> QED
    BY <1>2, <1>4, <1>6, <1>7, <2>1
<1>9. s2 \in Dev
  BY <1>8 DEF Touched
<1>10. ~failed => /\ s2.disk.noc[i] = c.noc /\ s2.disk.icac[i] = c.icac
                  /\ s2.disk.rcac[i] = IF root THEN c.rcac ELSE s.disk.rcac[i]
                  /\ s2.disk.meta[i] = s.disk.meta[i] /\ s2.disk.key[i] = s.disk.key[i]
  <2> SUFFICES ASSUME ~failed
               PROVE  /\ s2.disk.noc[i] = c.noc /\ s2.disk.icac[i] = c.icac
                      /\ s2.disk.rcac[i] = IF root THEN c.rcac ELSE s.disk.rcac[i]
                      /\ s2.disk.meta[i] = s.disk.meta[i] /\ s2.disk.key[i] = s.disk.key[i]
    OBVIOUS
  <2>1. "noc" \notin s.bad /\ "icac" \notin s.bad /\ (root => "rcac" \notin s.bad)
    OBVIOUS
  <2>2. /\ b.disk.noc[i] = c.noc /\ b.disk.icac[i] = c.icac /\ b.disk.rcac[i] = s.disk.rcac[i]
        /\ b.disk.meta[i] = s.disk.meta[i] /\ b.disk.key[i] = s.disk.key[i]
    BY <1>1, <1>2, <1>3, <1>4, <2>1
  <2>3. CASE root
    <3>1. /\ r.disk.noc[i] = b.disk.noc[i] /\ r.disk.icac[i] = b.disk.icac[i] /\ r.disk.rcac[i] = c.rcac
          /\ r.disk.meta[i] = b.disk.meta[i] /\ r.disk.key[i] = b.disk.key[i]
      BY <1>1, <1>5, <1>6, <2>1, <2>3
    <3> QED
      BY <2>2, <2>3, <3>1
  <2>4. CASE ~root
    BY <2>2, <2>4
  <2> QED
    BY <2>3, <2>4
<1> HIDE DEF s2
<1>11. CASE ~failed
  <2>1. t = good
    BY <1>0, <1>11
  <2>2. /\ good \in Dev /\ good.certs = NoCerts /\ good.err = FALSE /\ good.ks = s2.ks /\ good.disk = s2.disk
        /\ good.log = s2.log /\ good.bad = s2.bad /\ good.table = s2.table /\ good.count = s2.count
        /\ good.next = s2.next /\ good.pend = s2.pend
        /\ good.pidx = s2.pidx /\ good.flags = s2.flags /\ good.fs = s2.fs /\ good.work = s2.work
    BY <1>9, Initials DEF Dev
  <2> HIDE DEF good
  <2>3. Touched(s2, good, i, u)
    BY <1>9, <2>2, MemoryTouches
  <2>4. Touched(s, good, i, u)
    BY <1>8, <2>3, TouchedTrans
  <2> QED
    BY <1>8, <1>10, <1>11, <2>1, <2>2, <2>4 DEF t, CertsCommitted
<1>12. CASE failed
  <2>1. t = fail
    BY <1>0, <1>12
  <2>2. Touched(s2, x, i, u) /\ x.ks = s2.ks
    BY <1>1, <1>9, WriteTouches DEF Erase
  <2> HIDE DEF x
  <2>3. x \in Dev
    BY <2>2 DEF Touched
  <2>4. Touched(x, y, i, u) /\ y.ks = x.ks
    BY <1>1, <2>3, WriteTouches DEF Erase
  <2> HIDE DEF y
  <2>5. Touched(s2, y, i, u)
    BY <2>2, <2>4, TouchedTrans
  <2>6. Touched(s, s3, i, u) /\ s3.ks = s.ks
    <3>1. Touched(s, y, i, u)
      BY <1>8, <2>5, TouchedTrans
    <3> QED
      BY <1>8, <2>2, <2>4, <3>1
  <2> HIDE DEF s3
  <2>7. s3 \in Dev
    BY <2>6 DEF Touched
  <2>8. Touched(s3, z, i, u) /\ z.ks = s3.ks
    BY <1>1, <2>7, WriteTouches DEF Erase
  <2> HIDE DEF z
  <2>9. Touched(s, s4, i, u) /\ s4.ks = s.ks
    <3>1. Touched(s, z, i, u)
      BY <2>6, <2>8, TouchedTrans
    <3> QED
      BY <2>6, <2>8, <3>1
  <2> HIDE DEF s4
  <2>10. s4 \in Dev
    BY <2>9 DEF Touched
  <2>11. /\ fail \in Dev /\ fail.err = TRUE /\ fail.ks = s4.ks /\ fail.disk = s4.disk
         /\ fail.log = s4.log /\ fail.bad = s4.bad /\ fail.table = s4.table /\ fail.count = s4.count
         /\ fail.next = s4.next /\ fail.pend = s4.pend
         /\ fail.pidx = s4.pidx /\ fail.flags = s4.flags /\ fail.fs = s4.fs /\ fail.work = s4.work
    BY <2>10 DEF Dev
  <2> HIDE DEF fail
  <2>12. Touched(s4, fail, i, u)
    BY <2>10, <2>11, MemoryTouches
  <2>13. Touched(s, fail, i, u)
    BY <2>9, <2>12, TouchedTrans
  <2>14. s.bad # {}
    BY <1>12
  <2> QED
    BY <2>1, <2>9, <2>11, <2>13, <2>14 DEF t, CertsCommitted
<1> QED
  BY <1>11, <1>12

(* The marker is stored before anything else.                              *)
LEMMA MarkIs ==
    ASSUME NEW s \in Dev, NEW i \in Index, NEW u, Agree(s, i, u)
    PROVE  LET t == StoreCommitMarker(s, i)
           IN  /\ SameMemory(s, t) /\ Agree(t, i, u) /\ t.disk.index = s.disk.index
               /\ \A q \in Pieces : t.disk[q] = s.disk[q]
               /\ "marker" \notin s.bad => t.disk.marker = i
               /\ s.bad = {} /\ u[i] = Unsure /\ Logged(s, u) /\ Restartable(s.disk, u)
                    => Logged(t, u) /\ Restartable(t.disk, u)
<1> DEFINE d == PutMarker(s.disk, i)
           t == StoreCommitMarker(s, i)
<1>1. s.disk \in Disk /\ "marker" \in Parts /\ i \in AnyIndex
  BY NoneApart DEF Dev, Parts
<1>2. /\ d \in Disk /\ d.index = s.disk.index /\ d.marker = i
      /\ d.meta = s.disk.meta /\ d.key = s.disk.key /\ d.noc = s.disk.noc /\ d.icac = s.disk.icac
      /\ d.rcac = s.disk.rcac
  BY <1>1, MarkerPut
<1>3. t = Store(s, "marker", d)
  BY DEF StoreCommitMarker, PutMarker
<1>4. s.bad = {} /\ u[i] = Unsure /\ Logged(s, u) /\ Restartable(s.disk, u) => Restartable(d, u)
  <2>1. s.disk.marker = Undefined \/ s.disk.marker = i \/ ~Loads(s.disk, s.disk.marker)
    <3>1. s.disk.marker \in AnyIndex
      BY <1>1 DEF Disk
    <3>2. \A j \in Index \ {i} : Loads(s.disk, j) => j # s.disk.marker
      BY DEF Agree, Kept
    <3> QED
      BY <3>1, <3>2, Defined
  <2> QED
    BY <1>1, <2>1, RestartableMarker
<1> HIDE DEF d
<1>5. Stores(s, t, "marker", d)
  BY <1>1, <1>2, <1>3, StoreIs
<1> HIDE DEF t
<1>6. SameMemory(s, t) /\ t \in Dev
  BY <1>5 DEF Stores, SameMemory
<1>7. /\ "marker" \in s.bad => t = s
      /\ "marker" \notin s.bad => t.disk = d /\ t.log = Append(s.log, s.disk)
  BY <1>5 DEF Stores
<1>8. /\ t.disk.index = s.disk.index /\ t.disk.meta = s.disk.meta /\ t.disk.key = s.disk.key
      /\ t.disk.noc = s.disk.noc /\ t.disk.icac = s.disk.icac /\ t.disk.rcac = s.disk.rcac
      /\ t.disk.marker \in {s.disk.marker, i}
  BY <1>2, <1>7
<1>9. \A q \in Pieces : t.disk[q] = s.disk[q]
  BY <1>8 DEF Pieces
<1>10. Agree(t, i, u)
  <2>1. InUse(t) = InUse(s) /\ t.table = s.table /\ t.count = s.count /\ t.next = s.next
    BY <1>6 DEF SameMemory, InUse
  <2>2. \A j \in Index : Loads(t.disk, j) <=> Loads(s.disk, j)
    BY <1>8 DEF Loads
  <2>3. \A j \in InUse(s) \ {i} : Kept(s, j) => Kept(t, j)
    BY <1>8, <2>1 DEF Kept, Whole
  <2> QED
    BY <1>8, <2>1, <2>2, <2>3 DEF Agree, IndexApart
<1>11. s.bad = {} /\ u[i] = Unsure /\ Logged(s, u) /\ Restartable(s.disk, u)
          => Logged(t, u) /\ Restartable(t.disk, u)
  BY <1>4, <1>6, <1>7, LoggedGrows
<1> QED
  BY <1>2, <1>6, <1>7, <1>8, <1>9, <1>10, <1>11 DEF t

(* The entry of the fabric that is committed is set aside.                 *)
LEMMA EntryAside ==
    ASSUME NEW s \in Dev, NEW t \in Dev, NEW i \in InUse(s), NEW e \in Entry, NEW u, Agree(s, i, u),
           t.table = [s.table EXCEPT ![i] = e], t.count = s.count, t.next = s.next, t.disk = s.disk
    PROVE  Agree(t, i, u) /\ InUse(t) = InUse(s) /\ t.table[i] = e
<1>1. s.table \in [Index -> Entry \cup {None}] /\ i \in Index
  BY DEF Dev, InUse
<1>2. InUse(t) = InUse(s) /\ t.table[i] = e /\ \A j \in Index \ {i} : t.table[j] = s.table[j]
  BY <1>1, NoneApart DEF InUse
<1>3. InUse(s) \subseteq Index
  BY DEF InUse
<1>4. \A j \in InUse(s) \ {i} : Kept(s, j) => Kept(t, j)
  BY <1>2, <1>3 DEF Kept
<1> QED
  BY <1>2, <1>3, <1>4 DEF Agree

\* The states of a commit: metadata, key and certificates are written.
MetaOf(s, i)  == Write(s, "meta", i, s.table[i].label)
KeyOf(s, i)   == IF s.ks.key = None THEN Ok(s) ELSE CommitOpKeypairForFabric(s, i)
NoKeyIf(s)    == [s EXCEPT !.ks = IF s.err THEN NoKey ELSE @]
CertsOf(s, i) == CommitOpCertsForFabric(NoKeyIf(s), i)
NoCertsIf(s)  == [s EXCEPT !.certs = IF s.err THEN NoCerts ELSE @]

\* The pieces of fabric i are written: b is the result of storing the key,
\* c that of storing the certificates.
PiecesCommitted(s, b, c, t, i, u) ==
    /\ Touched(s, t, i, u) /\ t.ks = NoKey /\ t.certs = NoCerts
    /\ b.err \in BOOLEAN /\ c.err \in BOOLEAN
    /\ s.bad = {} => b.err = FALSE /\ c.err = FALSE
    /\ b.err = FALSE /\ c.err = FALSE /\ "meta" \notin s.bad =>
        /\ t.disk.meta[i] = s.table[i].label /\ t.disk.key[i] = s.ks.key
        /\ t.disk.noc[i] = s.certs.noc /\ t.disk.icac[i] = s.certs.icac
        /\ t.disk.rcac[i] = IF "root" \in s.certs.flags THEN s.certs.rcac ELSE s.disk.rcac[i]

LEMMA CommitPiecesAre ==
    ASSUME NEW s \in Dev, NEW i \in InUse(s), NEW u,
           s.ks.idx = i, s.ks.active = TRUE, s.ks.key \in Nat,
           s.certs.idx = i, s.certs.noc # None
    PROVE  LET b == KeyOf(MetaOf(s, i), i)
               c == CertsOf(b, i)
           IN  PiecesCommitted(s, b, c, NoCertsIf(c), i, u)
<1> DEFINE a == MetaOf(s, i)
           b == KeyOf(a, i)
           b1 == NoKeyIf(b)
           c == CertsOf(b, i)
           t == NoCertsIf(c)
<1> DEFINE key == s.ks.key
<1>0. i \in Index /\ s.table[i] \in Entry
  BY DEF InUse, Dev
<1>1. "meta" \in Pieces /\ s.table[i].label \in Piece("meta") \cup {None}
  BY <1>0 DEF Pieces, Piece, Entry
<1>2. /\ Touched(s, a, i, u) /\ a.ks = s.ks /\ a.certs = s.certs
      /\ a.disk.meta[i] = IF "meta" \in s.bad THEN s.disk.meta[i] ELSE s.table[i].label
      /\ \A q \in Pieces \ {"meta"} : a.disk[q][i] = s.disk[q][i]
  <2> DEFINE v == s.table[i].label
  <2>1. v \in Piece("meta") \cup {None}
    BY <1>1
  <2> HIDE DEF v
  <2> QED
    BY <1>0, <1>1, <2>1, WriteTouches DEF MetaOf, v
<1> HIDE DEF a
<1>3. a \in Dev /\ a.bad = s.bad /\ a.ks.idx = i /\ a.ks.active = TRUE /\ a.ks.key = key /\ key \in Nat
  BY <1>2 DEF Touched
<1>4. b = CommitOpKeypairForFabric(a, i)
  <2>1. a.ks.key # None
    BY <1>3, NoneApart
  <2> QED
    BY <2>1 DEF KeyOf
<1> HIDE DEF b
<1>5. /\ Touched(a, b, i, u) /\ b.certs = a.certs
      /\ b.err = FALSE <=> "key" \notin a.bad
      /\ b.err = FALSE => b.ks = NoKey /\ b.disk.key[i] = key
      /\ \A q \in Pieces \ {"key"} : b.disk[q][i] = a.disk[q][i]
  <2> DEFINE w == CommitOpKeypairForFabric(a, i)
  <2>0. a.ks.idx = i /\ a.ks.active = TRUE /\ a.ks.key \in Nat /\ a.ks.key = key
    BY <1>3
  <2>1. /\ Touched(a, w, i, u) /\ w.certs = a.certs
        /\ w.err = FALSE <=> "key" \notin a.bad
        /\ w.err = FALSE => w.ks = NoKey /\ w.disk.key[i] = a.ks.key
        /\ \A q \in Pieces \ {"key"} : w.disk[q][i] = a.disk[q][i]
    BY <1>0, <1>3, <2>0, CommitKeyIs
  <2> HIDE DEF w
  <2>2. b = w
    BY <1>4 DEF w
  <2> QED
    BY <2>0, <2>1, <2>2
<1>6. b \in Dev /\ b.bad = s.bad /\ b.err \in BOOLEAN
  BY <1>3, <1>5 DEF Touched, Dev
<1>7. /\ b1 \in Dev /\ b1.ks = NoKey /\ b1.certs = b.certs /\ b1.disk = b.disk /\ b1.bad = b.bad
      /\ Touched(b, b1, i, u)
  <2> DEFINE k == IF b.err THEN NoKey ELSE b.ks
  <2>1. k = NoKey
    BY <1>5, <1>6
  <2>2. b1 = [b EXCEPT !.ks = k]
    BY DEF NoKeyIf
  <2> HIDE DEF k, b1
  <2>3. /\ b1 \in Dev /\ b1.ks = k
        /\ b1.bad = b.bad /\ b1.err = b.err /\ b1.table = b.table /\ b1.count = b.count
        /\ b1.next = b.next /\ b1.pend = b.pend /\ b1.pidx = b.pidx /\ b1.flags = b.flags
        /\ b1.fs = b.fs /\ b1.work = b.work /\ b1.certs = b.certs
        /\ b1.disk = b.disk /\ b1.log = b.log
    BY <1>6, <2>1, <2>2, Initials, WithKey
  <2>4. Touched(b, b1, i, u)
    BY <1>6, <2>3, MemoryTouches
  <2> QED
    BY <2>1, <2>3, <2>4
<1>8. c = CommitOpCertsForFabric(b1, i)
  BY DEF CertsOf
<1> HIDE DEF b1, c
<1>9. b1.certs = s.certs
  BY <1>2, <1>5, <1>7
<1>10. /\ Touched(b1, c, i, u) /\ c.ks = b1.ks
       /\ b1.bad = {} => c.err = FALSE
       /\ c.err = FALSE =>
                    /\ c.certs = NoCerts
                    /\ c.disk.noc[i] = s.certs.noc /\ c.disk.icac[i] = s.certs.icac
                    /\ c.disk.rcac[i] = IF "root" \in s.certs.flags THEN s.certs.rcac ELSE b1.disk.rcac[i]
                    /\ c.disk.meta[i] = b1.disk.meta[i] /\ c.disk.key[i] = b1.disk.key[i]
  <2>1. b1.certs.idx = i /\ b1.certs.noc # None
    BY <1>9
  <2>2. CertsCommitted(b1, c, i, u)
    BY <1>0, <1>7, <1>8, <2>1, CommitCertsIs
  <2> QED
    BY <1>9, <2>2 DEF CertsCommitted
<1>11. c \in Dev /\ c.err \in BOOLEAN
  BY <1>10 DEF Touched, Dev
<1>12. t.certs = NoCerts /\ t.ks = c.ks /\ t.disk = c.disk /\ Touched(c, t, i, u)
  <2> DEFINE k == IF c.err THEN NoCerts ELSE c.certs
  <2>1. k = NoCerts
    BY <1>10, <1>11
  <2>2. t = [c EXCEPT !.certs = k]
    BY DEF NoCertsIf
  <2> HIDE DEF k, t
  <2>3. /\ t \in Dev /\ t.certs = k
        /\ t.bad = c.bad /\ t.err = c.err /\ t.table = c.table /\ t.count = c.count
        /\ t.next = c.next /\ t.pend = c.pend /\ t.pidx = c.pidx /\ t.flags = c.flags
        /\ t.fs = c.fs /\ t.work = c.work /\ t.ks = c.ks
        /\ t.disk = c.disk /\ t.log = c.log
    BY <1>11, <2>1, <2>2, Initials, WithCerts
  <2>4. Touched(c, t, i, u)
    BY <1>11, <2>3, MemoryTouches
  <2> QED
    BY <2>1, <2>3, <2>4
<1> HIDE DEF t
<1>13. Touched(s, t, i, u)
  <2>1. Touched(s, b, i, u)
    BY <1>2, <1>5, TouchedTrans
  <2>2. Touched(s, b1, i, u)
    BY <1>7, <2>1, TouchedTrans
  <2>3. Touched(s, c, i, u)
    BY <1>10, <2>2, TouchedTrans
  <2> QED
    BY <1>12, <2>3, TouchedTrans
<1>14. s.bad = {} => b.err = FALSE /\ c.err = FALSE
  BY <1>3, <1>5, <1>6, <1>7, <1>10
<1>15. ASSUME b.err = FALSE, c.err = FALSE, "meta" \notin s.bad
       PROVE  /\ t.disk.meta[i] = s.table[i].label /\ t.disk.key[i] = key
              /\ t.disk.noc[i] = s.certs.noc /\ t.disk.icac[i] = s.certs.icac
              /\ t.disk.rcac[i] = IF "root" \in s.certs.flags THEN s.certs.rcac ELSE s.disk.rcac[i]
  <2>1. b.disk.meta[i] = s.table[i].label /\ b.disk.key[i] = key /\ b.disk.rcac[i] = s.disk.rcac[i]
    BY <1>2, <1>5, <1>15 DEF Pieces
  <2> QED
    BY <1>7, <1>10, <1>12, <1>15, <2>1
<1> QED
  <2>1. t.ks = NoKey
    BY <1>7, <1>10, <1>12
  <2>2. PiecesCommitted(s, b, c, t, i, u)
    BY <1>6, <1>11, <1>12, <1>13, <1>14, <1>15, <2>1 DEF PiecesCommitted
  <2> QED
    BY <2>2 DEF a, b, c, t

(* The new fabric enters the index and another index becomes the next one. *)
LEMMA CommitIndexIs ==
    ASSUME NEW s \in Dev, NEW i \in InUse(s), NEW u, Agree(s, i, u), s.next = i
    PROVE  LET t == StoreFabricIndexInfo(UpdateNextAvailableFabricIndex(s))
           IN  /\ t \in Dev /\ Agree(t, i, u) /\ t.next \notin InUse(t)
               /\ t.bad = s.bad /\ t.table = s.table /\ t.count = s.count /\ t.fs = s.fs
               /\ t.work = s.work /\ t.certs = s.certs /\ t.ks = s.ks
               /\ t.disk.marker = s.disk.marker /\ \A q \in Pieces : t.disk[q] = s.disk[q]
               /\ "index" \notin s.bad => t.disk.index # None /\ i \in t.disk.index.fabrics
               /\ i = s.disk.marker /\ Logged(s, u) /\ Restartable(s.disk, u)
                    => Logged(t, u) /\ Restartable(t.disk, u)
<1>0. i \in Index /\ InUse(s) \subseteq Index
  BY DEF InUse
<1>1. PICK n \in AnyIndex : /\ UpdateNextAvailableFabricIndex(s) = [s EXCEPT !.next = n]
                            /\ n # Undefined => n \in Index \ InUse(s)
                            /\ n = Undefined => Index \subseteq InUse(s) \cup {s.next}
  BY NextFree
<1> DEFINE a == [s EXCEPT !.next = n]
           t == StoreFabricIndexInfo(a)
           d == PutIndex(a.disk, InfoOf(a))
<1>2. /\ a \in Dev /\ a.next = n /\ a.bad = s.bad /\ a.table = s.table /\ a.count = s.count
      /\ a.fs = s.fs /\ a.work = s.work /\ a.certs = s.certs /\ a.ks = s.ks /\ a.disk = s.disk
      /\ a.log = s.log
  BY <1>1 DEF Dev
<1> HIDE DEF a
<1>3. InUse(a) = InUse(s) /\ n \notin InUse(s) /\ (n = Undefined => InUse(s) = Index)
  <2>1. InUse(a) = InUse(s)
    BY <1>2 DEF InUse
  <2>2. Undefined \notin InUse(s)
    BY <1>0, NoneApart
  <2> QED
    BY <1>0, <1>1, <2>1, <2>2
<1>4. Stores(a, t, "index", d) /\ InfoOf(a) \in IndexInfo /\ t \in Dev
  BY <1>2, StoreIndexIs
<1>5. /\ d.index = InfoOf(a) /\ d.marker = a.disk.marker /\ d.meta = a.disk.meta /\ d.key = a.disk.key
      /\ d.noc = a.disk.noc /\ d.icac = a.disk.icac /\ d.rcac = a.disk.rcac
  <2>1. a.disk \in Disk
    BY <1>2 DEF Dev
  <2> QED
    BY <1>4, <2>1, IndexPut
<1>6. i = s.disk.marker /\ Logged(s, u) /\ Restartable(s.disk, u)
          => Logged(t, u) /\ Restartable(t.disk, u)
  <2> SUFFICES ASSUME i = s.disk.marker, Logged(s, u), Restartable(s.disk, u)
               PROVE  Logged(t, u) /\ Restartable(t.disk, u)
    OBVIOUS
  <2>1. Logged(a, u) /\ Restartable(a.disk, u)
    BY <1>2 DEF Logged
  <2>2. a.next \notin InUse(a) /\ \A j \in Index : Survives(a.disk, j) => j \in InUse(a)
    BY <1>2, <1>3 DEF Survives, Agree
  <2> QED
    BY <1>2, <2>1, <2>2, StoreIndexSafe
<1>7. InfoOf(a).next = n /\ InfoOf(a).fabrics = InUse(s) /\ InfoOf(a) # None
  BY <1>2, <1>3, <1>4, NoneApart DEF InfoOf
<1> HIDE DEF t, d
<1>8. /\ t.bad = s.bad /\ t.table = s.table /\ t.count = s.count /\ t.fs = s.fs /\ t.next = n
      /\ t.work = s.work /\ t.certs = s.certs /\ t.ks = s.ks
      /\ t.disk = s.disk \/ t.disk = d
      /\ "index" \notin s.bad => t.disk = d
  BY <1>2, <1>4 DEF Stores, SameMemory
<1>9. /\ t.disk.marker = s.disk.marker /\ t.disk.meta = s.disk.meta /\ t.disk.key = s.disk.key
      /\ t.disk.noc = s.disk.noc /\ t.disk.icac = s.disk.icac /\ t.disk.rcac = s.disk.rcac
      /\ t.disk.index = s.disk.index \/ t.disk.index = InfoOf(a)
  BY <1>2, <1>5, <1>8
<1>10. \A q \in Pieces : t.disk[q] = s.disk[q]
  BY <1>9 DEF Pieces
<1>11. InUse(t) = InUse(s)
  BY <1>8 DEF InUse
<1>12. Agree(t, i, u)
  <2>1. \A j \in Index : Loads(t.disk, j) <=> Loads(s.disk, j)
    BY <1>9 DEF Loads
  <2>2. \A j \in InUse(s) \ {i} : Kept(s, j) => Kept(t, j)
    BY <1>7, <1>8, <1>9 DEF Kept, Whole
  <2>3. IndexApart(t.disk)
    BY <1>3, <1>7, <1>9 DEF IndexApart, Agree
  <2> QED
    BY <1>3, <1>8, <1>11, <2>1, <2>2, <2>3 DEF Agree
<1>13. "index" \notin s.bad => t.disk.index # None /\ i \in t.disk.index.fabrics
  BY <1>5, <1>7, <1>8
<1> QED
  BY <1>1, <1>3, <1>4, <1>6, <1>8, <1>9, <1>10, <1>11, <1>12, <1>13 DEF t, a

(* Once all of fabric i is on disk, it is no longer set aside.             *)
LEMMA CommitAgrees ==
    ASSUME NEW s \in Dev, NEW i \in InUse(s), NEW u, NEW v, Agree(s, i, u),
           s.next \notin InUse(s), s.disk.marker = Undefined,
           Whole(s.disk, i), s.disk.noc[i] = Identity(s.table[i]),
           s.disk.index # None, i \in s.disk.index.fabrics,
           v[i] = Identity(s.table[i]), \A j \in Index \ {i} : v[j] = u[j]
    PROVE  Agree(s, Undefined, v)
<1>1. InUse(s) \subseteq Index /\ Undefined \notin Index /\ i \in Index
  BY NoneApart DEF InUse
<1>2. Kept(s, i) /\ InUse(s) \ {Undefined} = InUse(s)
  BY <1>1 DEF Kept
<1>3. \A j \in InUse(s) \ {Undefined} : Kept(s, j)
  BY <1>2 DEF Agree
<1>4. \A j \in Index \ {Undefined} : Loads(s.disk, j) => j \in InUse(s)
  BY <1>1 DEF Agree
<1>5. \A j \in Index : \/ v[j] = Unsure
                       \/ v[j] = IF j \in InUse(s) \ {Undefined} THEN Identity(s.table[j]) ELSE None
  BY <1>1, <1>2 DEF Agree
<1> QED
  BY <1>2, <1>3, <1>4, <1>5 DEF Agree

\* An addition or an update waits for its commit.
Ready(s) == s.pidx \in InUse(s) /\ s.flags \cap {"add", "update"} # {}

\* The entry of the table after the commit.
NewEntry(s) == IF "update" \in s.flags THEN [x \in {"fabric", "key", "label"} |-> s.pend[x]]
               ELSE s.table[s.pidx]

LEMMA ReadyIs ==
    ASSUME NEW s \in Dev, NEW o, Running(s, o), Ready(s)
    PROVE  LET i == s.pidx
               noc == s.certs.noc
           IN  /\ i \in Index /\ "data" \in s.flags /\ PendingOf(s) \in {Undefined, i}
               /\ noc \in NOC /\ noc = Identity(NewEntry(s)) /\ NewEntry(s) \in Entry
               /\ s.certs.idx = i /\ s.certs.icac \in {None, noc.key}
               /\ s.ks = [idx |-> i, key |-> noc.key, active |-> TRUE]
               /\ "add" \in s.flags =>
                    /\ "update" \notin s.flags /\ "root" \in s.flags /\ s.next = i
                    /\ "root" \in s.certs.flags /\ s.certs.rcac = noc.fabric
               /\ "add" \notin s.flags =>
                    /\ "update" \in s.flags /\ s.pend # None /\ s.pend.idx = i
                    /\ s.next \notin InUse(s) /\ "root" \notin s.certs.flags
                    /\ Kept(s, i) /\ s.disk.rcac[i] = noc.fabric
<1> DEFINE i == s.pidx
<1>0. /\ AddPending(s) /\ UpdatePending(s) /\ Agree(s, PendingOf(s), o) /\ i \in Index
      /\ s.table[i] # None /\ s.table[i] \in Entry /\ s.flags \in SUBSET Flags
  BY DEF Running, Pending, Settles, Ready, InUse, Dev
<1>1. CASE "add" \in s.flags
  <2>1. /\ "data" \in s.flags /\ "root" \in s.flags /\ "update" \notin s.flags /\ s.next = i
        /\ s.certs.idx = i /\ s.certs.flags = {"root", "add"} /\ s.certs.noc = Identity(s.table[i])
        /\ s.certs.rcac = s.certs.noc.fabric /\ s.certs.icac \in {None, s.certs.noc.key}
        /\ s.ks = [idx |-> i, key |-> s.certs.noc.key, active |-> TRUE]
    BY <1>0, <1>1 DEF AddPending
  <2>2. NewEntry(s) = s.table[i] /\ PendingOf(s) = i
    BY <1>1, <2>1 DEF NewEntry, PendingOf
  <2>3. Identity(s.table[i]) \in NOC
    BY <1>0 DEF Identity, NOC, Entry
  <2> QED
    BY <1>0, <1>1, <2>1, <2>2, <2>3
<1>2. CASE "add" \notin s.flags
  <2>1. "update" \in s.flags /\ s.pend # None
    BY <1>0, <1>2 DEF Ready, UpdatePending
  <2>2. /\ "data" \in s.flags /\ s.pend.idx = i
        /\ s.certs.idx = i /\ s.certs.flags = {"update"} /\ s.certs.noc = Identity(s.pend)
        /\ s.pend.fabric = s.table[i].fabric /\ s.certs.icac \in {None, s.certs.noc.key}
        /\ s.ks = [idx |-> i, key |-> s.certs.noc.key, active |-> TRUE]
    BY <1>0, <2>1 DEF UpdatePending
  <2>3. s.pend \in Shadow /\ s.pend.fabric \in Fabrics /\ s.pend.key \in Nat /\ s.pend.label \in Labels
    BY <2>1 DEF Dev, Shadow
  <2>4. NewEntry(s) = [fabric |-> s.pend.fabric, key |-> s.pend.key, label |-> s.pend.label]
    BY <2>1 DEF NewEntry
  <2>5. NewEntry(s) \in Entry /\ Identity(NewEntry(s)) = Identity(s.pend) /\ Identity(s.pend) \in NOC
        /\ Identity(s.pend).fabric = s.pend.fabric
    BY <2>3, <2>4 DEF Entry, Identity, NOC
  <2>6. PendingOf(s) = Undefined /\ Undefined \notin InUse(s)
    BY <1>2, NoneApart DEF PendingOf, InUse
  <2>7. Kept(s, i) /\ s.next \notin InUse(s)
    BY <1>0, <2>6 DEF Agree, InUse
  <2>8. s.disk.rcac[i] = s.table[i].fabric
    BY <2>7 DEF Kept, Whole, Identity
  <2> QED
    BY <1>0, <1>2, <2>1, <2>2, <2>5, <2>6, <2>7, <2>8
<1> QED
  BY <1>1, <1>2

(* The pre-flight checks pass.                                             *)
LEMMA ReadyIsCoherent ==
    ASSUME NEW s \in Dev, NEW o, Running(s, o), Ready(s)
    PROVE  CommitIsCoherent(s)
<1> DEFINE i == s.pidx
<1>1. /\ i \in Index /\ s.certs.idx = i /\ s.certs.noc \in NOC
      /\ s.ks = [idx |-> i, key |-> s.certs.noc.key, active |-> TRUE]
      /\ "add" \in s.flags =>
            "update" \notin s.flags /\ "root" \in s.flags /\ s.certs.rcac = s.certs.noc.fabric
      /\ "add" \notin s.flags => "update" \in s.flags /\ s.pend # None /\ s.pend.idx = i
  BY ReadyIs
<1>2. i # Undefined /\ s.table[i] # None
  BY <1>1, NoneApart DEF Ready, InUse
<1>3. HasOpKeypairForFabric(s, i)
  <2>1. s.ks.active = TRUE /\ s.ks.idx = i
    BY <1>1
  <2> QED
    BY <2>1 DEF HasOpKeypairForFabric
<1>4. "add" \in s.flags => GetCertificate(s, i, "rcac") # None
  <2>1. s.certs.noc.fabric \in Fabrics
    BY <1>1 DEF NOC
  <2> QED
    BY <1>1, <2>1, NoneApart DEF GetCertificate
<1> QED
  BY <1>1, <1>2, <1>3, <1>4 DEF CommitIsCoherent

\* The marker is stored and the table changed.
Marked(s) ==
    [StoreCommitMarker(s, s.pidx) EXCEPT
        !.flags = @ \ {"data"},
        !.table[s.pidx] = IF "update" \in s.flags
                          THEN [x \in {"fabric", "key", "label"} |-> s.pend[x]] ELSE @]

LEMMA MarkedIs ==
    ASSUME NEW s \in Dev, NEW o, NEW u, Running(s, o), Ready(s), OwesElsewhere(o, u, s.pidx)
    PROVE  LET i == s.pidx
               t == Marked(s)
           IN  /\ t \in Dev /\ Agree(t, i, u) /\ InUse(t) = InUse(s) /\ t.table[i] = NewEntry(s)
               /\ t.bad = s.bad /\ t.next = s.next /\ t.pend = s.pend /\ t.pidx = s.pidx
               /\ t.certs = s.certs /\ t.ks = s.ks /\ t.fs = s.fs /\ t.work = s.work
               /\ t.flags = s.flags \ {"data"} /\ t.disk.index = s.disk.index
               /\ \A q \in Pieces : t.disk[q] = s.disk[q]
               /\ "marker" \notin s.bad => t.disk.marker = i
               /\ s.bad = {} /\ u[i] = Unsure /\ Logged(s, u) => Logged(t, u) /\ Restartable(t.disk, u)
<1> DEFINE i == s.pidx
           e == NewEntry(s)
           a == StoreCommitMarker(s, i)
           f == a.flags \ {"data"}
           tab == [a.table EXCEPT ![i] = e]
           t == [a EXCEPT !.flags = f, !.table = tab]
<1>1. i \in Index /\ e \in Entry /\ PendingOf(s) \in {Undefined, i} /\ i \in InUse(s)
  BY ReadyIs DEF Ready
<1>2. Agree(s, i, u) /\ Restartable(s.disk, o)
  <2>1. Agree(s, PendingOf(s), o) /\ PendingOf(s) \in AnyIndex /\ Restartable(s.disk, o)
    BY SettlesRestartable DEF Running, Settles
  <2> QED
    BY <1>1, <2>1, AgreeAside
<1>3. u[i] = Unsure => Restartable(s.disk, u)
  BY <1>1, <1>2, RestartableUnsure
<1>4. /\ SameMemory(s, a) /\ Agree(a, i, u) /\ a.disk.index = s.disk.index
      /\ \A q \in Pieces : a.disk[q] = s.disk[q]
      /\ "marker" \notin s.bad => a.disk.marker = i
      /\ s.bad = {} /\ u[i] = Unsure /\ Logged(s, u) /\ Restartable(s.disk, u)
                    => Logged(a, u) /\ Restartable(a.disk, u)
  BY <1>1, <1>2, MarkIs
<1>5. Marked(s) = t
  <2>1. a \in Dev /\ a.table \in [Index -> Entry \cup {None}] /\ a.table = s.table
    BY <1>4 DEF SameMemory, Dev
  <2>2. tab = [a.table EXCEPT ![i] = IF "update" \in s.flags
                          THEN [x \in {"fabric", "key", "label"} |-> s.pend[x]] ELSE @]
    BY <1>1, <2>1 DEF NewEntry
  <2> HIDE DEF a
  <2> QED
    BY <2>1, <2>2 DEF Marked, a, Dev
<1> HIDE DEF a, e
<1>6. a \in Dev /\ tab \in [Index -> Entry \cup {None}] /\ f \in SUBSET Flags
  BY <1>1, <1>4 DEF SameMemory, Dev
<1>7. /\ t \in Dev /\ t.flags = f /\ t.table = tab /\ t.bad = a.bad /\ t.next = a.next /\ t.pend = a.pend
      /\ t.pidx = a.pidx /\ t.certs = a.certs /\ t.ks = a.ks /\ t.fs = a.fs /\ t.work = a.work
      /\ t.disk = a.disk /\ t.log = a.log /\ t.count = a.count
  <2> HIDE DEF tab, f
  <2> QED
    BY <1>6 DEF Dev
<1> HIDE DEF t
<1>8. InUse(a) = InUse(s)
  BY <1>4 DEF SameMemory, InUse
<1>9. Agree(t, i, u) /\ InUse(t) = InUse(a) /\ t.table[i] = e
  BY <1>1, <1>4, <1>6, <1>7, <1>8, EntryAside
<1>10. s.bad = {} /\ u[i] = Unsure /\ Logged(s, u) => Logged(t, u) /\ Restartable(t.disk, u)
  BY <1>3, <1>4, <1>7 DEF Logged
<1> QED
  BY <1>4, <1>5, <1>7, <1>8, <1>9, <1>10 DEF SameMemory, e

\* The commit before its outcome is known, and whether it failed.
KeyStage(s)   == KeyOf(MetaOf(Marked(s), s.pidx), s.pidx)
CertsStage(s) == CertsOf(KeyStage(s), s.pidx)
Pieced(s)     == NoCertsIf(CertsStage(s))
Indexed(s)    == IF "add" \in s.flags
                 THEN StoreFabricIndexInfo(UpdateNextAvailableFabricIndex(Pieced(s)))
                 ELSE Pieced(s)
Failed(s) == \/ KeyStage(s).err \/ CertsStage(s).err \/ s.bad \cap {"marker", "meta"} # {}
             \/ "add" \in s.flags /\ "index" \in s.bad
Outcome(s) == [Indexed(s) EXCEPT !.flags = {}, !.pidx = Undefined, !.pend = None, !.err = Failed(s)]

LEMMA CommitStages ==
    ASSUME NEW s \in Dev, "data" \in s.flags, CommitIsCoherent(s)
    PROVE  CommitPendingFabricData(s) =
              ClearCommitMarker(IF Failed(s) THEN RevertPendingFabricData(Delete(Outcome(s), s.pidx))
                                ELSE Outcome(s))
BY DEF CommitPendingFabricData, Outcome, Failed, Indexed, Pieced, CertsStage, KeyStage, Marked,
       MetaOf, KeyOf, NoKeyIf, CertsOf, NoCertsIf

(* All of fabric i but the marker.                                         *)
LEMMA OutcomeIs ==
    ASSUME NEW s \in Dev, NEW o, NEW u, Running(s, o), Ready(s), OwesElsewhere(o, u, s.pidx)
    PROVE  LET i == s.pidx
               t == Outcome(s)
           IN  /\ t \in Dev /\ Agree(t, i, u) /\ i \in InUse(t) /\ Failed(s) \in BOOLEAN
               /\ t.bad = s.bad /\ t.fs = s.fs /\ t.work = s.work
               /\ t.flags = {} /\ t.pend = None /\ t.certs = NoCerts /\ t.ks = NoKey
               /\ t.err = Failed(s) /\ (s.bad = {} => ~Failed(s))
               /\ ~Failed(s) => /\ Whole(t.disk, i) /\ t.disk.noc[i] = Identity(t.table[i])
                                /\ t.disk.index # None /\ i \in t.disk.index.fabrics
                                /\ t.next \notin InUse(t) /\ t.disk.marker = i
               /\ s.bad = {} /\ u[i] = Unsure /\ Logged(s, u) => Logged(t, u) /\ Restartable(t.disk, u)
<1> DEFINE i == s.pidx
           e == NewEntry(s)
           m == Marked(s)
           a == MetaOf(m, i)
           b == KeyOf(a, i)
           c == CertsOf(b, i)
           p == NoCertsIf(c)
           x == Indexed(s)
           fd == Failed(s)
           t == Outcome(s)
           noc == s.certs.noc
           log == s.bad = {} /\ u[i] = Unsure /\ Logged(s, u)
<1>0. b = KeyStage(s) /\ c = CertsStage(s) /\ p = Pieced(s)
  BY DEF KeyStage, CertsStage, Pieced
<1>1. /\ i \in Index /\ noc \in NOC /\ noc = Identity(e) /\ e \in Entry
      /\ s.certs.idx = i /\ s.certs.icac \in {None, noc.key}
      /\ s.ks = [idx |-> i, key |-> noc.key, active |-> TRUE]
      /\ "add" \in s.flags =>
            s.next = i /\ "root" \in s.certs.flags /\ s.certs.rcac = noc.fabric
      /\ "add" \notin s.flags =>
            /\ s.next \notin InUse(s) /\ "root" \notin s.certs.flags
            /\ Kept(s, i) /\ s.disk.rcac[i] = noc.fabric
  BY ReadyIs
<1>2. /\ m \in Dev /\ Agree(m, i, u) /\ InUse(m) = InUse(s) /\ m.table[i] = e
      /\ m.bad = s.bad /\ m.next = s.next
      /\ m.certs = s.certs /\ m.ks = s.ks /\ m.fs = s.fs /\ m.work = s.work
      /\ m.disk.index = s.disk.index
      /\ \A q \in Pieces : m.disk[q] = s.disk[q]
      /\ "marker" \notin s.bad => m.disk.marker = i
      /\ log => Logged(m, u) /\ Restartable(m.disk, u)
  BY MarkedIs
<1> HIDE DEF m, e, log
<1>3. i \in InUse(m) /\ noc.key \in Nat /\ noc # None /\ e.label \in Labels /\ Identity(e).key = e.key
      /\ Identity(e).fabric = e.fabric /\ m.disk.rcac[i] = s.disk.rcac[i]
  BY <1>1, <1>2, NoneApart DEF Ready, NOC, Entry, Identity, Pieces
<1>4. /\ Touched(m, p, i, u) /\ p.ks = NoKey /\ p.certs = NoCerts
      /\ b.err \in BOOLEAN /\ c.err \in BOOLEAN
      /\ m.bad = {} => b.err = FALSE /\ c.err = FALSE
      /\ b.err = FALSE /\ c.err = FALSE /\ "meta" \notin m.bad =>
            /\ p.disk.meta[i] = m.table[i].label /\ p.disk.key[i] = noc.key
            /\ p.disk.noc[i] = m.certs.noc /\ p.disk.icac[i] = m.certs.icac
            /\ p.disk.rcac[i] = IF "root" \in m.certs.flags THEN m.certs.rcac ELSE m.disk.rcac[i]
  <2> DEFINE key == noc.key
  <2>1. /\ m.ks.idx = i /\ m.ks.active = TRUE /\ m.ks.key = key /\ m.ks.key \in Nat
        /\ m.certs.idx = i /\ m.certs.noc # None
    BY <1>1, <1>2, <1>3
  <2>2. PiecesCommitted(m, b, c, p, i, u)
    BY <1>2, <1>3, <2>1, CommitPiecesAre
  <2> QED
    BY <2>1, <2>2 DEF PiecesCommitted
<1>5. /\ p \in Dev /\ p.bad = s.bad /\ p.table = m.table /\ p.next = s.next /\ p.fs = s.fs
      /\ p.work = s.work /\ p.disk.index = s.disk.index /\ p.disk.marker = m.disk.marker
      /\ Agree(p, i, u) /\ InUse(p) = InUse(s)
  <2>1. p \in Dev /\ Agree(p, i, u)
    <3>1. p \in Dev
      BY <1>4 DEF Touched
    <3> QED
      BY <1>1, <1>2, <1>4, <3>1, TouchedAgrees
  <2> QED
    BY <1>2, <1>4, <2>1 DEF Touched, InUse
<1>6. log => Logged(p, u) /\ Restartable(p.disk, u) /\ p.disk.marker = i
  <2>1. log => m.disk.marker = i
    BY <1>2 DEF log
  <2> QED
    BY <1>2, <1>4, <1>5, <2>1 DEF Touched
<1>7. fd = (b.err \/ c.err \/ s.bad \cap {"marker", "meta"} # {} \/ ("add" \in s.flags /\ "index" \in s.bad))
  BY <1>0 DEF Failed
<1> HIDE DEF a, b, c, p
<1>8. fd \in BOOLEAN /\ (s.bad = {} => ~fd)
  BY <1>2, <1>4, <1>7
<1>9. /\ x \in Dev /\ Agree(x, i, u) /\ x.bad = s.bad /\ x.table = m.table /\ x.fs = s.fs
      /\ x.work = s.work /\ x.certs = NoCerts /\ x.ks = NoKey /\ x.disk.marker = m.disk.marker
      /\ \A q \in Pieces : x.disk[q] = p.disk[q]
      /\ ~fd => x.next \notin InUse(x) /\ x.disk.index # None /\ i \in x.disk.index.fabrics
      /\ log => Logged(x, u) /\ Restartable(x.disk, u)
  <2>1. CASE "add" \in s.flags
    <3>1. x = StoreFabricIndexInfo(UpdateNextAvailableFabricIndex(p))
      BY <1>0, <2>1 DEF Indexed
    <3> HIDE DEF x
    <3>2. i \in InUse(p) /\ p.next = i
      BY <1>1, <1>2, <1>3, <1>5, <2>1
    <3>3. /\ x \in Dev /\ Agree(x, i, u) /\ x.next \notin InUse(x)
          /\ x.bad = p.bad /\ x.table = p.table /\ x.fs = p.fs
          /\ x.work = p.work /\ x.certs = p.certs /\ x.ks = p.ks
          /\ x.disk.marker = p.disk.marker /\ \A q \in Pieces : x.disk[q] = p.disk[q]
          /\ "index" \notin p.bad => x.disk.index # None /\ i \in x.disk.index.fabrics
          /\ i = p.disk.marker /\ Logged(p, u) /\ Restartable(p.disk, u)
                    => Logged(x, u) /\ Restartable(x.disk, u)
      BY <1>5, <3>1, <3>2, CommitIndexIs
    <3>4. ~fd => "index" \notin p.bad
      BY <1>5, <1>7, <2>1
    <3> QED
      BY <1>4, <1>5, <1>6, <3>3, <3>4
  <2>2. CASE "add" \notin s.flags
    <3>1. x = p
      BY <1>0, <2>2 DEF Indexed
    <3> HIDE DEF x
    <3>2. x.next \notin InUse(x) /\ x.disk.index # None /\ i \in x.disk.index.fabrics
      BY <1>1, <1>5, <2>2, <3>1 DEF Kept
    <3> QED
      BY <1>4, <1>5, <1>6, <3>1, <3>2
  <2> QED
    BY <2>1, <2>2
<1>10. t = [x EXCEPT !.flags = {}, !.pidx = Undefined, !.pend = None, !.err = fd]
  BY DEF Outcome
<1> HIDE DEF x, fd
<1>11. /\ t \in Dev /\ t.flags = {} /\ t.pend = None /\ t.err = fd /\ t.disk = x.disk /\ t.log = x.log
       /\ t.bad = x.bad /\ t.table = x.table /\ t.count = x.count /\ t.next = x.next
       /\ t.fs = x.fs /\ t.work = x.work /\ t.certs = x.certs /\ t.ks = x.ks
  <2>1. Undefined \in AnyIndex /\ {} \in SUBSET Flags /\ x \in Dev /\ fd \in BOOLEAN
    BY <1>8, <1>9, NoneApart
  <2> HIDE DEF t
  <2>2. CASE fd = TRUE
    <3>1. t = [x EXCEPT !.flags = {}, !.pidx = Undefined, !.pend = None, !.err = TRUE]
      BY <1>10, <2>2
    <3> QED
      BY <2>1, <2>2, <3>1 DEF Dev
  <2>3. CASE fd = FALSE
    <3>1. t = [x EXCEPT !.flags = {}, !.pidx = Undefined, !.pend = None, !.err = FALSE]
      BY <1>10, <2>3
    <3> QED
      BY <2>1, <2>3, <3>1 DEF Dev
  <2> QED
    BY <2>1, <2>2, <2>3
<1> HIDE DEF t
<1>12. Agree(t, i, u)
  BY <1>9, <1>11, AgreeFrame
<1>13. InUse(t) = InUse(m) /\ InUse(t) = InUse(x) /\ i \in InUse(t)
  BY <1>3, <1>9, <1>11 DEF InUse
<1>14. ASSUME ~fd
       PROVE  Whole(t.disk, i) /\ t.disk.noc[i] = Identity(t.table[i]) /\ t.disk.marker = i
  <2>1. b.err = FALSE /\ c.err = FALSE /\ "meta" \notin s.bad /\ "marker" \notin s.bad
    BY <1>4, <1>7, <1>14
  <2>2. /\ t.disk.meta[i] = p.disk.meta[i] /\ t.disk.key[i] = p.disk.key[i] /\ t.disk.noc[i] = p.disk.noc[i]
        /\ t.disk.icac[i] = p.disk.icac[i] /\ t.disk.rcac[i] = p.disk.rcac[i]
    BY <1>9, <1>11 DEF Pieces
  <2>3. /\ p.disk.meta[i] = e.label /\ p.disk.key[i] = noc.key
        /\ p.disk.noc[i] = noc /\ p.disk.icac[i] = s.certs.icac
        /\ p.disk.rcac[i] = IF "root" \in s.certs.flags THEN s.certs.rcac ELSE s.disk.rcac[i]
    BY <1>2, <1>3, <1>4, <2>1
  <2>4. p.disk.rcac[i] = noc.fabric
    BY <1>1, <2>3
  <2>5. noc.key # None /\ noc.fabric # None /\ e.label # None
    BY <1>1, <1>3, NoneApart DEF NOC
  <2>6. Whole(t.disk, i)
    BY <1>1, <1>3, <2>2, <2>3, <2>4, <2>5 DEF Whole
  <2>7. t.disk.noc[i] = Identity(t.table[i])
    BY <1>1, <1>2, <1>9, <1>11, <2>2, <2>3
  <2> QED
    BY <1>2, <1>9, <1>11, <2>1, <2>6, <2>7
<1>15. log => Logged(t, u) /\ Restartable(t.disk, u)
  BY <1>9, <1>11 DEF Logged
<1> QED
  BY <1>8, <1>9, <1>11, <1>12, <1>13, <1>14, <1>15 DEF log, fd, t

\* t is s after its pending data was committed; u says what is owed, the
\* fabric set aside, and v what is owed once it is committed.
IsCommitted(s, t, u, v) ==
    /\ t \in Dev /\ t.bad = s.bad /\ t.fs = s.fs /\ t.work = s.work
    /\ t.flags = {} /\ t.certs = NoCerts /\ t.ks = NoKey /\ t.pend = None
    /\ t.err = TRUE => s.bad # {} /\ Agree(t, Undefined, u) /\ s.pidx \notin InUse(t)
    /\ t.err = FALSE /\ v[s.pidx] = Identity(t.table[s.pidx]) /\ (\A j \in Index \ {s.pidx} : v[j] = u[j])
            => Agree(t, Undefined, v)
    /\ t.err = FALSE => s.pidx \in InUse(t)
    /\ s.bad = {} /\ u[s.pidx] = Unsure /\ Logged(s, u) => Logged(t, u)

(* A commit that fails removes the fabric again; one that succeeds leaves  *)
(* all of it on disk.  The power may fail between any two of its writes.   *)
LEMMA CommitIs ==
    ASSUME NEW s \in Dev, NEW o, NEW u, NEW v, Running(s, o), Ready(s), OwesElsewhere(o, u, s.pidx),
           OneFault(s.bad), "clear" \notin s.bad
    PROVE  IsCommitted(s, CommitPendingFabricData(s), u, v)
<1> DEFINE i == s.pidx
           a == Outcome(s)
           t == CommitPendingFabricData(s)
<1>1. i \in Index /\ "data" \in s.flags /\ CommitIsCoherent(s) /\ Undefined \in AnyIndex /\ i # Undefined
      /\ i \in AnyIndex
  BY ReadyIs, ReadyIsCoherent, NoneApart
<1>2. t = ClearCommitMarker(IF Failed(s) THEN RevertPendingFabricData(Delete(a, i)) ELSE a)
  BY <1>1, CommitStages
<1>3. /\ a \in Dev /\ Agree(a, i, u) /\ i \in InUse(a) /\ Failed(s) \in BOOLEAN
      /\ a.bad = s.bad /\ a.fs = s.fs /\ a.work = s.work
      /\ a.flags = {} /\ a.pend = None /\ a.certs = NoCerts /\ a.ks = NoKey
      /\ a.err = Failed(s) /\ (s.bad = {} => ~Failed(s))
      /\ ~Failed(s) => /\ Whole(a.disk, i) /\ a.disk.noc[i] = Identity(a.table[i])
                       /\ a.disk.index # None /\ i \in a.disk.index.fabrics
                       /\ a.next \notin InUse(a) /\ a.disk.marker = i
      /\ s.bad = {} /\ u[i] = Unsure /\ Logged(s, u) => Logged(a, u) /\ Restartable(a.disk, u)
  BY OutcomeIs
<1> HIDE DEF a, t
<1>4. CASE Failed(s)
  <2> DEFINE b == DeleteEntry(a, i)
             c == RevertPendingFabricData(b)
  <2>1. Delete(a, i) = b
    BY <1>1, <1>3 DEF Delete, HasPendingFabricUpdate
  <2>2. Deleted(a, b, i)
    BY <1>1, <1>3, DeleteEntryIs
  <2>3. Agree(b, Undefined, u) /\ b.table[i] = None
    BY <1>1, <1>3, DeleteAgrees
  <2>4. t = ClearCommitMarker(c)
    BY <1>2, <1>4, <2>1
  <2> HIDE DEF b
  <2>5. b \in Dev /\ b.bad = s.bad /\ b.flags = {} /\ b.err = TRUE /\ b.fs = s.fs /\ b.work = s.work
    BY <1>3, <1>4, <2>2 DEF Deleted
  <2>6. Settles(b, u)
    BY <2>3, <2>5 DEF Settles, PendingOf
  <2>7. Reverted(b, c) /\ Agree(c, Undefined, u)
    BY <2>5, <2>6, RevertIs
  <2> HIDE DEF c
  <2>8. /\ c \in Dev /\ c.bad = s.bad /\ c.err = TRUE /\ c.fs = s.fs /\ c.work = s.work
        /\ c.flags = {} /\ c.pend = None /\ c.certs = NoCerts /\ c.ks = NoKey /\ c.table = b.table
    BY <2>5, <2>7 DEF Reverted
  <2>9. SameMemory(c, t) /\ Agree(t, Undefined, u)
    BY <1>1, <2>4, <2>7, <2>8, ClearMarkerIs
  <2>10. i \notin InUse(t)
    BY <2>3, <2>8, <2>9 DEF SameMemory, InUse
  <2>11. s.bad # {}
    BY <1>3, <1>4
  <2> QED
    BY <2>8, <2>9, <2>10, <2>11 DEF SameMemory, IsCommitted, t
<1>5. CASE ~Failed(s)
  <2>1. t = ClearCommitMarker(a)
    BY <1>2, <1>5
  <2>2. /\ SameMemory(a, t) /\ t.disk.marker = Undefined
        /\ t.disk = PutMarker(a.disk, Undefined) /\ t.log = Append(a.log, a.disk)
        /\ Agree(t, i, u)
    BY <1>1, <1>3, <2>1, ClearMarkerIs
  <2>3. /\ t \in Dev /\ t.bad = s.bad /\ t.fs = s.fs /\ t.work = s.work /\ t.err = FALSE
        /\ t.flags = {} /\ t.pend = None /\ t.certs = NoCerts /\ t.ks = NoKey
        /\ t.table = a.table /\ t.next = a.next /\ InUse(t) = InUse(a)
    BY <1>3, <1>5, <2>2 DEF SameMemory, InUse
  <2>4. /\ t.disk.index = a.disk.index /\ t.disk.meta = a.disk.meta /\ t.disk.key = a.disk.key
        /\ t.disk.noc = a.disk.noc /\ t.disk.icac = a.disk.icac /\ t.disk.rcac = a.disk.rcac
    <3>1. a.disk \in Disk
      BY <1>3 DEF Dev
    <3> QED
      BY <1>1, <2>2, <3>1, MarkerPut
  <2>5. /\ Whole(t.disk, i) /\ t.disk.noc[i] = Identity(t.table[i])
        /\ t.disk.index # None /\ i \in t.disk.index.fabrics /\ t.next \notin InUse(t)
    BY <1>3, <1>5, <2>3, <2>4 DEF Whole
  <2>6. ASSUME v[i] = Identity(t.table[i]), \A j \in Index \ {i} : v[j] = u[j]
        PROVE  Agree(t, Undefined, v)
    <3>1. i \in InUse(t)
      BY <1>3, <2>3
    <3> QED
      BY <2>2, <2>3, <2>5, <2>6, <3>1, CommitAgrees
  <2>7. s.bad = {} /\ u[i] = Unsure /\ Logged(s, u) => Logged(t, u)
    BY <1>3, <2>2, <2>3, LoggedGrows
  <2>8. i \in InUse(t)
    BY <1>3, <2>3
  <2> QED
    BY <2>3, <2>6, <2>7, <2>8 DEF IsCommitted, t
<1> QED
  BY <1>3, <1>4, <1>5

(* A commit that failed: the fail-safe stays armed for a fabric that is    *)
(* gone, until its timer expires.                                          *)
LEMMA FailedCommitRuns ==
    ASSUME NEW s \in Dev, NEW t \in Dev, NEW o, NEW u, Running(s, o), t.fs = s.fs, t.work = s.work,
           s.fs.armed, t.flags = {}, t.certs = NoCerts, t.ks = NoKey, t.pend = None,
           Agree(t, Undefined, u), s.fs.idx \notin {PASE} \cup InUse(t)
    PROVE  Running(t, u)
<1>1. Settles(t, u) /\ Pending(t) /\ KeyPending(t)
  BY NothingPending
<1>2. ~s.fs.busy /\ s.work \in {<<>>, <<clear>>}
  BY DEF Running, Guarded, Scheduled
<1>3. Guarded(t) /\ Scheduled(t)
  BY <1>2 DEF Guarded, Scheduled
<1> QED
  BY <1>1, <1>3 DEF Running

LEMMA CommissioningCompleteStep ==
    ASSUME Orderly, FabricInv, CommissioningComplete
    PROVE  FabricInv'
<1>1. /\ dev \in Dev /\ Running(dev, owed) /\ dev.log = <<>> /\ keys' \in Nat
      /\ owed \in [Index -> NOC \cup {None, Unsure}]
  BY UpIs DEF CommissioningComplete
<1> DEFINE i == dev.pidx
           S(bad) == IF NocInvoked(dev) THEN CommitPendingFabricData(Begin(bad)) ELSE Ok(Begin(bad))
<1>2. PICK a \in Sessions \ {PASE}, bad \in FaultChoices :
        /\ ArmedFor(a) /\ (NocInvoked(dev) \/ dev.flags = {})
        /\ \/ /\ Completes(IF S(bad).err THEN S(bad) ELSE DisarmFailSafe(S(bad)))
              /\ owed' = IF i = Undefined \/ ~NocInvoked(dev) THEN owed
                         ELSE IF ~S(bad).err THEN [owed EXCEPT ![i] = Identity(S(bad).table[i])]
                         ELSE IF bad # {} THEN [owed EXCEPT ![i] = None]
                         ELSE owed
           \/ PowerFailsIn(S(bad)) /\ owed' = [owed EXCEPT ![i] = Unsure]
  BY Zenon DEF CommissioningComplete, Orderly
<1>3. bad \in SUBSET Parts /\ OneFault(bad) /\ "clear" \notin bad
  BY OrderlyFaults
<1> DEFINE s == Begin(bad)
           r == S(bad)
           t == IF r.err THEN r ELSE DisarmFailSafe(r)
<1>4. s \in Dev /\ SameState(dev, s) /\ s.bad = bad /\ s.log = <<>>
  BY <1>1, <1>3, BeginIs
<1>5. r = IF NocInvoked(dev) THEN CommitPendingFabricData(s) ELSE Ok(s)
  OBVIOUS
<1>6. /\ \/ /\ Completes(t)
            /\ owed' = IF i = Undefined \/ ~NocInvoked(dev) THEN owed
                         ELSE IF ~r.err THEN [owed EXCEPT ![i] = Identity(r.table[i])]
                         ELSE IF bad # {} THEN [owed EXCEPT ![i] = None]
                         ELSE owed
         \/ PowerFailsIn(r) /\ owed' = [owed EXCEPT ![i] = Unsure]
      /\ dev.fs.armed /\ dev.fs.idx \in InUse(dev) /\ (NocInvoked(dev) \/ dev.flags = {})
  BY <1>2 DEF Sessions, ArmedFor
<1> HIDE DEF s, S
<1>7. Running(s, owed) /\ InUse(s) = InUse(dev) /\ s.fs = dev.fs /\ s.flags = dev.flags /\ s.pidx = i
      /\ s.work = dev.work
  BY <1>1, <1>4, RunningFrame DEF SameState, InUse
<1>8. ~s.fs.busy /\ s.work \in {<<>>, <<clear>>} /\ dev.fs.armed = TRUE
  BY <1>1, <1>6, <1>7 DEF Running, Guarded, Scheduled, Dev, FailSafe
<1>9. CASE ~NocInvoked(dev)
  <2>1. r = Ok(s) /\ dev.flags = {}
    BY <1>5, <1>6, <1>9
  <2> HIDE DEF r
  <2>2. r \in Dev /\ SameState(s, r) /\ r.err = FALSE /\ r.log = <<>>
    BY <1>4, <2>1, RefuseIs
  <2>3. Running(r, owed) /\ r.flags = {} /\ r.work \in {<<>>, <<clear>>}
    BY <1>7, <1>8, <2>1, <2>2, RunningFrame DEF SameState
  <2>4. t = DisarmFailSafe(r)
    BY <2>2
  <2> HIDE DEF t
  <2>5. Running(t, owed) /\ t \in Dev
    <3>1. /\ SameData(r, t) /\ t.work = r.work
          /\ t.fs.armed = FALSE /\ t.fs.busy = FALSE /\ t.fs.add = FALSE /\ t.fs.upd = FALSE
      BY <2>2, <2>4, DisarmFailSafeIs
    <3>2. t \in Dev
      BY <3>1 DEF SameData
    <3> QED
      BY <2>2, <2>3, <3>1, <3>2, IdleRuns DEF Running
  <2>6. ~PowerFailsIn(r)
    BY <2>2 DEF PowerFailsIn
  <2>7. Completes(t) /\ owed' = owed
    BY <1>6, <1>9, <2>6
  <2> QED
    BY <1>1, <2>5, <2>7, CompletesInv
<1>10. CASE NocInvoked(dev)
  <2>1. r = CommitPendingFabricData(s)
    BY <1>5, <1>10
  <2>2. Ready(s) /\ dev.fs.idx = i /\ i \in Index /\ i # Undefined /\ i \in InUse(s)
    <3>1. Guarded(s)
      BY <1>7 DEF Running
    <3>2. s.flags \cap {"add", "update"} # {} /\ dev.fs.idx = i
      BY <1>6, <1>7, <1>10, <3>1 DEF Guarded, NocInvoked
    <3> QED
      BY <1>6, <1>7, <3>2, NoneApart DEF Ready, InUse
  <2>3. \A u, v : OwesElsewhere(owed, u, i) => IsCommitted(s, r, u, v)
    BY <1>3, <1>4, <1>7, <2>1, <2>2, CommitIs
  <2> HIDE DEF r
  <2>4. r \in Dev /\ r.err \in BOOLEAN
    <3> DEFINE u == [owed EXCEPT ![i] = None]
    <3>1. OwesElsewhere(owed, u, i)
      BY <1>1, <2>2 DEF OwesElsewhere
    <3> HIDE DEF u
    <3>2. IsCommitted(s, r, u, u)
      BY <2>3, <3>1
    <3> QED
      BY <3>2 DEF IsCommitted, Dev
  <2>5. CASE PowerFailsIn(r) /\ owed' = [owed EXCEPT ![i] = Unsure]
    <3>1. OwesElsewhere(owed, owed', i) /\ owed'[i] = Unsure /\ owed' \in [Index -> NOC \cup {None, Unsure}]
      BY <1>1, <2>2, <2>5 DEF OwesElsewhere
    <3>2. IsCommitted(s, r, owed', owed')
      BY <2>3, <3>1
    <3>3. Logged(s, owed')
      BY <1>4 DEF Logged
    <3>4. r.bad = {} => Logged(r, owed')
      BY <1>7, <3>1, <3>2, <3>3 DEF IsCommitted
    <3> QED
      BY <1>1, <2>4, <2>5, <3>1, <3>4, PowerFailsInInv
  <2>6. CASE Completes(t) /\ r.err = TRUE
    <3> DEFINE u == [owed EXCEPT ![i] = None]
    <3>1. OwesElsewhere(owed, u, i) /\ u \in [Index -> NOC \cup {None, Unsure}]
      BY <1>1, <2>2 DEF OwesElsewhere
    <3>2. t = r
      BY <2>6
    <3> HIDE DEF u, t
    <3>3. IsCommitted(s, r, u, u)
      BY <2>3, <3>1
    <3>4. bad # {} /\ Agree(r, Undefined, u) /\ i \notin InUse(r)
      BY <1>4, <1>7, <2>6, <3>3 DEF IsCommitted
    <3>5. s.fs.idx \notin {PASE} \cup InUse(r) /\ s.fs.armed
      BY <1>6, <1>7, <2>2, <3>4 DEF PASE
    <3>6. Running(r, u)
      BY <1>4, <1>7, <2>4, <3>3, <3>4, <3>5, FailedCommitRuns DEF IsCommitted
    <3>7. ~PowerFailsIn(r)
      BY <1>4, <3>3, <3>4 DEF PowerFailsIn, IsCommitted
    <3>8. owed' = u
      BY <1>6, <1>10, <2>2, <2>6, <3>4, <3>7 DEF u
    <3> QED
      BY <1>1, <2>4, <2>6, <3>1, <3>2, <3>6, <3>8, CompletesInv
  <2>7. CASE Completes(t) /\ r.err = FALSE /\ owed' = [owed EXCEPT ![i] = Identity(r.table[i])]
    <3> DEFINE u == [owed EXCEPT ![i] = None]
               w == Identity(r.table[i])
               v == [owed EXCEPT ![i] = w]
    <3>1. OwesElsewhere(owed, u, i)
      BY <1>1, <2>2 DEF OwesElsewhere
    <3>2. v[i] = w /\ \A j \in Index \ {i} : v[j] = u[j]
      BY <1>1, <2>2
    <3>3. owed' = v
      BY <2>7
    <3>4. t = DisarmFailSafe(r)
      BY <2>7
    <3> HIDE DEF u, v, t
    <3>5. IsCommitted(s, r, u, v)
      BY <2>3, <3>1
    <3>6. Agree(r, Undefined, v) /\ i \in InUse(r)
      BY <1>7, <2>7, <3>2, <3>5 DEF IsCommitted
    <3>7. Settles(r, v) /\ Pending(r) /\ KeyPending(r) /\ r.flags = {} /\ r.work = s.work
      BY <2>4, <3>5, <3>6, NothingPending DEF IsCommitted
    <3>8. Running(t, v) /\ t \in Dev
      <4>1. /\ SameData(r, t) /\ t.work = r.work
            /\ t.fs.armed = FALSE /\ t.fs.busy = FALSE /\ t.fs.add = FALSE /\ t.fs.upd = FALSE
        BY <2>4, <3>4, DisarmFailSafeIs
      <4>2. t \in Dev
        BY <4>1 DEF SameData
      <4> QED
        BY <1>8, <2>4, <3>7, <4>1, <4>2, IdleRuns
    <3>9. owed' \in [Index -> NOC \cup {None, Unsure}]
      <4>1. r.table[i] \in Entry
        BY <2>4, <3>6 DEF Dev, InUse
      <4>2. w \in NOC
        BY <4>1 DEF Identity, NOC, Entry
      <4> HIDE DEF w
      <4> QED
        BY <1>1, <3>3, <4>2 DEF v
    <3> QED
      BY <1>1, <2>7, <3>3, <3>8, <3>9, CompletesInv
  <2> QED
    BY <1>6, <1>10, <2>2, <2>4, <2>5, <2>6, <2>7
<1> QED
  BY <1>9, <1>10

----------------------------------------------------------------------------
(* Boot.                                                                   *)

\* t is s but for the fabrics it knows and the next index.
Reads(s, t) ==
    /\ t \in Dev /\ t.disk = s.disk /\ t.log = s.log /\ t.bad = s.bad
    /\ t.pend = s.pend /\ t.pidx = s.pidx /\ t.flags = s.flags /\ t.certs = s.certs /\ t.ks = s.ks
    /\ t.fs = s.fs /\ t.work = s.work

\* s has the right number of fabrics, but may not know that the next index is.
Counts(s) ==
    /\ s.count = Cardinality(InUse(s)) /\ s.next \notin InUse(s)

(* An index is found for the next fabric, if there is one.                 *)
LEMMA EnsureFinds ==
    ASSUME NEW s \in Dev, Counts(s)
    PROVE  LET t == EnsureNextAvailableFabricIndexUpdated(s)
           IN  /\ Reads(s, t) /\ Counts(t) /\ t.table = s.table
               /\ t.next = Undefined => InUse(t) = Index
<1> DEFINE t == EnsureNextAvailableFabricIndexUpdated(s)
<1>1. CASE s.next # Undefined
  <2>1. t = s
    BY <1>1 DEF EnsureNextAvailableFabricIndexUpdated
  <2> QED
    BY <1>1, <2>1 DEF Reads
<1>2. CASE s.next = Undefined /\ s.count >= MaxIndex
  <2>1. t = s
    BY <1>2 DEF EnsureNextAvailableFabricIndexUpdated
  <2>2. Cardinality(Index) = MaxIndex
    BY IndexIsFinite, FS_Interval DEF Index
  <2> DEFINE U == InUse(s)
  <2>3. U \in SUBSET Index
    BY DEF InUse
  <2>4. s.count = Cardinality(U) /\ s.count \in Nat
    BY DEF Counts, Dev
  <2> HIDE DEF U
  <2>5. Cardinality(U) <= Cardinality(Index) /\ (Cardinality(Index) = Cardinality(U) => Index = U)
    BY <2>3, IndexIsFinite, FS_Subset
  <2>6. U = Index
    BY <1>2, <2>2, <2>4, <2>5, IndexIsFinite
  <2> QED
    BY <2>1, <2>6 DEF Reads, U
<1>3. CASE s.next = Undefined /\ ~(s.count >= MaxIndex)
  <2> DEFINE a == [s EXCEPT !.next = 1]
  <2>0. 1 \in Index /\ 1 \in AnyIndex /\ 1 # Undefined
    BY IndexIsFinite DEF Index, AnyIndex, Undefined
  <2>1. /\ a \in Dev /\ a.next = 1 /\ a.table = s.table /\ a.count = s.count /\ Reads(s, a)
    BY <2>0 DEF Dev, Reads
  <2>2. t = IF s.table[1] = None THEN a ELSE UpdateNextAvailableFabricIndex(a)
    BY <1>3 DEF EnsureNextAvailableFabricIndexUpdated
  <2>3. InUse(a) = InUse(s)
    BY <2>1 DEF InUse
  <2> HIDE DEF a
  <2>4. CASE s.table[1] = None
    <3>1. t = a
      BY <2>2, <2>4
    <3>2. 1 \notin InUse(a)
      BY <2>1, <2>4 DEF InUse
    <3> QED
      BY <2>0, <2>1, <2>3, <3>1, <3>2 DEF Counts
  <2>5. CASE s.table[1] # None
    <3>1. PICK n \in AnyIndex : /\ UpdateNextAvailableFabricIndex(a) = [a EXCEPT !.next = n]
                                /\ n # Undefined => n \in Index \ InUse(a)
                                /\ n = Undefined => Index \subseteq InUse(a) \cup {a.next}
      BY <2>1, NextFree
    <3>2. t = [a EXCEPT !.next = n]
      BY <2>2, <2>5, <3>1
    <3> HIDE DEF t
    <3>3. t.next = n /\ t.table = a.table /\ t.count = a.count /\ Reads(a, t)
      BY <2>1, <3>1, <3>2 DEF Dev, Reads
    <3>4. InUse(t) = InUse(s) /\ 1 \in InUse(s) /\ InUse(s) \subseteq Index /\ Undefined \notin InUse(s)
      BY <2>0, <2>1, <2>5, <3>3, NoneApart DEF InUse
    <3>5. n \notin InUse(t) /\ (n = Undefined => InUse(t) = Index)
      BY <2>1, <2>3, <3>1, <3>4
    <3> QED
      BY <2>1, <2>3, <3>3, <3>4, <3>5 DEF Counts, Reads, t
  <2> QED
    BY <2>4, <2>5
<1> QED
  BY <1>1, <1>2, <1>3

\* The entry FabricTable::Init makes of the disk.
LoadedEntry(d, i) == [fabric |-> d.noc[i].fabric, key |-> d.noc[i].key, label |-> d.meta[i]]
LoadedOf(d)  == {i \in d.index.fabrics : Loads(d, i)}
LoadedTable(d) == [i \in Index |-> IF i \in LoadedOf(d) THEN LoadedEntry(d, i) ELSE None]

(* The table as it is loaded agrees with the disk, but for a fabric the    *)
(* marker condemns.                                                        *)
LEMMA LoadedAgrees ==
    ASSUME NEW t \in Dev, NEW o, Restartable(t.disk, o), t.disk.index # None,
           t.table = LoadedTable(t.disk), Counts(t), t.next = Undefined => InUse(t) = Index
    PROVE  Agree(t, t.disk.marker, o)
<1> DEFINE d == t.disk
           m == d.marker
<1>1. d \in Disk /\ d.index \in IndexInfo /\ d.index.fabrics \in SUBSET Index
  BY DEF Dev, Disk, IndexInfo
<1>2. \A i \in LoadedOf(d) : i \in Index /\ Loads(d, i) /\ d.noc[i] \in NOC /\ d.meta[i] \in Labels
  BY <1>1 DEF LoadedOf, Loads, Disk
<1>3. \A i \in LoadedOf(d) : LoadedEntry(d, i) # None /\ Identity(LoadedEntry(d, i)) = d.noc[i]
  <2> SUFFICES ASSUME NEW i \in LoadedOf(d)
               PROVE  LoadedEntry(d, i) # None /\ Identity(LoadedEntry(d, i)) = d.noc[i]
    OBVIOUS
  <2> DEFINE noc == d.noc[i]
             label == d.meta[i]
  <2>1. noc \in NOC /\ label \in Labels
    BY <1>2
  <2>2. LoadedEntry(d, i) = [fabric |-> noc.fabric, key |-> noc.key, label |-> label]
    BY DEF LoadedEntry
  <2> HIDE DEF noc, label
  <2>3. LoadedEntry(d, i) \in Entry /\ Identity(LoadedEntry(d, i)) = noc
    BY <2>1, <2>2 DEF Entry, NOC, Identity
  <2> QED
    BY <2>3, NoneApart DEF noc
<1>4. InUse(t) = LoadedOf(d) /\ \A i \in InUse(t) : t.table[i] = LoadedEntry(d, i)
  BY <1>2, <1>3 DEF InUse, LoadedTable
<1>5. \A j \in Index : Survives(d, j) <=> j \in InUse(t) \ {m}
  <2>1. \A j \in Index : Survives(d, j) => j \in d.index.fabrics
    BY DEF Restartable
  <2> QED
    BY <1>2, <1>4, <2>1 DEF Survives, LoadedOf
<1>6. InUse(t) \subseteq Index
  BY DEF InUse
<1>7. \A j \in InUse(t) \ {m} : Kept(t, j)
  <2>1. \A j \in InUse(t) \ {m} : Survives(d, j) /\ Identity(t.table[j]) = d.noc[j]
    BY <1>3, <1>4, <1>5, <1>6
  <2> QED
    BY <1>6, <2>1 DEF Kept, Restartable
<1>8. \A j \in Index : \/ o[j] = Unsure
                       \/ o[j] = IF j \in InUse(t) \ {m} THEN Identity(t.table[j]) ELSE None
  <2>1. \A j \in Index : o[j] = Unsure \/ o[j] = IF Survives(d, j) THEN d.noc[j] ELSE None
    BY DEF Restartable
  <2> QED
    BY <1>3, <1>4, <1>5, <2>1
<1>9. \A j \in Index \ {m} : Loads(d, j) => j \in InUse(t)
  BY <1>5 DEF Survives
<1>10. IndexApart(d)
  BY DEF Restartable
<1> QED
  BY <1>7, <1>8, <1>9, <1>10 DEF Agree, Counts

(* A table without fabrics agrees with a disk without an index.            *)
LEMMA EmptyAgrees ==
    ASSUME NEW t \in Dev, NEW o, Restartable(t.disk, o), t.disk.index = None,
           t.table = NoFabric, t.count = 0, t.next = 1
    PROVE  Agree(t, t.disk.marker, o)
<1>1. InUse(t) = {} /\ 1 # Undefined
  BY DEF InUse, NoFabric, Undefined
<1>2. \A j \in Index : ~Survives(t.disk, j)
  BY DEF Restartable
<1>3. t.count = Cardinality(InUse(t))
  BY <1>1, FS_EmptySet
<1>4. \A j \in Index \ {t.disk.marker} : ~Loads(t.disk, j)
  BY <1>2 DEF Survives
<1>5. IndexApart(t.disk)
  BY DEF IndexApart
<1>6. \A j \in Index : o[j] = Unsure \/ o[j] = None
  BY <1>2 DEF Restartable
<1> QED
  BY <1>1, <1>3, <1>4, <1>5, <1>6 DEF Agree

LEMMA ReadFabricInfoIs ==
    ASSUME NEW s \in Dev, NEW o, Restartable(s.disk, o), s.table = NoFabric, s.count = 0, s.next = 1
    PROVE  LET t == ReadFabricInfo(s) IN Reads(s, t) /\ Agree(t, s.disk.marker, o)
<1>1. CASE s.disk.index = None
  <2>1. ReadFabricInfo(s) = s
    BY <1>1 DEF ReadFabricInfo
  <2> QED
    BY <1>1, <2>1, EmptyAgrees DEF Reads
<1>2. CASE s.disk.index # None
  <2> DEFINE d == s.disk
             L == LoadedOf(d)
             n == d.index.next
             k == Cardinality(L)
             tab == LoadedTable(d)
             a == [s EXCEPT !.next = n, !.count = k, !.table = tab]
             t == EnsureNextAvailableFabricIndexUpdated(a)
  <2>1. ReadFabricInfo(s) = t
    BY <1>2 DEF ReadFabricInfo, LoadedOf, LoadedTable, LoadedEntry
  <2>2. /\ d \in Disk /\ d.index \in IndexInfo /\ n \in AnyIndex /\ d.index.fabrics \in SUBSET Index
        /\ n \notin d.index.fabrics
    BY <1>2 DEF Dev, Disk, IndexInfo, Restartable, IndexApart
  <2>3. L \in SUBSET Index
    BY <2>2 DEF LoadedOf
  <2>4. k \in Nat
    <3> HIDE DEF L
    <3> QED
      BY <2>3, IndexIsFinite, FS_Subset, FS_CardinalityType
  <2>5. \A i \in L : LoadedEntry(d, i) \in Entry
    BY <2>2 DEF LoadedOf, LoadedEntry, Loads, Disk, NOC, Entry
  <2>6. tab \in [Index -> Entry \cup {None}] /\ \A i \in Index : tab[i] # None <=> i \in L
    BY <2>5, NoneApart DEF LoadedTable
  <2> HIDE DEF d, L, n, k, tab
  <2>7. /\ a \in Dev /\ a.next = n /\ a.count = k /\ a.table = tab /\ Reads(s, a)
    BY <2>2, <2>4, <2>6 DEF Dev, Reads
  <2> HIDE DEF a
  <2>8. InUse(a) = L
    BY <2>3, <2>6, <2>7 DEF InUse
  <2>9. Counts(a)
    <3>1. n \notin L
      BY <2>2 DEF L, LoadedOf
    <3> QED
      BY <2>7, <2>8, <3>1 DEF Counts, k
  <2>10. Reads(a, t) /\ Counts(t) /\ t.table = a.table /\ (t.next = Undefined => InUse(t) = Index)
    BY <2>7, <2>9, EnsureFinds
  <2> HIDE DEF t
  <2>11. Reads(s, t) /\ t \in Dev /\ t.disk = d
    BY <2>7, <2>10 DEF Reads, d
  <2>12. Agree(t, t.disk.marker, o)
    <3>1. Restartable(t.disk, o) /\ t.disk.index # None /\ t.table = LoadedTable(t.disk)
      BY <1>2, <2>7, <2>10, <2>11 DEF d, tab
    <3> QED
      BY <2>10, <2>11, <3>1, LoadedAgrees
  <2> QED
    BY <2>1, <2>11, <2>12 DEF d
<1> QED
  BY <1>1, <1>2

(* A process that has just started.                                        *)
LEMMA StartedIs ==
    ASSUME NEW disk \in Disk, NEW bad \in SUBSET Parts
    PROVE  LET s == Started(disk, bad)
           IN  /\ s \in Dev /\ s.disk = disk /\ s.log = <<>> /\ s.bad = bad /\ s.table = NoFabric
               /\ s.count = 0 /\ s.next = 1 /\ s.pend = None /\ s.flags = {} /\ s.certs = NoCerts
               /\ s.ks = NoKey /\ s.fs = Disarmed /\ s.work = <<>>
<1>1. /\ NoFabric \in [Index -> Entry \cup {None}] /\ <<>> \in Seq(Disk) /\ <<>> \in Seq(Work)
      /\ 1 \in AnyIndex /\ Undefined \in AnyIndex /\ {} \in SUBSET Flags /\ FALSE \in BOOLEAN
  BY IndexIsFinite DEF NoFabric, AnyIndex, Undefined
<1> QED
  BY <1>1, Initials DEF Started, Dev

\* What the device does not know it owes is resolved by what it finds.
Resolved(s, o, u) ==
    \A j \in Index : u[j] = IF o[j] # Unsure THEN o[j]
                            ELSE IF s.table[j] = None THEN None ELSE Identity(s.table[j])

LEMMA ResolvedAgrees ==
    ASSUME NEW s \in Dev, NEW o, NEW u, Agree(s, Undefined, o), Resolved(s, o, u)
    PROVE  Agree(s, Undefined, u)
<1>1. \A j \in Index : s.table[j] = None <=> j \notin InUse(s) \ {Undefined}
  BY NoneApart DEF InUse
<1>2. \A j \in Index : u[j] = Unsure \/ u[j] = IF j \in InUse(s) \ {Undefined} THEN Identity(s.table[j]) ELSE None
  BY <1>1 DEF Agree, Resolved
<1> QED
  BY <1>2 DEF Agree

\* s after the last work item was added.
ClearLater(s) == [s EXCEPT !.work = Append(@, clear)]

LEMMA Appended ==
    ASSUME NEW x, NEW y, NEW z
    PROVE  Append(<<x, y>>, z) = <<x, y, z>>
<1> DEFINE S == {x, y, z}
           l == <<x, y>>
           r == <<z>>
           m == <<x, y, z>>
           c == l \o r
<1>1. l \in Seq(S) /\ r \in Seq(S) /\ m \in Seq(S) /\ z \in S /\ Len(l) = 2 /\ Len(r) = 1 /\ Len(m) = 3
  OBVIOUS
<1>2. l[1] = x /\ l[2] = y /\ r[1] = z /\ m[1] = x /\ m[2] = y /\ m[3] = z
  OBVIOUS
<1>3. Append(l, z) = c
  BY <1>1, AppendIsConcat
<1>4. /\ c \in Seq(S) /\ Len(c) = 3
      /\ \A i \in 1..3 : c[i] = IF i <= 2 THEN l[i] ELSE r[i - 2]
  BY <1>1, ConcatProperties
<1> HIDE DEF c, l, r, m, S
<1>5. \A i \in 1..Len(c) : c[i] = m[i]
  <2>1. \A i \in 1..3 : i = 1 \/ i = 2 \/ i = 3
    OBVIOUS
  <2>2. c[1] = l[1] /\ c[2] = l[2] /\ c[3] = r[1]
    BY <1>4
  <2> QED
    BY <1>2, <1>4, <2>1, <2>2
<1>6. c = m
  BY <1>1, <1>4, <1>5, SeqEqual
<1> QED
  BY <1>3, <1>6 DEF l, m

\* The server is up: u is what it owes once it knows what it found.
Initialised(t, bad, o, u) ==
    /\ t \in Dev /\ t.bad = bad
    /\ Resolved(t, o, u) => Running(t, u)
    /\ bad = {} => Logged(t, o)

LEMMA ServerInitIs ==
    ASSUME NEW disk \in Disk, NEW bad \in SUBSET Parts, OneFault(bad), "post" \notin bad, NEW o, NEW u,
           Restartable(disk, o)
    PROVE  Initialised(ServerInit(Started(disk, bad)), bad, o, u)
<1> DEFINE s == Started(disk, bad)
           a == ReadFabricInfo(s)
           m == disk.marker
           t == ServerInit(s)
<1>1. /\ s \in Dev /\ s.disk = disk /\ s.log = <<>> /\ s.bad = bad /\ s.table = NoFabric
      /\ s.count = 0 /\ s.next = 1 /\ s.pend = None /\ s.flags = {} /\ s.certs = NoCerts
      /\ s.ks = NoKey /\ s.fs = Disarmed /\ s.work = <<>>
  BY StartedIs
<1> HIDE DEF s
<1>2. Reads(s, a) /\ Agree(a, m, o)
  BY <1>1, ReadFabricInfoIs
<1>3. t = IF m = Undefined THEN a
          ELSE ClearLater(ScheduleFailSafeCleanup(Delete(a, m), m, TRUE))
  BY <1>1 DEF ServerInit, ClearLater, clear
<1> HIDE DEF a, t
<1>4. /\ a \in Dev /\ a.disk = disk /\ a.log = <<>> /\ a.bad = bad /\ a.pend = None /\ a.flags = {}
      /\ a.certs = NoCerts /\ a.ks = NoKey /\ a.fs = Disarmed /\ a.work = <<>>
  BY <1>1, <1>2 DEF Reads
<1>5. m \in AnyIndex
  BY DEF Disk
<1>6. CASE m = Undefined
  <2>1. t = a
    BY <1>3, <1>6
  <2>2. Agree(t, Undefined, o) /\ t \in Dev
    BY <1>2, <1>4, <1>6, <2>1
  <2>3. Logged(t, o)
    BY <1>4, <2>1 DEF Logged
  <2>4. ASSUME Resolved(t, o, u) PROVE Running(t, u)
    <3>1. Agree(t, Undefined, u)
      BY <2>2, <2>4, ResolvedAgrees
    <3>2. Settles(t, u) /\ Pending(t) /\ KeyPending(t)
      BY <1>4, <2>1, <3>1, NothingPending
    <3>3. SameData(t, t)
      BY <2>2 DEF SameData
    <3>4. t.fs.armed = FALSE /\ t.fs.busy = FALSE /\ t.fs.add = FALSE /\ t.fs.upd = FALSE
          /\ t.work \in {<<>>, <<clear>>} /\ t.flags = {}
      BY <1>4, <2>1 DEF Disarmed
    <3> QED
      BY <2>2, <3>2, <3>3, <3>4, IdleRuns
  <2> QED
    BY <1>4, <2>1, <2>2, <2>3, <2>4 DEF Initialised, t, s
<1>7. CASE m # Undefined
  <2> DEFINE b == DeleteEntry(a, m)
             x == [Disarmed EXCEPT !.idx = m, !.add = TRUE]
             k == CleanupItem(m, TRUE)
             c == ScheduleFailSafeCleanup(b, m, TRUE)
  <2>0. m \in Index
    BY <1>5, <1>7, Defined
  <2>1. Delete(a, m) = b
    BY <1>4, <1>7 DEF Delete, HasPendingFabricUpdate
  <2>2. Deleted(a, b, m)
    BY <1>4, <2>0, DeleteEntryIs
  <2>3. Agree(b, Undefined, o) /\ b.table[m] = None
    BY <1>2, <1>4, <2>0, DeleteAgrees
  <2>4. bad = {} => Logged(b, o)
    <3>1. Logged(a, o) /\ Restartable(a.disk, o)
      BY <1>4 DEF Logged
    <3> QED
      BY <1>2, <1>4, <2>0, <3>1, DeleteSafe
  <2> HIDE DEF b
  <2>5. /\ b \in Dev /\ b.bad = bad /\ b.flags = {} /\ b.pend = None /\ b.fs = Disarmed /\ b.work = <<>>
        /\ b.certs = NoCerts /\ b.ks = NoKey
    BY <1>4, <2>2 DEF Deleted, CertsAfter, KeyAfter
  <2>6. x \in FailSafe /\ x.idx = m /\ x.add = TRUE
    BY <1>5 DEF Disarmed, FailSafe
  <2> HIDE DEF x
  <2>7. /\ SameData(b, c) /\ c.bad = b.bad /\ c.log = b.log
        /\ c.fs.armed = FALSE /\ c.fs.busy = TRUE
        /\ c.work = b.work \o <<k, disarm>>
        /\ k \in Cleanup /\ k.add = TRUE /\ k.idx = m
    <3> DEFINE y == ScheduleFailSafeCleanup(b, x.idx, x.add)
               z == CleanupItem(x.idx, x.add)
    <3>1. /\ SameData(b, y) /\ y.bad = b.bad /\ y.log = b.log
          /\ y.fs.armed = FALSE /\ y.fs.busy = TRUE
          /\ y.work = b.work \o <<z, disarm>>
          /\ z \in Cleanup /\ z.add = x.add /\ z.idx = x.idx
      BY <2>5, <2>6, ScheduleIs
    <3>2. y = c /\ z = k
      BY <2>6
    <3> HIDE DEF y, z, c, k
    <3> QED
      BY <2>6, <3>1, <3>2
  <2> HIDE DEF c, k
  <2>8. c.work = <<k, disarm>> /\ c \in Dev
    BY <2>5, <2>7, Joined DEF SameData
  <2>9. t = ClearLater(c)
    BY <1>3, <1>7, <2>1 DEF c
  <2>10. SameData(c, t) /\ t.fs = c.fs /\ t.bad = c.bad /\ t.log = c.log /\ t.work = <<k, disarm, clear>>
    <3> DEFINE w == <<k, disarm, clear>>
    <3>1. Append(<<k, disarm>>, clear) = w
      BY Appended
    <3>2. w \in Seq(Work)
      <4>1. k \in Work /\ disarm \in Work /\ clear \in Work
        BY <2>7 DEF Work, disarm, clear
      <4> QED
        BY <4>1
    <3>3. t = [c EXCEPT !.work = w]
      BY <2>8, <2>9, <3>1 DEF ClearLater
    <3> HIDE DEF w
    <3>4. SameData(c, t) /\ t.fs = c.fs /\ t.bad = c.bad /\ t.log = c.log /\ t.work = w
      BY <2>8, <3>2, <3>3 DEF SameData, Dev
    <3> QED
      BY <3>4 DEF w
  <2>11. SameData(b, t) /\ t \in Dev /\ t.table = b.table
    BY <2>7, <2>10 DEF SameData
  <2>12. ASSUME Resolved(t, o, u) PROVE Running(t, u)
    <3>1. Agree(b, Undefined, u)
      <4>1. Resolved(b, o, u)
        BY <2>11, <2>12 DEF Resolved
      <4> QED
        BY <2>3, <2>5, <4>1, ResolvedAgrees
    <3>2. Settles(b, u) /\ Pending(b) /\ KeyPending(b)
      BY <2>5, <3>1, NothingPending
    <3>3. k.idx \notin CommittedOf(b)
      BY <2>3, <2>7 DEF CommittedOf, InUse
    <3> QED
      BY <2>5, <2>7, <2>10, <2>11, <3>2, <3>3, ScheduledRuns
  <2>13. bad = {} => Logged(t, o)
    BY <2>4, <2>7, <2>10 DEF Logged
  <2> QED
    BY <2>5, <2>7, <2>10, <2>11, <2>12, <2>13 DEF Initialised, t, s
<1> QED
  BY <1>6, <1>7

LEMMA BootStep ==
    ASSUME Orderly, FabricInv, Boot
    PROVE  FabricInv'
<1>1. /\ dev \in OffDev /\ Restartable(dev.disk, owed) /\ dev.disk \in Disk /\ keys' \in Nat
      /\ owed \in [Index -> NOC \cup {None, Unsure}]
  BY DEF Boot, FabricInv, Dev, OffDev
<1> DEFINE S(bad) == ServerInit(Started(dev.disk, bad))
           R(s) == [i \in Index |-> IF owed[i] # Unsure THEN owed[i]
                                    ELSE IF s.table[i] = None THEN None ELSE Identity(s.table[i])]
<1>2. PICK bad \in FaultChoices : \/ Completes(S(bad)) /\ owed' = R(S(bad))
                                  \/ PowerFailsIn(S(bad)) /\ owed' = owed
  BY DEF Boot
<1>3. bad \in SUBSET Parts /\ OneFault(bad) /\ "post" \notin bad
  BY OrderlyFaults
<1> DEFINE t == S(bad)
<1>4. Initialised(t, bad, owed, owed')
  BY <1>1, <1>3, ServerInitIs
<1>5. \/ Completes(t) /\ owed' = R(t)
      \/ PowerFailsIn(t) /\ owed' = owed
  BY <1>2
<1> HIDE DEF t, S
<1>6. t \in Dev /\ t.bad = bad
  BY <1>4 DEF Initialised
<1>7. CASE Completes(t) /\ owed' = R(t)
  <2>1. Resolved(t, owed, owed')
    BY <1>7 DEF Resolved
  <2>2. owed' \in [Index -> NOC \cup {None, Unsure}]
    <3>1. \A i \in Index : t.table[i] # None => Identity(t.table[i]) \in NOC
      BY <1>6 DEF Dev, Entry, Identity, NOC
    <3> QED
      BY <1>1, <1>7, <3>1
  <2>3. Running(t, owed')
    BY <1>4, <2>1 DEF Initialised
  <2> QED
    BY <1>1, <1>6, <1>7, <2>2, <2>3, CompletesInv
<1>8. CASE PowerFailsIn(t) /\ owed' = owed
  <2>1. t.bad = {} => Logged(t, owed')
    BY <1>4, <1>6, <1>8 DEF Initialised
  <2> QED
    BY <1>1, <1>6, <1>8, <2>1, PowerFailsInInv
<1> QED
  BY <1>5, <1>7, <1>8

----------------------------------------------------------------------------
(* Every step keeps the invariant.                                         *)

LEMMA InvNext ==
    ASSUME Orderly, FabricInv, [Next]_vars
    PROVE  FabricInv'
<1>1. CASE Boot
  BY <1>1, BootStep
<1>2. CASE PowerFails
  BY <1>2, PowerFailsStep
<1>3. CASE ArmFailSafe
  BY <1>3, ArmFailSafeStep
<1>4. CASE FailSafeTimerExpired
  BY <1>4, FailSafeTimerExpiredStep
<1>5. CASE CSRRequest
  BY <1>5, CSRRequestStep
<1>6. CASE AddTrustedRootCertificate
  BY <1>6, AddTrustedRootCertificateStep
<1>7. CASE AddNOC
  BY <1>7, AddNOCStep
<1>8. CASE UpdateNOC
  BY <1>8, UpdateNOCStep
<1>9. CASE CommissioningComplete
  BY <1>9, CommissioningCompleteStep
<1>10. CASE RemoveFabric
  BY <1>10, RemoveFabricStep
<1>11. CASE UpdateFabricLabel
  BY <1>11, UpdateFabricLabelStep
<1>12. CASE RunWork
  BY <1>12, RunWorkStep
<1>13. CASE UNCHANGED vars
  BY <1>13 DEF vars, FabricInv
<1> QED
  BY <1>1, <1>2, <1>3, <1>4, <1>5, <1>6, <1>7, <1>8, <1>9, <1>10, <1>11, <1>12, <1>13 DEF Next

(* FabricInv is an invariant of every orderly run: the table, the disk and *)
(* the pending data agree, and the power may fail at any write.            *)
THEOREM FabricInvariant ==
    ASSUME Orderly
    PROVE  Spec => []FabricInv
<1>1. Init => FabricInv
  BY InvInit
<1>2. FabricInv /\ [Next]_vars => FabricInv'
  BY InvNext
<1> QED
  BY <1>1, <1>2, PTL DEF Spec

(* A fabric the device shows as committed has all its pieces on disk, of   *)
(* one generation (CommitPendingFabricData, its marker and the clean-up at *)
(* boot).                                                                  *)
THEOREM CommittedFabricIsWhole ==
    ASSUME Orderly
    PROVE  Spec => []CommittedIsWhole
<1>1. FabricInv => CommittedIsWhole
  BY InvGivesAgree
<1> QED
  BY <1>1, FabricInvariant, PTL

(* A commit that was reported to succeed lasts until RemoveFabric, and     *)
(* what was removed or rolled back does not come back after any number of  *)
(* power failures, fail-safe expiries and storage failures.                *)
THEOREM CommittedFabricIsDurable ==
    ASSUME Orderly
    PROVE  Spec => []CommittedIsDurable
<1>1. FabricInv => CommittedIsDurable
  BY InvGivesAgree
<1> QED
  BY <1>1, FabricInvariant, PTL

(* mFabricCount counts the table and mNextAvailableFabricIndex is free.    *)
THEOREM IndexIsKept ==
    ASSUME Orderly
    PROVE  Spec => []IndexBookkeeping
<1>1. FabricInv => IndexBookkeeping
  BY InvGivesAgree
<1> QED
  BY <1>1, FabricInvariant, PTL

(* What waits for its commit is all for one fabric: the NOC, the key that  *)
(* is active in its place and the shadow entry.                            *)
THEOREM PendingDataIsCoherent ==
    ASSUME Orderly
    PROVE  Spec => []PendingIsCoherent
<1>1. FabricInv => PendingIsCoherent
  BY InvGivesCoherence
<1> QED
  BY <1>1, FabricInvariant, PTL
=============================================================================
