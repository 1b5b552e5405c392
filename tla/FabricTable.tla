----------------------------- MODULE FabricTable -----------------------------
(***************************************************************************)
(* The device's fabric table and the fail-safe that guards changes to it:  *)
(* src/credentials/FabricTable.cpp with its two persistent stores          *)
(* (PersistentStorageOpCertStore, PersistentStorageOperationalKeystore),   *)
(* src/app/FailSafeContext.cpp, the commissioning commands of the          *)
(* Operational Credentials and General Commissioning clusters, and the     *)
(* recovery at boot (FabricTable::Init and Server::Init).                  *)
(*                                                                         *)
(* The device is one record, dev.  A handler is an operator from records   *)
(* to records; it works through Store, which remembers the disk as it was  *)
(* before every write, so that the power may fail between any two of them. *)
(* dev.bad holds the storage parts whose writes fail during this handler.  *)
(*                                                                         *)
(* Data is abstracted to identities.  An operational key is the number of  *)
(* the CSR it was generated for; a NOC is [fabric, key]; an ICAC is the    *)
(* key of the NOC it was delivered with; an RCAC is the fabric it roots;   *)
(* metadata is the fabric label.                                           *)
(***************************************************************************)
EXTENDS Naturals, Sequences, FiniteSets, TLC

CONSTANTS Fabrics,        \* logical fabrics (root public key and fabric id)
          Labels,         \* fabric labels
          MaxIndex,       \* kMaxValidFabricIndex (254 in the code)
          MaxFabrics,     \* CHIP_CONFIG_MAX_FABRICS, slots of mStates
          MaxKeys,        \* bound: operational keys generated
          MaxCrashes,     \* bound: power failures
          MaxFaults,      \* bound: handlers that meet a storage failure
          Faults,         \* the sets of storage parts that may fail together
          RemoveWhilePending, \* may RemoveFabric meet another fabric's pending data?
          EarlyComplete,  \* may CommissioningComplete come before the NOC command?
          None, Unsure

ASSUME FabricAssumption ==
    /\ MaxIndex \in Nat \ {0, 1} /\ MaxFabrics \in 1..MaxIndex
    /\ MaxKeys \in Nat /\ MaxCrashes \in Nat /\ MaxFaults \in Nat
    /\ RemoveWhilePending \in BOOLEAN /\ EarlyComplete \in BOOLEAN
    /\ "" \in Labels
\* None and Unsure are no piece of data.
ASSUME NoneAssumption ==
    /\ None # Unsure
    /\ None \notin Fabrics /\ None \notin Labels /\ None \notin Nat
    /\ {None, Unsure} \cap [fabric : Fabrics, key : Nat] = {}
    /\ None \notin [fabric : Fabrics, key : Nat, label : Labels]
    /\ None \notin [idx : Nat, fabric : Fabrics, key : Nat, label : Labels]
    /\ None \notin [next : Nat, fabrics : SUBSET Nat]

VARIABLES dev,      \* the device: its disk and, while it is up, its memory
          owed,     \* per index: the committed identity the device owes its administrator
          keys,     \* operational keys generated so far
          crashes,  \* power failures so far
          faults    \* handlers that met a storage failure so far

vars == <<dev, owed, keys, crashes, faults>>

Undefined == 0                         \* kUndefinedFabricIndex
Index == 1..MaxIndex
PASE == Undefined                      \* the accessing fabric of a PASE session

NoFabric == [i \in Index |-> None]
EmptyDisk == [meta |-> NoFabric, key |-> NoFabric, noc |-> NoFabric, icac |-> NoFabric,
              rcac |-> NoFabric, index |-> None, marker |-> Undefined]

NoCerts == [idx |-> Undefined, rcac |-> None, noc |-> None, icac |-> None, flags |-> {}]
NoKey   == [idx |-> Undefined, key |-> None, active |-> FALSE]
Disarmed == [armed |-> FALSE, busy |-> FALSE, add |-> FALSE, upd |-> FALSE,
             root |-> FALSE, idx |-> Undefined]

\* A device without power, and a device whose process has just started.
Off(disk) == [up |-> FALSE, disk |-> disk]
Started(disk, bad) ==
    [up |-> TRUE, disk |-> disk, log |-> <<>>, bad |-> bad, err |-> FALSE,
     table |-> NoFabric, count |-> 0, next |-> 1,
     pend |-> None, pidx |-> Undefined, flags |-> {},
     certs |-> NoCerts, ks |-> NoKey, fs |-> Disarmed, work |-> <<>>]

-----------------------------------------------------------------------------
(* Persistent storage.                                                     *)

Store(s, part, disk) ==
    IF part \in s.bad THEN s ELSE [s EXCEPT !.log = Append(@, s.disk), !.disk = disk]

Write(s, part, i, v) == Store(s, part, [s.disk EXCEPT ![part][i] = v])
Erase(s, part, i)    == Write(s, part, i, None)

-----------------------------------------------------------------------------
(* PersistentStorageOpCertStore and PersistentStorageOperationalKeystore.  *)

GetCertificate(s, i, part) ==
    IF s.certs.idx = i /\ s.certs[part] # None THEN s.certs[part] ELSE s.disk[part][i]

CertsExceptRootReverted(c) ==
    [c EXCEPT !.noc = None, !.icac = None,
              !.idx = IF c.rcac = None THEN Undefined ELSE @,
              !.flags = @ \ {"add", "update"}]

CommitOpCertsForFabric(s, i) ==
    LET c    == s.certs
        root == "root" \in c.flags
        s1   == Write(Write(s, "noc", i, c.noc), "icac", i, c.icac)
        s2   == IF root THEN Write(s1, "rcac", i, c.rcac) ELSE s1
        failed == s.bad \cap ({"noc", "icac"} \cup IF root THEN {"rcac"} ELSE {}) # {}
        s3   == IF "add" \in c.flags THEN Erase(Erase(s2, "noc", i), "icac", i) ELSE s2
    IN  IF i # c.idx \/ c.noc = None THEN [s EXCEPT !.err = TRUE]
        ELSE IF ~failed THEN [s2 EXCEPT !.certs = NoCerts, !.err = FALSE]
        ELSE [(IF root THEN Erase(s3, "rcac", i) ELSE s3) EXCEPT !.err = TRUE]

HasAnyCertificateForFabric(s, i) ==
    \E part \in {"noc", "icac", "rcac"} : s.disk[part][i] # None \/ s.certs[part] # None

\* Whatever is pending is dropped, also when it belongs to another fabric.
RemoveOpCertsForFabric(s, i) ==
    IF ~HasAnyCertificateForFabric(s, i) THEN s
    ELSE Erase(Erase(Erase([s EXCEPT !.certs = NoCerts], "noc", i), "icac", i), "rcac", i)

HasOpKeypairForFabric(s, i) ==
    (s.ks.active /\ s.ks.idx = i) \/ s.disk.key[i] # None

CommitOpKeypairForFabric(s, i) ==
    IF s.ks.idx = i /\ s.ks.active /\ "key" \notin s.bad
    THEN [Write(s, "key", i, s.ks.key) EXCEPT !.ks = NoKey, !.err = FALSE]
    ELSE [s EXCEPT !.err = TRUE]

RemoveOpKeypairForFabric(s, i) ==
    Erase([s EXCEPT !.ks = IF @.idx = i THEN NoKey ELSE @], "key", i)

-----------------------------------------------------------------------------
(* FabricTable: the index of the next fabric, deleting, reverting.         *)

HasPendingFabricUpdate(s) == s.pend # None /\ {"data", "update"} \subseteq s.flags

InUse(s) == {i \in Index : s.table[i] # None}

\* How far NextFabricIndex has to step from i to reach j.
StepsTo(i, j) == (j + MaxIndex - i) % MaxIndex

\* Mutant: the next index is taken without looking whether it is free.
UpdateNextAvailableFabricIndexBlind(s) == [s EXCEPT !.next = 1 + (@ % MaxIndex)]

UpdateNextAvailableFabricIndex(s) ==
    LET free == (Index \ InUse(s)) \ {s.next}
    IN  [s EXCEPT !.next =
            IF free = {} THEN Undefined
            ELSE CHOOSE i \in free : \A j \in free : StepsTo(s.next, i) <= StepsTo(s.next, j)]

EnsureNextAvailableFabricIndexUpdated(s) ==
    IF s.next # Undefined \/ s.count >= MaxIndex THEN s
    ELSE IF s.table[1] = None THEN [s EXCEPT !.next = 1]
         ELSE UpdateNextAvailableFabricIndex([s EXCEPT !.next = 1])

StoreFabricIndexInfo(s) ==
    Store(s, "index", [s.disk EXCEPT !.index = [next |-> s.next, fabrics |-> InUse(s)]])

\* Delete once no update of the fabric is pending.
DeleteEntry(s, i) ==
    LET s1 == RemoveOpCertsForFabric(RemoveOpKeypairForFabric(Erase(s, "meta", i), i), i)
    IN  IF s.table[i] = None THEN s1
        ELSE [StoreFabricIndexInfo([s1 EXCEPT !.table[i] = None,
                                              !.next = IF @ = Undefined THEN i ELSE @])
              EXCEPT !.count = IF @ = 0 THEN 0 ELSE @ - 1]

RevertPendingOpCertsExceptRoot(s) ==
    LET s1 == [s EXCEPT !.pend = None, !.certs = CertsExceptRootReverted(@)]
        s2 == IF "add" \in s.flags THEN DeleteEntry(s1, s.pidx) ELSE s1
    IN  [s2 EXCEPT !.flags = @ \ {"add", "update"},
                   !.pidx = IF "root" \in s.flags THEN @ ELSE Undefined]

RevertPendingFabricData(s) ==
    [RevertPendingOpCertsExceptRoot(s) EXCEPT
        !.ks = NoKey, !.certs = NoCerts, !.flags = {}, !.pidx = Undefined]

Delete(s, i) ==
    IF i = Undefined THEN s
    ELSE DeleteEntry(IF HasPendingFabricUpdate(s) /\ s.pend.idx = i
                     THEN RevertPendingFabricData(s) ELSE s, i)

-----------------------------------------------------------------------------
(* FabricTable: building up pending data.  Each returns its argument,      *)
(* with .err set, when it refuses.                                         *)

Ok(s)     == [s EXCEPT !.err = FALSE]
Refuse(s) == [s EXCEPT !.err = TRUE]

CanSetPending(s, i) == s.pidx \in {Undefined, i}

\* i = Undefined asks for a key for the next fabric to be added.
AllocatePendingOperationalKey(s, i, key) ==
    LET s1  == EnsureNextAvailableFabricIndexUpdated(s)
        use == IF i # Undefined THEN i ELSE s1.next
        s2  == [s1 EXCEPT !.flags = IF i # Undefined THEN @ \cup {"keyForUpdate"}
                                    ELSE @ \ {"keyForUpdate"}]
        s3  == [s2 EXCEPT !.pidx = use]
    IN  IF "data" \in s.flags THEN Refuse(s)
        ELSE IF use = Undefined THEN Refuse(s1)
        ELSE IF ~CanSetPending(s, use) THEN Refuse(s2)
        ELSE IF s.ks.idx \notin {Undefined, use} THEN Refuse(s3)
        ELSE Ok([s3 EXCEPT !.ks = [idx |-> use, key |-> key, active |-> FALSE],
                           !.flags = @ \cup {"key"}])

AddNewPendingTrustedRootCert(s, fabric) ==
    LET s1 == EnsureNextAvailableFabricIndexUpdated(s)
        i  == s1.next
    IN  IF s.flags \cap {"root", "update", "add"} # {} THEN Refuse(s)
        ELSE IF i = Undefined \/ ~CanSetPending(s1, i) THEN Refuse(s1)
        ELSE IF s.certs.flags # {} \/ s.disk.rcac[i] # None THEN Refuse([s1 EXCEPT !.pidx = i])
        ELSE Ok([s1 EXCEPT !.pidx = i, !.flags = @ \cup {"data", "root"},
                           !.certs.idx = i, !.certs.rcac = fabric,
                           !.certs.flags = @ \cup {"root"}])

\* Mutant: the NOC is not matched with the pending key.
ChainIsGoodForAnyKey(s, i, noc) == GetCertificate(s, i, "rcac") = noc.fabric

\* The chain and key checks of AddOrUpdateInner.
ChainIsGood(s, i, noc) ==
    /\ GetCertificate(s, i, "rcac") = noc.fabric
    /\ IF s.ks.key # None THEN s.ks.idx = i /\ s.ks.key = noc.key
       ELSE s.disk.key[i] # None

AddNewPendingFabricCommon(s, noc, icac) ==
    LET s1 == EnsureNextAvailableFabricIndexUpdated(s)
        i  == s1.next
        s2 == [s1 EXCEPT !.certs.noc = noc, !.certs.icac = icac,
                         !.certs.flags = @ \cup {"add"}]
    IN  IF "root" \notin s.flags \/ "update" \in s.flags THEN Refuse(s)
        ELSE IF \/ i = Undefined
                \/ ~HasOpKeypairForFabric(s, i) /\ s.ks.key = None
                \/ GetCertificate(s, i, "rcac") = None
                \/ /\ noc.fabric = GetCertificate(s, i, "rcac")
                   /\ \E j \in InUse(s) : s.table[j].fabric = noc.fabric
                \/ "root" \notin s.certs.flags \/ "add" \in s.certs.flags \/ i # s.certs.idx
                \/ s.disk.noc[i] # None \/ s.disk.icac[i] # None
             THEN Refuse(s1)
        ELSE IF ~CanSetPending(s, i) THEN Refuse(s2)
        ELSE IF Cardinality(InUse(s)) = MaxFabrics \/ ~ChainIsGood(s, i, noc)
             THEN Refuse(RevertPendingOpCertsExceptRoot([s2 EXCEPT !.pidx = i]))
        ELSE Ok([s2 EXCEPT
                !.pidx = i, !.count = @ + 1, !.flags = @ \cup {"add", "data"},
                !.ks.active = @ \/ s.ks.key # None,
                !.table[i] = [fabric |-> noc.fabric, key |-> noc.key, label |-> ""]])

UpdatePendingFabricCommon(s, i, noc, icac) ==
    LET s1 == [s EXCEPT !.certs = [idx |-> i, rcac |-> None, noc |-> noc, icac |-> icac,
                                   flags |-> {"update"}]]
        s2 == [s1 EXCEPT !.pidx = i, !.pend = None]
    IN  IF \/ ~HasOpKeypairForFabric(s, i) /\ s.ks.key = None
           \/ s.flags \cap {"root", "add"} # {} \/ s.table[i] = None
           \/ noc.fabric # GetCertificate(s, i, "rcac") \/ s.table[i].fabric # noc.fabric
           \/ s.certs.flags # {} \/ s.disk.rcac[i] = None \/ s.disk.noc[i] = None
        THEN Refuse(s)
        ELSE IF ~CanSetPending(s, i) THEN Refuse(s1)
        ELSE IF ~ChainIsGood(s1, i, noc) THEN Refuse(RevertPendingOpCertsExceptRoot(s2))
        ELSE Ok([s2 EXCEPT
                !.flags = @ \cup {"update", "data"}, !.ks.active = @ \/ s.ks.key # None,
                !.pend = [idx |-> i, fabric |-> noc.fabric, key |-> noc.key,
                          label |-> s.table[i].label]])

-----------------------------------------------------------------------------
(* FabricTable::CommitPendingFabricData and the commit marker.             *)

\* Mutant: no marker.
StoreCommitMarkerOmitted(s, i) == s

StoreCommitMarker(s, i) == Store(s, "marker", [s.disk EXCEPT !.marker = i])

ClearCommitMarker(s) == Store(s, "clear", [s.disk EXCEPT !.marker = Undefined])

\* The pre-flight checks: is what is pending a complete addition or update?
CommitIsCoherent(s) ==
    LET i == s.pidx
    IN  /\ i # Undefined
        /\ ("add" \in s.flags) # ("update" \in s.flags)
        /\ "update" \in s.flags => s.pend # None /\ s.pend.idx = i
        /\ "add" \in s.flags => "root" \in s.flags /\ GetCertificate(s, i, "rcac") # None
        /\ HasPendingFabricUpdate(s) \/ s.table[i] # None
        /\ HasOpKeypairForFabric(s, i)

\* Nothing to commit, or nothing that makes sense: forget what is pending.
ForgetPending(s) ==
    [s EXCEPT !.flags = {}, !.pidx = Undefined, !.pend = None, !.certs = NoCerts, !.ks = NoKey]

CommitPendingFabricData(s) ==
    LET i  == s.pidx
        s1 == StoreCommitMarker(s, i)
        s2 == [s1 EXCEPT !.flags = @ \ {"data"},
                         !.table[i] = IF "update" \in s.flags
                                      THEN [x \in {"fabric", "key", "label"} |-> s.pend[x]] ELSE @]
        s3 == Write(s2, "meta", i, s2.table[i].label)
        s4 == IF s3.ks.key = None THEN Ok(s3) ELSE CommitOpKeypairForFabric(s3, i)
        s5 == CommitOpCertsForFabric([s4 EXCEPT !.ks = IF s4.err THEN NoKey ELSE @], i)
        s6 == [s5 EXCEPT !.certs = IF s5.err THEN NoCerts ELSE @]
        s7 == IF "add" \in s.flags
              THEN StoreFabricIndexInfo(UpdateNextAvailableFabricIndex(s6)) ELSE s6
        failed == \/ s4.err \/ s5.err \/ s.bad \cap {"marker", "meta"} # {}
                  \/ "add" \in s.flags /\ "index" \in s.bad
        s8 == [s7 EXCEPT !.flags = {}, !.pidx = Undefined, !.pend = None, !.err = failed]
        s9 == IF failed THEN RevertPendingFabricData(Delete(s8, i)) ELSE s8
    IN  IF "data" \notin s.flags THEN Ok(ForgetPending(s))
        ELSE IF ~CommitIsCoherent(s) THEN Refuse(ForgetPending(s))
        ELSE ClearCommitMarker(s9)

SetFabricLabel(s, i, label) ==
    IF HasPendingFabricUpdate(s) /\ s.pend.idx = i THEN [s EXCEPT !.pend.label = label]
    ELSE LET s1 == [s EXCEPT !.table[i].label = label]
         IN  IF s.flags \cap {"add", "update"} # {} THEN s1 ELSE Write(s1, "meta", i, label)

-----------------------------------------------------------------------------
(* FailSafeContext.  Scheduled work runs later, from the event loop.       *)

\* Mutant: the clean-up is scheduled, the disarming is not.
ScheduleFailSafeCleanupOnly(s, i, add) ==
    [s EXCEPT !.fs.busy = TRUE, !.fs.armed = FALSE,
              !.work = Append(@, [do |-> "cleanup", idx |-> i, add |-> add])]

ScheduleFailSafeCleanup(s, i, add) ==
    [s EXCEPT !.fs.busy = TRUE, !.fs.armed = FALSE,
              !.work = @ \o (IF "post" \in s.bad THEN <<>>
                             ELSE << [do |-> "cleanup", idx |-> i, add |-> add] >>)
                         \o << [do |-> "disarm"] >>]

\* Mutant: the fabric of the fail-safe is deleted whether it was added or not.
FailSafeCleanupAlwaysDeletes(s, i, add) == Delete(RevertPendingFabricData(s), i)

\* OpCreds' handler of the kFailSafeTimerExpired event.
FailSafeCleanup(s, i, add) ==
    LET s1 == RevertPendingFabricData(s) IN IF add THEN Delete(s1, i) ELSE s1

DisarmFailSafe(s) == [s EXCEPT !.fs = [Disarmed EXCEPT !.idx = s.fs.idx]]

NocInvoked(s) == s.fs.add \/ s.fs.upd

-----------------------------------------------------------------------------
(* FabricTable::Init, ReadFabricInfo and the end of Server::Init.          *)

Loads(disk, i) == disk.noc[i] # None /\ disk.rcac[i] # None /\ disk.meta[i] # None

ReadFabricInfo(s) ==
    IF s.disk.index = None THEN s
    ELSE LET loaded == {i \in s.disk.index.fabrics : Loads(s.disk, i)}
         IN  EnsureNextAvailableFabricIndexUpdated(
               [s EXCEPT !.next = s.disk.index.next, !.count = Cardinality(loaded),
                         !.table = [i \in Index |->
                            IF i \in loaded
                            THEN [fabric |-> s.disk.noc[i].fabric, key |-> s.disk.noc[i].key,
                                  label |-> s.disk.meta[i]]
                            ELSE None]])

ServerInit(s) ==
    LET s1 == ReadFabricInfo(s)
        i  == s.disk.marker
        s2 == ScheduleFailSafeCleanup(Delete(s1, i), i, TRUE)
    IN  IF i = Undefined THEN s1
        ELSE [s2 EXCEPT !.work = Append(@, [do |-> "clearMarker"])]

-----------------------------------------------------------------------------
(* Steps.  A handler runs to its end, or the power fails between two of    *)
(* its writes.                                                             *)

Begin(bad) == [dev EXCEPT !.bad = bad]
Settled(s) == [s EXCEPT !.log = <<>>, !.bad = {}, !.err = FALSE]

\* The storage failures a handler may meet.
FaultChoices == {{}} \cup (IF faults < MaxFaults THEN Faults ELSE {})
CountFault(bad) == faults' = faults + (IF bad = {} THEN 0 ELSE 1)

Completes(s) == dev' = Settled(s) /\ UNCHANGED crashes

\* A handler meets a storage failure or a power failure, not both: the code
\* itself gives up on that case ("may be inconsistent if reboot happens").
PowerFailsIn(s) ==
    /\ crashes < MaxCrashes /\ s.bad = {}
    /\ crashes' = crashes + 1
    /\ \E k \in 1..Len(s.log) : dev' = Off(s.log[k])

Identity(info) == [fabric |-> info.fabric, key |-> info.key]

Boot ==
    /\ ~dev.up
    /\ \E bad \in FaultChoices :
        /\ CountFault(bad)
        /\ LET s == ServerInit(Started(dev.disk, bad))
           IN  \/ /\ Completes(s)
                  /\ owed' = [i \in Index |->
                        IF owed[i] # Unsure THEN owed[i]
                        ELSE IF s.table[i] = None THEN None ELSE Identity(s.table[i])]
               \/ PowerFailsIn(s) /\ UNCHANGED owed
    /\ UNCHANGED keys

PowerFails ==
    /\ dev.up /\ crashes < MaxCrashes
    /\ crashes' = crashes + 1
    /\ dev' = Off(dev.disk)
    /\ UNCHANGED <<owed, keys, faults>>

\* A CASE session has the fabric it was set up on, and ends with that fabric.
Sessions == {PASE} \cup InUse(dev)

ArmedFor(a) == dev.fs.armed /\ dev.fs.idx = a

\* A handler that only changes memory.
InMemory(s) == Completes(s) /\ UNCHANGED <<owed, faults>>

ArmFailSafe ==
    /\ dev.up
    /\ \E a \in Sessions :
        /\ ~dev.fs.busy /\ (dev.fs.armed => dev.fs.idx = a)
        /\ InMemory([dev EXCEPT !.fs.armed = TRUE, !.fs.idx = a])
    /\ UNCHANGED keys

\* A timer of the fail-safe fires, or a command forces the expiry.
FailSafeTimerExpired ==
    /\ dev.up /\ dev.fs.armed
    /\ \E bad \in FaultChoices \cap {{}, {"post"}} :
        /\ CountFault(bad)
        /\ Completes(ScheduleFailSafeCleanup(Begin(bad), dev.fs.idx, dev.fs.add))
    /\ UNCHANGED <<owed, keys>>

CSRRequest ==
    /\ dev.up /\ keys < MaxKeys
    /\ \E a \in Sessions, forUpdate \in BOOLEAN :
        /\ ArmedFor(a) /\ ~NocInvoked(dev)
        /\ forUpdate => a # PASE
        /\ InMemory(AllocatePendingOperationalKey(dev, IF forUpdate THEN a ELSE Undefined, keys + 1))
    /\ keys' = keys + 1

AddTrustedRootCertificate ==
    /\ dev.up
    /\ \E a \in Sessions, fabric \in Fabrics :
        LET s == AddNewPendingTrustedRootCert(dev, fabric)
        IN  /\ ArmedFor(a) /\ ~dev.fs.root /\ ~NocInvoked(dev)
            /\ InMemory([s EXCEPT !.fs.root = ~s.err])
    /\ UNCHANGED keys

\* NOCs an administrator may present: for a key the device has generated.
NOCs  == [fabric : Fabrics, key : 1..keys]
ICACs(noc) == {None, noc.key}

\* "acl": the group key set or the access control entry cannot be stored.
AddNOC ==
    /\ dev.up
    /\ \E a \in Sessions, noc \in NOCs, bad \in FaultChoices : \E icac \in ICACs(noc) :
        LET s == AddNewPendingFabricCommon(Begin(bad), noc, icac)
            t == CASE s.err -> s
                   [] ~s.err /\ "acl" \in bad -> RevertPendingOpCertsExceptRoot(s)
                   [] OTHER -> [s EXCEPT !.fs.add = TRUE, !.fs.idx = s.pidx]
        IN  /\ ArmedFor(a) /\ ~NocInvoked(dev)
            /\ "key" \in dev.flags /\ "keyForUpdate" \notin dev.flags /\ dev.fs.root
            /\ CountFault(bad)
            /\ Completes(t) \/ PowerFailsIn(t)
    /\ UNCHANGED <<owed, keys>>

UpdateNOC ==
    /\ dev.up
    /\ \E a \in Sessions \ {PASE}, noc \in NOCs : \E icac \in ICACs(noc) :
        LET s == UpdatePendingFabricCommon(dev, a, noc, icac)
        IN  /\ ArmedFor(a) /\ ~NocInvoked(dev)
            /\ {"key", "keyForUpdate"} \subseteq dev.flags
            /\ InMemory([s EXCEPT !.fs.upd = ~s.err])
    /\ UNCHANGED keys

CommissioningComplete ==
    /\ dev.up
    /\ \E a \in Sessions \ {PASE}, bad \in FaultChoices :
        LET i == dev.pidx
            s == IF NocInvoked(dev) THEN CommitPendingFabricData(Begin(bad)) ELSE Ok(Begin(bad))
        IN  /\ ArmedFor(a)
            /\ EarlyComplete \/ NocInvoked(dev) \/ dev.flags = {}
            /\ CountFault(bad)
            /\ \/ /\ Completes(IF s.err THEN s ELSE DisarmFailSafe(s))
                  /\ owed' = IF i = Undefined \/ ~NocInvoked(dev) THEN owed
                             ELSE IF ~s.err THEN [owed EXCEPT ![i] = Identity(s.table[i])]
                             ELSE IF bad # {} THEN [owed EXCEPT ![i] = None]
                             ELSE owed
               \/ PowerFailsIn(s) /\ owed' = [owed EXCEPT ![i] = Unsure]
    /\ UNCHANGED keys

RemoveFabric ==
    /\ dev.up
    /\ \E i \in Index, bad \in FaultChoices :
        LET s == Delete(Begin(bad), i)
        IN  /\ \/ RemoveWhilePending
               \/ dev.certs.idx \in {Undefined, i} /\ (dev.ks.idx = i => i \in InUse(dev))
            /\ CountFault(bad)
            /\ \/ Completes(s) /\ owed' = [owed EXCEPT ![i] = None]
               \/ PowerFailsIn(s) /\ owed' = [owed EXCEPT ![i] = Unsure]
    /\ UNCHANGED keys

UpdateFabricLabel ==
    /\ dev.up
    /\ \E a \in InUse(dev), label \in Labels, bad \in FaultChoices :
        /\ \A j \in InUse(dev) \ {a} : dev.table[j].label # label
        /\ CountFault(bad)
        /\ Completes(SetFabricLabel(Begin(bad), a, label))
    /\ UNCHANGED <<owed, keys>>

\* The event loop runs the next scheduled work item.
RunWork ==
    /\ dev.up /\ dev.work # <<>>
    /\ \E bad \in FaultChoices :
        LET w == Head(dev.work)
            s0 == [Begin(bad) EXCEPT !.work = Tail(@)]
            s == CASE w.do = "cleanup" -> FailSafeCleanup(s0, w.idx, w.add)
                   [] w.do = "disarm"  -> DisarmFailSafe(s0)
                   [] OTHER            -> ClearCommitMarker(s0)
        IN  /\ CountFault(bad)
            /\ Completes(s) \/ PowerFailsIn(s)
    /\ UNCHANGED <<owed, keys>>

-----------------------------------------------------------------------------
\* A factory-new device, or one on which a fabric was commissioned before.
Init ==
    /\ \/ dev = Off(EmptyDisk)
       \/ \E f \in Fabrics, c \in {None, 1} :
            dev = Off([EmptyDisk EXCEPT
                        !.meta[1] = "", !.key[1] = 1, !.rcac[1] = f, !.icac[1] = c,
                        !.noc[1] = [fabric |-> f, key |-> 1],
                        !.index = [next |-> 1 + (1 % MaxIndex), fabrics |-> {1}]])
    /\ owed = [i \in Index |-> IF dev.disk.noc[i] = None THEN None ELSE dev.disk.noc[i]]
    /\ keys = 1 /\ crashes = 0 /\ faults = 0

Next ==
    \/ Boot \/ PowerFails \/ ArmFailSafe \/ FailSafeTimerExpired
    \/ CSRRequest \/ AddTrustedRootCertificate \/ AddNOC \/ UpdateNOC
    \/ CommissioningComplete \/ RemoveFabric \/ UpdateFabricLabel \/ RunWork

Spec == Init /\ [][Next]_vars

FabricSymmetry == Permutations(Fabrics)

-----------------------------------------------------------------------------
(* Properties.                                                             *)

PendingAdd == IF "add" \in dev.flags THEN dev.pidx ELSE Undefined
Committed == InUse(dev) \ {PendingAdd}

\* Every stored piece of the fabric is there and they belong together.
Whole(disk, i) ==
    /\ disk.meta[i] # None /\ disk.key[i] # None /\ disk.noc[i] # None /\ disk.rcac[i] # None
    /\ disk.noc[i].key = disk.key[i]
    /\ disk.noc[i].fabric = disk.rcac[i]
    /\ disk.icac[i] \in {None, disk.key[i]}

\* Whatever the power and the storage do, a fabric the device shows as
\* committed has its metadata, key and certificates on disk, all of the same
\* generation (CommitPendingFabricData's marker and Init's clean-up).
CommittedIsWhole ==
    dev.up => \A i \in Committed :
        Whole(dev.disk, i) /\ dev.disk.noc[i] = Identity(dev.table[i])

\* A commit that was reported to succeed lasts until the fabric is removed, and
\* a removed or reverted fabric never comes back: not through a reboot, a
\* fail-safe expiry, the commands of other administrators or the clean-up at boot.
CommittedIsDurable ==
    dev.up => \A i \in Index :
        \/ owed[i] = Unsure
        \/ owed[i] = IF i \in Committed THEN Identity(dev.table[i]) ELSE None

\* mFabricCount and mNextAvailableFabricIndex stay right: the index for the
\* next fabric is never that of a committed fabric, and there is none only when
\* all indices are taken.
IndexBookkeeping ==
    dev.up => /\ dev.count = Cardinality(InUse(dev))
              /\ dev.next \notin Committed
              /\ dev.next = Undefined => InUse(dev) = Index

\* An addition or update that waits for its commit is all for one fabric: the
\* pending NOC (unless a RemoveFabric took it away), the key that is active in
\* its place and the shadow entry are for the index the table is working on,
\* and the NOC is for that key.
PendingIsCoherent ==
    dev.up /\ dev.flags \cap {"add", "update"} # {} =>
        /\ dev.certs.noc # None =>
              /\ dev.certs.idx = dev.pidx
              /\ dev.certs.noc.key = IF dev.ks.active THEN dev.ks.key ELSE dev.disk.key[dev.pidx]
        /\ dev.ks.active => dev.ks.idx = dev.pidx
        /\ "update" \in dev.flags =>
              dev.pend # None /\ dev.pend.idx = dev.pidx /\ dev.pidx \in Committed

-----------------------------------------------------------------------------
\* The fail-safe's timer fires (the cumulative timer bounds re-arming), the
\* event loop runs scheduled work, and a device without power is started again:
\* weak fairness of FailSafeTimerExpired, RunWork and Boot.  The first and the
\* last end the very state that enables them, so for them it is enough to say
\* that the state does not last; RunWork may leave more work behind.
Fairness ==
    /\ []<>~(dev.up /\ dev.fs.armed)
    /\ []<>~(dev.up /\ dev.work # <<>>) \/ []<><<RunWork>>_vars
    /\ []<>dev.up
FairSpec == Spec /\ Fairness

Unsettled == dev.up /\ (dev.flags # {} \/ dev.fs.armed \/ dev.fs.busy)

\* However administrators interleave their commands and wherever the power
\* fails, the fail-safe ends and takes all pending data with it.
FailSafeEnds == Unsettled ~> ~Unsettled
=============================================================================
