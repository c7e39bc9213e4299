---------------------------- MODULE ThdMonProofs ----------------------------
(***************************************************************************)
(* Theorems about thread discovery for every set of threads, every number  *)
(* of generations and of rescans, births and deaths at any time.           *)
(***************************************************************************)
EXTENDS ThdMon, TLAPS

USE MonAssumption

-----------------------------------------------------------------------------
(* The inductive invariant.                                                 *)

Active(s) == scan[s].at # "none"
Reading(s) == scan[s].at \in {"read", "insert"}

\* Scans exclude each other: stop_mtx serializes them with polling; without it
\* nothing does, and a second caller of discover_threads may be scanning too.
Serial == Polling \/ \A r, s \in Rescanners : r = s

\* How far construction, the poller's loop and destruction are.
Phases ==
    /\ poller = "unborn" <=> ~Polling \/ owner = "ctor"
    /\ poller = "self" => owner = "init"
    /\ poller \in {"unborn", "self"} => poll_initialized = 0
    /\ poller = "done" => stop
    /\ stop => owner \in {"stopping", "gone"}
    /\ Poller \in alive <=> poller \notin {"unborn", "done"}
    /\ Poller \in born <=> poller # "unborn"
    /\ Poller \in known <=> poller \notin {"unborn", "self"}

\* Who may be scanning, and which lock it holds.
Scanners ==
    /\ poller \in {"scan", "woken"} => stop_mtx = Poller
    /\ Active(Poller) <=> poller = "scan"
    /\ \A s \in Thd : Active(s) =>
         \/ s \in Rescanners /\ owner = "up" /\ (Polling => stop_mtx = s)
         \/ s = Owner /\ owner = "init" /\ ~Polling

\* What a scan has in its hands exists or did exist.
Existed ==
    /\ alive \subseteq born /\ known \subseteq born
    /\ Thd \ Unborn \subseteq born
    /\ \A s \in Tid : scan[s].dir \subseteq born
    /\ \A s \in Tid : scan[s].at = "insert" => scan[s].tid \in born \cap Thd

\* Without polling no generation passes and nobody is ever taken for gone.
OneGeneration ==
    ~Polling => gen = 0 /\ \A s \in Tid : scan[s].at = "sweep" => scan[s].dir = {}

\* A scan reaches every known thread that is alive, or has reached it; what it
\* sweeps is known and is gone.
Present ==
    \A s \in Tid :
        /\ Reading(s) => \A t \in alive \cap known : t \in scan[s].dir \/ seen[t] = gen
        /\ scan[s].at = "sweep" => scan[s].dir \cap alive = {} /\ scan[s].dir \subseteq known

\* Reported and not yet in known_thds.
Inserting == {t \in Tid : \E s \in Tid : scan[s].at = "insert" /\ scan[s].tid = t}

\* What has been told of a thread is what known_thds says; when scans overlap a
\* thread may have been reported more than once.
Told ==
    /\ told[Poller] = 0
    /\ \A t \in Thd :
         /\ t \notin known \cup Inserting => told[t] = 0
         /\ t \in known \cup Inserting => told[t] > 0 /\ (Serial => told[t] = 1)
    /\ Serial => Inserting \cap known = {}

\* While the constructor waits, a thread it must not miss is known or still
\* ahead of the scan.
FirstScan ==
    owner = "init" =>
        \A t \in (alive \cap Thd) \ Unborn :
            /\ poll_initialized > 0 => t \in known
            /\ \A s \in Tid : Active(s) =>
                 \/ t \in known
                 \/ Reading(s) /\ t \in scan[s].dir
                 \/ scan[s].at = "insert" /\ scan[s].tid = t

Inv ==
    /\ TypeOK /\ Phases /\ Scanners /\ Existed
    /\ OneGeneration /\ Present /\ Told /\ FirstScan

-----------------------------------------------------------------------------
(* Facts about single scans.                                                *)

\* The scan_tasks records the actions write are scans again.
LEMMA ScanUpdate ==
    ASSUME scan \in [Tid -> ScanType], NEW s \in Tid,
           NEW at \in {"none", "read", "insert", "sweep"}, NEW dir \in SUBSET Tid,
           NEW tid \in Tid \cup {NoThd}
    PROVE  [scan EXCEPT ![s] = [at |-> at, dir |-> dir, tid |-> tid]] \in [Tid -> ScanType]
  BY DEF ScanType

\* No scan overlaps another one if stop_mtx, or having one caller only,
\* serializes them.
LEMMA OneScan ==
    ASSUME TypeOK, Phases, Scanners, Serial,
           NEW r \in Tid, NEW s \in Tid, Active(r), Active(s)
    PROVE  r = s
  BY DEF TypeOK, Phases, Scanners, Serial, Tid

\* NextGen is a value of gen_t.
LEMMA NextGenType ==
    ASSUME gen \in 0 .. Gens - 1
    PROVE  NextGen \in 0 .. Gens - 1
  BY DEF NextGen

-----------------------------------------------------------------------------
(* What the steps do to the scans, one field at a time.                     *)

\* Only the scan of s changes.
Others(s) == \A r \in Tid \ {s} : scan'[r] = scan[r]

\* A scan starts with the threads that are alive.
LEMMA BeginScanEffect ==
    ASSUME TypeOK, NEW s \in Tid, BeginScan(s)
    PROVE  /\ scan' \in [Tid -> ScanType] /\ Others(s)
           /\ scan'[s].at = "read" /\ scan'[s].dir = alive
  BY ScanUpdate DEF TypeOK, BeginScan, Others

\* A scan ends when it has nothing left to remove.
LEMMA EndScanEffect ==
    ASSUME TypeOK, NEW s \in Tid, EndScan(s)
    PROVE  /\ scan' \in [Tid -> ScanType] /\ Others(s)
           /\ scan[s].at = "sweep" /\ scan[s].dir = {}
           /\ scan'[s].at = "none" /\ scan'[s].dir = {}
  BY ScanUpdate DEF TypeOK, EndScan, ScanDone, NoScan, Others

\* A scan visits one entry of the directory.
LEMMA VisitEffect ==
    ASSUME TypeOK, NEW s \in Tid, NEW t \in Tid, Visit(s, t)
    PROVE  /\ scan' \in [Tid -> ScanType] /\ Others(s)
           /\ scan[s].at = "read" /\ t \in scan[s].dir
           /\ scan'[s].dir = scan[s].dir \ {t}
           /\ t \in known => scan'[s].at = "read"
           /\ t \notin known => scan'[s].at = "insert" /\ scan'[s].tid = t
  <1>1. scan[s] \in ScanType
    BY DEF TypeOK
  <1>2. CASE t \in known
    <2>1. scan' = [scan EXCEPT ![s] = [scan[s] EXCEPT !.dir = scan[s].dir \ {t}]]
      BY <1>2 DEF Visit
    <2>2. [scan[s] EXCEPT !.dir = scan[s].dir \ {t}]
            = [at |-> scan[s].at, dir |-> scan[s].dir \ {t}, tid |-> scan[s].tid]
      BY <1>1 DEF ScanType
    <2> QED
      BY <1>1, <1>2, <2>1, <2>2, ScanUpdate DEF TypeOK, Visit, ScanType, Others
  <1>3. CASE t \notin known
    <2>1. scan' = [scan EXCEPT ![s] = [at |-> "insert", dir |-> scan[s].dir \ {t}, tid |-> t]]
      BY <1>3 DEF Visit
    <2> QED
      BY <1>1, <1>3, <2>1, ScanUpdate DEF TypeOK, Visit, ScanType, Others
  <1> QED
    BY <1>2, <1>3

\* A thread that was found new is inserted.
LEMMA InsertEffect ==
    ASSUME TypeOK, NEW s \in Tid, Insert(s)
    PROVE  /\ scan' \in [Tid -> ScanType] /\ Others(s)
           /\ scan[s].at = "insert"
           /\ scan'[s].at = "read" /\ scan'[s].dir = scan[s].dir
  <1>1. scan[s] \in ScanType
    BY DEF TypeOK
  <1>2. scan' = [scan EXCEPT ![s] = [at |-> "read", dir |-> scan[s].dir, tid |-> NoThd]]
    BY DEF Insert
  <1> QED
    BY <1>1, <1>2, ScanUpdate DEF TypeOK, Insert, ScanType, Others

\* After the directory, a scan collects the entries of older generations.
LEMMA CollectEffect ==
    ASSUME TypeOK, NEW s \in Tid, Collect(s)
    PROVE  /\ scan' \in [Tid -> ScanType] /\ Others(s)
           /\ scan[s].at = "read" /\ scan[s].dir = {}
           /\ scan'[s].at = "sweep" /\ scan'[s].dir = ToRemove
  <1>1. ToRemove \in SUBSET Tid
    BY DEF ToRemove, TypeOK
  <1> QED
    BY <1>1, ScanUpdate DEF TypeOK, Collect, Others

\* A scan removes one of the entries it collected.
LEMMA RemoveEffect ==
    ASSUME TypeOK, NEW s \in Tid, NEW t \in Tid, Remove(s, t)
    PROVE  /\ scan' \in [Tid -> ScanType] /\ Others(s)
           /\ scan[s].at = "sweep" /\ t \in scan[s].dir
           /\ scan'[s].at = "sweep" /\ scan'[s].dir = scan[s].dir \ {t}
  <1>1. scan[s] \in ScanType
    BY DEF TypeOK
  <1>2. scan' = [scan EXCEPT ![s] = [scan[s] EXCEPT !.dir = scan[s].dir \ {t}]]
    BY DEF Remove
  <1>3. [scan[s] EXCEPT !.dir = scan[s].dir \ {t}]
          = [at |-> scan[s].at, dir |-> scan[s].dir \ {t}, tid |-> scan[s].tid]
    BY <1>1 DEF ScanType
  <1> QED
    BY <1>1, <1>2, <1>3, ScanUpdate DEF TypeOK, Remove, ScanType, Others

\* Only scans that read the directory may see the new thread.
LEMMA BirthEffect ==
    ASSUME TypeOK, NEW t \in Thd, Birth(t)
    PROVE  /\ scan' \in [Tid -> ScanType]
           /\ \A s \in Tid : /\ scan'[s].at = scan[s].at /\ scan'[s].tid = scan[s].tid
                             /\ scan[s].dir \subseteq scan'[s].dir
                             /\ scan'[s].dir \subseteq scan[s].dir \cup {t}
                             /\ ~Reading(s) => scan'[s].dir = scan[s].dir
  <1>1. PICK S \in SUBSET Readers :
          scan' = [s \in Tid |-> IF s \in S THEN [scan[s] EXCEPT !.dir = @ \cup {t}] ELSE scan[s]]
    BY DEF Birth
  <1>2. ASSUME NEW s \in Tid
        PROVE  /\ scan'[s].at = scan[s].at /\ scan'[s].tid = scan[s].tid
               /\ scan[s].dir \subseteq scan'[s].dir
               /\ scan'[s].dir \subseteq scan[s].dir \cup {t}
               /\ ~Reading(s) => scan'[s].dir = scan[s].dir
               /\ scan'[s] \in ScanType
    <2>1. scan[s] \in ScanType
      BY DEF TypeOK
    <2>2. CASE s \in S
      <3>1. scan'[s] = [scan[s] EXCEPT !.dir = scan[s].dir \cup {t}]
        BY <1>1, <2>2
      <3>2. scan'[s] = [at |-> scan[s].at, dir |-> scan[s].dir \cup {t}, tid |-> scan[s].tid]
        BY <2>1, <3>1 DEF ScanType
      <3>3. scan[s].dir \cup {t} \in SUBSET Tid
        BY <2>1 DEF ScanType, Tid
      <3>4. scan'[s] \in ScanType
        BY <2>1, <3>2, <3>3 DEF ScanType
      <3> QED
        BY <1>1, <2>2, <3>2, <3>4 DEF Readers, Reading
    <2>3. CASE s \notin S
      BY <1>1, <2>1, <2>3
    <2> QED
      BY <2>2, <2>3
  <1> QED
    BY <1>1, <1>2

\* Only scans that read the directory may miss a thread that ends.
LEMMA DeathEffect ==
    ASSUME TypeOK, NEW t \in Thd, Death(t)
    PROVE  /\ scan' \in [Tid -> ScanType]
           /\ \A s \in Tid : /\ scan'[s].at = scan[s].at /\ scan'[s].tid = scan[s].tid
                             /\ scan'[s].dir \subseteq scan[s].dir
                             /\ scan[s].dir \ {t} \subseteq scan'[s].dir
                             /\ ~Reading(s) => scan'[s].dir = scan[s].dir
  <1>1. PICK S \in SUBSET Readers :
          scan' = [s \in Tid |-> IF s \in S THEN [scan[s] EXCEPT !.dir = @ \ {t}] ELSE scan[s]]
    BY DEF Death
  <1>2. ASSUME NEW s \in Tid
        PROVE  /\ scan'[s].at = scan[s].at /\ scan'[s].tid = scan[s].tid
               /\ scan'[s].dir \subseteq scan[s].dir
               /\ scan[s].dir \ {t} \subseteq scan'[s].dir
               /\ ~Reading(s) => scan'[s].dir = scan[s].dir
               /\ scan'[s] \in ScanType
    <2>1. scan[s] \in ScanType
      BY DEF TypeOK
    <2>2. CASE s \in S
      <3>1. scan'[s] = [scan[s] EXCEPT !.dir = scan[s].dir \ {t}]
        BY <1>1, <2>2
      <3>2. scan'[s] = [at |-> scan[s].at, dir |-> scan[s].dir \ {t}, tid |-> scan[s].tid]
        BY <2>1, <3>1 DEF ScanType
      <3>3. scan[s].dir \ {t} \in SUBSET Tid
        BY <2>1 DEF ScanType, Tid
      <3>4. scan'[s] \in ScanType
        BY <2>1, <3>2, <3>3 DEF ScanType
      <3> QED
        BY <1>1, <2>2, <3>2, <3>4 DEF Readers, Reading
    <2>3. CASE s \notin S
      BY <1>1, <2>1, <2>3
    <2> QED
      BY <2>2, <2>3
  <1> QED
    BY <1>1, <1>2

-----------------------------------------------------------------------------
(* Facts about the poller in a scan.                                        *)

\* A scan that comes across the poller finds it in known_thds.
LEMMA PollerKnown ==
    ASSUME TypeOK, Phases, Scanners, Existed, NEW s \in Tid, Active(s), Poller \in scan[s].dir
    PROVE  Poller \in known
  <1>1. Poller \in born
    BY DEF Existed
  <1>2. poller # "unborn"
    BY <1>1 DEF Phases
  <1>3. poller # "self"
    BY <1>2 DEF Phases, Scanners, Tid
  <1> QED
    BY <1>2, <1>3 DEF Phases

\* What a scan sweeps is a thread of the application, with polling only.
LEMMA SweptGone ==
    ASSUME TypeOK, Phases, Scanners, Existed, OneGeneration, Present,
           NEW s \in Tid, NEW t \in Tid, scan[s].at = "sweep", t \in scan[s].dir
    PROVE  t \in Thd /\ t \notin alive /\ t \in known /\ Polling
  <1>1. Polling
    BY DEF OneGeneration
  <1>2. t \notin alive /\ t \in known
    BY DEF Present
  <1>3. ASSUME t = Poller
        PROVE  FALSE
    <2>1. poller = "done"
      BY <1>2, <1>3 DEF Phases
    <2>2. owner \in {"stopping", "gone"}
      BY <2>1 DEF Phases
    <2> QED
      BY <2>1, <2>2 DEF Scanners, Active, Tid
  <1> QED
    BY <1>1, <1>2, <1>3 DEF Tid

-----------------------------------------------------------------------------
(* Each part of the invariant is preserved by every step.                   *)

\* Every step keeps the types.
LEMMA TypeStep ==
    ASSUME TypeOK, Existed, [Next]_vars
    PROVE  TypeOK'
  <1>1. Owner \in Tid /\ Poller \in Tid /\ Thd \subseteq Tid
    BY DEF Tid
  <1>2. CASE Construct
    BY <1>1, <1>2, BeginScanEffect, EndScanEffect
    DEF TypeOK, Construct, StartPoller, AwaitPoller, ConstructorScan, ConstructorScanned, Initialized, env, table
  <1>3. CASE Self
    BY <1>1, <1>3, BeginScanEffect DEF TypeOK, Self, env
  <1>4. CASE Wait
    BY <1>1, <1>4, EndScanEffect DEF TypeOK, Wait, env, table
  <1>5. CASE Wake
    BY <1>1, <1>5 DEF TypeOK, Wake, env, table
  <1>6. CASE Loop
    BY <1>1, <1>6, NextGenType, BeginScanEffect DEF TypeOK, Loop
  <1>7. CASE Stop \/ Join
    BY <1>7 DEF TypeOK, Stop, Join, env, table, Polling
  <1>8. ASSUME NEW s \in Tid, NEW t \in Tid, Visit(s, t)
        PROVE  TypeOK'
    BY <1>8, VisitEffect DEF TypeOK, Visit, env, ctrl
  <1>9. ASSUME NEW s \in Tid, Insert(s)
        PROVE  TypeOK'
    <2>1. scan[s].tid \in Tid
      BY <1>1, <1>9 DEF Insert, Existed
    <2> QED
      BY <1>9, <2>1, InsertEffect DEF TypeOK, Insert, env, ctrl
  <1>10. ASSUME NEW s \in Tid, Collect(s)
         PROVE  TypeOK'
    BY <1>10, CollectEffect DEF TypeOK, Collect, env, ctrl, table
  <1>11. ASSUME NEW s \in Tid, NEW t \in Tid, Remove(s, t)
         PROVE  TypeOK'
    <2>1. scan' \in [Tid -> ScanType]
      BY <1>11, RemoveEffect
    <2>2. known' \in SUBSET Tid /\ told' \in [Tid -> Int]
      BY <1>11 DEF TypeOK, Remove
    <2> QED
      BY <1>11, <2>1, <2>2 DEF TypeOK, Remove, env, ctrl
  <1>12. ASSUME NEW s \in Thd, Rescan(s)
         PROVE  TypeOK'
    BY <1>1, <1>12, NextGenType, BeginScanEffect DEF TypeOK, Rescan, env
  <1>13. ASSUME NEW s \in Thd, RescanDone(s)
         PROVE  TypeOK'
    BY <1>1, <1>13, EndScanEffect DEF TypeOK, RescanDone, env, table
  <1>14. ASSUME NEW t \in Thd, Birth(t)
         PROVE  TypeOK'
    <2>1. scan' \in [Tid -> ScanType]
      BY <1>14, BirthEffect
    <2>2. alive' \in SUBSET Tid /\ born' \in SUBSET Tid
      BY <1>1, <1>14 DEF TypeOK, Birth
    <2>3. UNCHANGED <<config, table, ctrl, told, rescans>>
      BY <1>14 DEF Birth
    <2> QED
      BY <2>1, <2>2, <2>3 DEF TypeOK, table, ctrl
  <1>15. ASSUME NEW t \in Thd, Death(t)
         PROVE  TypeOK'
    <2>1. scan' \in [Tid -> ScanType]
      BY <1>15, DeathEffect
    <2> QED
      BY <1>1, <1>15, <2>1 DEF TypeOK, Death, table, ctrl
  <1>16. CASE UNCHANGED vars
    BY <1>16 DEF TypeOK, vars, env, table, ctrl
  <1> QED
    BY <1>2, <1>3, <1>4, <1>5, <1>6, <1>7, <1>8, <1>9, <1>10, <1>11, <1>12, <1>13, <1>14, <1>15, <1>16
    DEF Next, Process, ScanStep

\* Every step keeps construction, polling and destruction in order.
LEMMA PhasesStep ==
    ASSUME Inv, [Next]_vars
    PROVE  Phases'
  <1> USE DEF Inv
  <1>1. CASE Construct
    BY <1>1 DEF Phases, TypeOK, Construct, StartPoller, AwaitPoller, ConstructorScan, ConstructorScanned,
                Initialized, Polling, env, table, Tid
  <1>2. CASE Self
    BY <1>2 DEF Phases, Self, Polling, env
  <1>3. CASE Wait \/ Wake
    BY <1>3 DEF Phases, TypeOK, Wait, Wake, Polling, env, table
  <1>4. CASE Loop
    BY <1>4 DEF Phases, Loop, StopSet, Polling
  <1>5. CASE Stop \/ Join
    BY <1>5 DEF Phases, Stop, Join, Polling, env, table
  <1>6. ASSUME NEW s \in Tid, NEW t \in Tid, Visit(s, t)
        PROVE  Phases'
    BY <1>6 DEF Phases, Visit, Polling, env, ctrl
  <1>7. ASSUME NEW s \in Tid, Insert(s)
        PROVE  Phases'
    <2>1. scan[s].tid # Poller
      BY <1>7 DEF Insert, Existed
    <2> QED
      BY <1>7, <2>1 DEF Phases, Insert, Polling, env, ctrl
  <1>8. ASSUME NEW s \in Tid, Collect(s)
        PROVE  Phases'
    BY <1>8 DEF Phases, Collect, Polling, env, ctrl, table
  <1>9. ASSUME NEW s \in Tid, NEW t \in Tid, Remove(s, t)
        PROVE  Phases'
    <2>1. t # Poller
      BY <1>9, SweptGone DEF Remove
    <2> QED
      BY <1>9, <2>1 DEF Phases, Remove, Polling, env, ctrl
  <1>10. ASSUME NEW s \in Thd, Rescan(s) \/ RescanDone(s)
         PROVE  Phases'
    BY <1>10 DEF Phases, Rescan, RescanDone, Polling, env, table
  <1>11. ASSUME NEW t \in Thd, Birth(t) \/ Death(t)
         PROVE  Phases'
    BY <1>11 DEF Phases, Birth, Death, Polling, table, ctrl
  <1>12. CASE UNCHANGED vars
    BY <1>12 DEF Phases, vars, Polling, env, table, ctrl
  <1> QED
    BY <1>1, <1>2, <1>3, <1>4, <1>5, <1>6, <1>7, <1>8, <1>9, <1>10, <1>11, <1>12
    DEF Next, Process, ScanStep

\* Only those scan that the phase allows.
LEMMA ScannersStep ==
    ASSUME Inv, [Next]_vars
    PROVE  Scanners'
  <1> USE DEF Inv, Scanners, Active
  <1>1. Owner \in Tid /\ Poller \in Tid /\ Thd \subseteq Tid
    BY DEF Tid
  <1>2. CASE StartPoller \/ AwaitPoller
    BY <1>2 DEF StartPoller, AwaitPoller, Phases, Polling
  <1>3. CASE ConstructorScan
    BY <1>1, <1>3, BeginScanEffect DEF ConstructorScan, Phases, Polling, Others
  <1>4. CASE ConstructorScanned
    BY <1>1, <1>4, EndScanEffect DEF ConstructorScanned, Phases, Polling, Others
  <1>5. CASE Self
    BY <1>1, <1>5, BeginScanEffect DEF Self, Lockable, Phases, Polling, Others
  <1>6. CASE Wait
    BY <1>1, <1>6, EndScanEffect DEF Wait, Phases, Polling, Others
  <1>7. CASE Wake
    BY <1>1, <1>7 DEF Wake, Lockable, Phases, Polling
  <1>8. CASE Loop
    BY <1>1, <1>8, BeginScanEffect DEF Loop, StopSet, Phases, Polling, Others
  <1>9. CASE Stop \/ Join
    BY <1>9 DEF Stop, Join, NoScan, Phases, Polling
  <1>10. ASSUME NEW s \in Tid, NEW t \in Tid, Visit(s, t)
         PROVE  Scanners'
    BY <1>1, <1>10, VisitEffect DEF Visit, Polling, Others, ctrl
  <1>11. ASSUME NEW s \in Tid, Insert(s)
         PROVE  Scanners'
    BY <1>1, <1>11, InsertEffect DEF Insert, Polling, Others, ctrl
  <1>12. ASSUME NEW s \in Tid, Collect(s)
         PROVE  Scanners'
    BY <1>1, <1>12, CollectEffect DEF Collect, Polling, Others, ctrl
  <1>13. ASSUME NEW s \in Tid, NEW t \in Tid, Remove(s, t)
         PROVE  Scanners'
    BY <1>1, <1>13, RemoveEffect DEF Remove, Polling, Others, ctrl
  <1>14. ASSUME NEW s \in Thd, Rescan(s)
         PROVE  Scanners'
    BY <1>1, <1>14, BeginScanEffect DEF Rescan, Lockable, Phases, Polling, Others
  <1>15. ASSUME NEW s \in Thd, RescanDone(s)
         PROVE  Scanners'
    BY <1>1, <1>15, EndScanEffect DEF RescanDone, Phases, Polling, Others
  <1>16. ASSUME NEW t \in Thd, Birth(t)
         PROVE  Scanners'
    BY <1>1, <1>16, BirthEffect DEF Birth, Polling, ctrl
  <1>17. ASSUME NEW t \in Thd, Death(t)
         PROVE  Scanners'
    BY <1>1, <1>17, DeathEffect DEF Death, Polling, ctrl
  <1>18. CASE UNCHANGED vars
    BY <1>18 DEF vars, Polling, ctrl
  <1> QED
    BY <1>2, <1>3, <1>4, <1>5, <1>6, <1>7, <1>8, <1>9, <1>10, <1>11, <1>12, <1>13, <1>14, <1>15, <1>16, <1>17, <1>18
    DEF Next, Construct, Process, ScanStep

\* The configuration does not change.
LEMMA ConfigKept ==
    ASSUME [Next]_vars
    PROVE  config' = config
  BY DEF Next, vars, Construct, StartPoller, AwaitPoller, ConstructorScan, ConstructorScanned,
         Process, Self, Wait, Wake, Loop, Stop, Join, ScanStep, Visit, Insert, Collect, Remove,
         Rescan, RescanDone, Birth, Death

\* What is known, seen or listed has existed.
LEMMA ExistedStep ==
    ASSUME Inv, [Next]_vars
    PROVE  Existed'
  <1> USE DEF Inv, Existed
  <1>1. Owner \in Tid /\ Poller \in Tid /\ Thd \subseteq Tid
    BY DEF Tid
  <1>2. CASE StartPoller \/ AwaitPoller
    BY <1>2 DEF StartPoller, AwaitPoller, env, table
  <1>3. CASE ConstructorScan
    BY <1>1, <1>3, BeginScanEffect DEF ConstructorScan, Others, env, table
  <1>4. CASE ConstructorScanned
    BY <1>1, <1>4, EndScanEffect DEF ConstructorScanned, Others, env, table
  <1>5. CASE Self
    BY <1>1, <1>5, BeginScanEffect DEF Self, Phases, Others, env
  <1>6. CASE Wait
    BY <1>1, <1>6, EndScanEffect DEF Wait, Others, env, table
  <1>7. CASE Wake \/ Stop \/ Join
    BY <1>7 DEF Wake, Stop, Join, env, table
  <1>8. CASE Loop
    BY <1>1, <1>8, BeginScanEffect DEF Loop, Others
  <1>9. ASSUME NEW s \in Tid, NEW t \in Tid, Visit(s, t)
        PROVE  Existed'
    <2>1. t \in born /\ (t \notin known => t \in Thd)
      BY <1>9, VisitEffect, PollerKnown DEF Active, Tid
    <2> QED
      BY <1>9, <2>1, VisitEffect DEF Visit, Others, env
  <1>10. ASSUME NEW s \in Tid, Insert(s)
         PROVE  Existed'
    BY <1>10, InsertEffect DEF Insert, Others, env
  <1>11. ASSUME NEW s \in Tid, Collect(s)
         PROVE  Existed'
    BY <1>11, CollectEffect DEF Collect, ToRemove, Others, env, table
  <1>12. ASSUME NEW s \in Tid, NEW t \in Tid, Remove(s, t)
         PROVE  Existed'
    BY <1>12, RemoveEffect DEF Remove, Others, env
  <1>13. ASSUME NEW s \in Thd, Rescan(s)
         PROVE  Existed'
    BY <1>1, <1>13, BeginScanEffect DEF Rescan, Others, env
  <1>14. ASSUME NEW s \in Thd, RescanDone(s)
         PROVE  Existed'
    BY <1>1, <1>14, EndScanEffect DEF RescanDone, Others, env, table
  <1>15. ASSUME NEW t \in Thd, Birth(t)
         PROVE  Existed'
    BY <1>15, BirthEffect DEF Birth, table
  <1>16. ASSUME NEW t \in Thd, Death(t)
         PROVE  Existed'
    BY <1>16, DeathEffect DEF Death, table
  <1>17. CASE UNCHANGED vars
    BY <1>17 DEF vars, env, table
  <1> QED
    BY <1>2, <1>3, <1>4, <1>5, <1>6, <1>7, <1>8, <1>9, <1>10, <1>11, <1>12, <1>13, <1>14, <1>15, <1>16, <1>17
    DEF Next, Construct, Process, ScanStep

\* Without polling no generation ever passes.
LEMMA OneGenerationStep ==
    ASSUME Inv, [Next]_vars
    PROVE  OneGeneration'
  <1> USE DEF Inv, OneGeneration, Polling
  <1>1. Owner \in Tid /\ Poller \in Tid /\ Thd \subseteq Tid
    BY DEF Tid
  <1>2. CASE StartPoller \/ AwaitPoller
    BY <1>2 DEF StartPoller, AwaitPoller, table
  <1>3. CASE ConstructorScan
    BY <1>1, <1>3, BeginScanEffect DEF ConstructorScan, Others, table
  <1>4. CASE ConstructorScanned
    BY <1>1, <1>4, EndScanEffect DEF ConstructorScanned, Others, table
  <1>5. CASE Process
    BY <1>5 DEF Process, Self, Wait, Wake, Loop, Phases
  <1>6. CASE Stop \/ Join
    BY <1>6 DEF Stop, Join, table
  <1>7. ASSUME NEW s \in Tid, NEW t \in Tid, Visit(s, t)
        PROVE  OneGeneration'
    BY <1>7, VisitEffect DEF Visit, Others
  <1>8. ASSUME NEW s \in Tid, Insert(s)
        PROVE  OneGeneration'
    BY <1>8, InsertEffect DEF Insert, Others
  <1>9. ASSUME NEW s \in Tid, Collect(s)
        PROVE  OneGeneration'
    <2>1. gen = 0 => ToRemove = {}
      BY DEF ToRemove, TypeOK
    <2> QED
      BY <1>9, <2>1, CollectEffect DEF Collect, Others, table
  <1>10. ASSUME NEW s \in Tid, NEW t \in Tid, Remove(s, t)
         PROVE  OneGeneration'
    BY <1>10, RemoveEffect DEF Remove, Others
  <1>11. ASSUME NEW s \in Thd, Rescan(s)
         PROVE  OneGeneration'
    BY <1>1, <1>11, BeginScanEffect DEF Rescan, Others
  <1>12. ASSUME NEW s \in Thd, RescanDone(s)
         PROVE  OneGeneration'
    BY <1>1, <1>12, EndScanEffect DEF RescanDone, Others, table
  <1>13. ASSUME NEW t \in Thd, Birth(t)
         PROVE  OneGeneration'
    BY <1>13, BirthEffect DEF Birth, Reading, table
  <1>14. ASSUME NEW t \in Thd, Death(t)
         PROVE  OneGeneration'
    BY <1>14, DeathEffect DEF Death, Reading, table
  <1>15. CASE UNCHANGED vars
    BY <1>15 DEF vars, table
  <1> QED
    BY <1>2, <1>3, <1>4, <1>5, <1>6, <1>7, <1>8, <1>9, <1>10, <1>11, <1>12, <1>13, <1>14, <1>15
    DEF Next, Construct, ScanStep

\* A scan reaches every known thread that is alive.
LEMMA PresentStep ==
    ASSUME Inv, [Next]_vars
    PROVE  Present'
  <1> USE DEF Inv, Present, Reading
  <1>1. Owner \in Tid /\ Poller \in Tid /\ Thd \subseteq Tid
    BY DEF Tid
  <1>2. CASE StartPoller
    BY <1>2 DEF StartPoller, Existed, Phases, table
  <1>3. CASE ConstructorScan
    BY <1>1, <1>3, BeginScanEffect DEF ConstructorScan, Others, env, table
  <1>4. CASE ConstructorScanned
    BY <1>1, <1>4, EndScanEffect DEF ConstructorScanned, Others, env, table
  <1>5. CASE Self
    <2>1. seen' = [seen EXCEPT ![Poller] = gen] /\ seen \in [Tid -> 0 .. Gens - 1]
      BY <1>5 DEF Self, TypeOK
    <2>2. \A r \in Tid \ {Poller} : scan'[r] = scan[r]
      BY <1>1, <1>5, BeginScanEffect DEF Self, Others
    <2>3. \A r \in Thd : scan[r].at = "none"
      BY <1>5 DEF Self, Phases, Scanners, Active
    <2>4. scan'[Poller].at = "read" /\ scan'[Poller].dir = alive
      BY <1>1, <1>5, BeginScanEffect DEF Self
    <2> QED
      BY <1>5, <2>2, <2>3, <2>4 DEF Self, Tid, env
  <1>6. CASE Wait
    BY <1>1, <1>6, EndScanEffect DEF Wait, Others, env, table
  <1>7. CASE AwaitPoller \/ Wake \/ Stop \/ Join
    BY <1>7 DEF AwaitPoller, Wake, Stop, Join, env, table
  <1>8. CASE Loop
    <2>1. \A r \in Tid : scan[r].at = "none"
      BY <1>8 DEF Loop, Phases, Scanners, Active, Tid
    <2> QED
      BY <1>1, <1>8, <2>1, BeginScanEffect DEF Loop, Others
  <1>9. ASSUME NEW s \in Tid, NEW t \in Tid, Visit(s, t)
        PROVE  Present'
    <2>1. seen \in [Tid -> 0 .. Gens - 1]
      BY DEF TypeOK
    <2>2. /\ \A u \in Tid : seen[u] = gen => seen'[u] = gen
          /\ t \in known => seen'[t] = gen
          /\ known' = known /\ gen' = gen /\ alive' = alive
      BY <1>9, <2>1 DEF Visit, env
    <2>3. known \subseteq Tid
      BY DEF TypeOK
    <2> QED
      BY <1>9, <2>2, <2>3, VisitEffect DEF Others
  <1>10. ASSUME NEW s \in Tid, Insert(s)
         PROVE  Present'
    <2>1. seen \in [Tid -> 0 .. Gens - 1] /\ scan[s].tid \in Tid
      BY <1>1, <1>10 DEF TypeOK, Insert, Existed
    <2> QED
      BY <1>10, <2>1, InsertEffect DEF Insert, Others, env
  <1>11. ASSUME NEW s \in Tid, Collect(s)
         PROVE  Present'
    <2>1. ToRemove \subseteq known /\ ToRemove \cap alive = {}
      BY <1>11, CollectEffect DEF ToRemove, TypeOK
    <2> QED
      BY <1>11, <2>1, CollectEffect DEF Collect, Others, env, table
  <1>12. ASSUME NEW s \in Tid, NEW t \in Tid, Remove(s, t)
         PROVE  Present'
    <2>1. Serial
      BY <1>12, SweptGone DEF Remove, Serial
    <2>2. \A r \in Tid \ {s} : scan[r].at = "none"
      BY <1>12, <2>1, OneScan DEF Remove, Active
    <2>3. known' = known \ {t} /\ alive' = alive
      BY <1>12 DEF Remove, env
    <2> QED
      BY <1>12, <2>2, <2>3, RemoveEffect DEF Others
  <1>13. ASSUME NEW s \in Thd, Rescan(s)
         PROVE  Present'
    <2>1. CASE Polling
      <3>1. stop_mtx = NoThd
        BY <1>13, <2>1 DEF Rescan, Lockable
      <3>2. \A r \in Tid \ {s} : scan[r].at = "none"
        BY <1>13, <2>1, <3>1 DEF Rescan, Scanners, Active, Tid
      <3> QED
        BY <1>1, <1>13, <3>2, BeginScanEffect DEF Rescan, Others, env
    <2>2. CASE ~Polling
      BY <1>1, <1>13, <2>2, BeginScanEffect DEF Rescan, Others, env
    <2> QED
      BY <2>1, <2>2
  <1>14. ASSUME NEW s \in Thd, RescanDone(s)
         PROVE  Present'
    BY <1>1, <1>14, EndScanEffect DEF RescanDone, Others, env, table
  <1>15. ASSUME NEW t \in Thd, Birth(t)
         PROVE  Present'
    <2>1. t \notin born /\ alive' = alive \cup {t} /\ UNCHANGED <<gen, known, seen>>
      BY <1>15 DEF Birth, table
    <2> QED
      BY <1>15, <2>1, BirthEffect DEF Existed
  <1>16. ASSUME NEW t \in Thd, Death(t)
         PROVE  Present'
    BY <1>16, DeathEffect DEF Death, table
  <1>17. CASE UNCHANGED vars
    BY <1>17 DEF vars, env, table
  <1> QED
    BY <1>2, <1>3, <1>4, <1>5, <1>6, <1>7, <1>8, <1>9, <1>10, <1>11, <1>12, <1>13, <1>14, <1>15, <1>16, <1>17
    DEF Next, Construct, Process, ScanStep

\* What is being inserted depends on the scans at "insert" only.
LEMMA InsertingKept ==
    ASSUME \A s \in Tid : /\ scan'[s].at = "insert" <=> scan[s].at = "insert"
                          /\ scan[s].at = "insert" => scan'[s].tid = scan[s].tid
    PROVE  Inserting' = Inserting
  BY DEF Inserting

\* What the handler was told matches what is known.
LEMMA ToldStep ==
    ASSUME Inv, [Next]_vars
    PROVE  Told'
  <1> USE DEF Inv
  <1>1. Owner \in Tid /\ Poller \in Tid /\ Thd \subseteq Tid
    BY DEF Tid
  <1>2. Serial' = Serial
    BY ConfigKept DEF Serial, Polling
  <1>3. ASSUME told' = told, known' \cap Thd = known \cap Thd, Inserting' = Inserting
        PROVE  Told'
    <2>1. Inserting \subseteq Thd
      BY DEF Inserting, Existed
    <2> QED
      BY <1>2, <1>3, <2>1 DEF Told
  <1>4. ASSUME UNCHANGED <<told, known, scan>>
        PROVE  Told'
    BY <1>3, <1>4, InsertingKept
  <1>5. ASSUME NEW s \in Tid, BeginScan(s), scan[s].at = "none"
        PROVE  Inserting' = Inserting
    BY <1>5, BeginScanEffect, InsertingKept DEF Others
  <1>6. ASSUME NEW s \in Tid, EndScan(s)
        PROVE  Inserting' = Inserting
    BY <1>6, EndScanEffect, InsertingKept DEF Others
  <1>7. CASE StartPoller \/ AwaitPoller \/ Wake \/ Stop \/ Join
    BY <1>4, <1>7 DEF StartPoller, AwaitPoller, Wake, Stop, Join, table
  <1>8. CASE ConstructorScan
    <2>1. scan[Owner].at = "none"
      BY <1>8 DEF ConstructorScan, Scanners, Active
    <2> QED
      BY <1>1, <1>3, <1>5, <1>8, <2>1 DEF ConstructorScan, table
  <1>9. CASE ConstructorScanned
    BY <1>1, <1>3, <1>6, <1>9 DEF ConstructorScanned, table
  <1>10. CASE Self
    <2>1. scan[Poller].at = "none"
      BY <1>10 DEF Self, Scanners, Active
    <2> QED
      BY <1>1, <1>3, <1>5, <1>10, <2>1 DEF Self
  <1>11. CASE Wait
    BY <1>1, <1>3, <1>6, <1>11 DEF Wait, table
  <1>12. CASE Loop
    <2>1. scan[Poller].at = "none"
      BY <1>12 DEF Loop, Scanners, Active
    <2> QED
      BY <1>1, <1>3, <1>4, <1>5, <1>12, <2>1 DEF Loop
  <1>13. ASSUME NEW s \in Tid, NEW t \in Tid, Visit(s, t)
         PROVE  Told'
    <2>1. CASE t \in known
      <3>1. Inserting' = Inserting
        BY <1>13, <2>1, VisitEffect, InsertingKept DEF Others
      <3> QED
        BY <1>3, <1>13, <2>1, <3>1 DEF Visit
    <2>2. CASE t \notin known
      <3>1. t \in Thd
        BY <1>13, <2>2, VisitEffect, PollerKnown DEF Active, Tid
      <3>2. Inserting' = Inserting \cup {t}
        BY <1>13, <2>2, VisitEffect DEF Inserting, Others
      <3>3. Serial => Inserting = {}
        BY <1>13, VisitEffect, OneScan DEF Inserting, Active
      <3>4. known' = known /\ told' = [told EXCEPT ![t] = @ + 1] /\ told \in [Tid -> Int]
        BY <1>13, <2>2 DEF Visit, TypeOK
      <3>5. told'[t] > 0 /\ (Serial => told'[t] = 1)
        BY <2>2, <3>1, <3>3, <3>4 DEF Told, Tid
      <3> QED
        BY <1>1, <1>2, <2>2, <3>1, <3>2, <3>3, <3>4, <3>5 DEF Told
    <2> QED
      BY <2>1, <2>2
  <1>14. ASSUME NEW s \in Tid, Insert(s)
         PROVE  Told'
    <2> DEFINE t == scan[s].tid
    <2>1. t \in Thd /\ t \in Inserting
      BY <1>1, <1>14 DEF Insert, Existed, Inserting
    <2>2. Inserting' \subseteq Inserting /\ Inserting \subseteq Inserting' \cup {t}
      BY <1>14, InsertEffect DEF Inserting, Others
    <2>3. Serial => Inserting' = {}
      <3>1. Serial => \A r \in Tid \ {s} : scan[r].at = "none"
        BY <1>14, OneScan DEF Insert, Active
      <3> QED
        BY <1>14, <3>1, InsertEffect DEF Inserting, Others
    <2>4. known' = known \cup {t} /\ told' = told
      BY <1>14 DEF Insert
    <2> QED
      BY <1>2, <2>1, <2>2, <2>3, <2>4 DEF Told
  <1>15. ASSUME NEW s \in Tid, Collect(s)
         PROVE  Told'
    <2>1. Inserting' = Inserting
      BY <1>15, CollectEffect, InsertingKept DEF Others
    <2> QED
      BY <1>3, <1>15, <2>1 DEF Collect, table
  <1>16. ASSUME NEW s \in Tid, NEW t \in Tid, Remove(s, t)
         PROVE  Told'
    <2>1. t \in Thd /\ t \in known /\ Serial
      BY <1>16, SweptGone DEF Remove, Serial
    <2>2. Inserting' = {}
      <3>1. \A r \in Tid \ {s} : scan[r].at = "none"
        BY <1>16, <2>1, OneScan DEF Remove, Active
      <3> QED
        BY <1>16, <3>1, RemoveEffect DEF Inserting, Others
    <2>3. Inserting = {}
      BY <1>16, <2>1, OneScan DEF Remove, Active, Inserting
    <2>4. known' = known \ {t} /\ told' = [told EXCEPT ![t] = @ - 1] /\ told \in [Tid -> Int]
      BY <1>16 DEF Remove, TypeOK
    <2>5. told'[t] = 0
      BY <2>1, <2>4 DEF Told
    <2> QED
      BY <1>1, <1>2, <2>1, <2>2, <2>3, <2>4, <2>5 DEF Told
  <1>17. ASSUME NEW s \in Thd, Rescan(s)
         PROVE  Told'
    <2>1. scan[s].at = "none"
      BY <1>17 DEF Rescan, NoScan
    <2> QED
      BY <1>1, <1>3, <1>5, <1>17, <2>1 DEF Rescan
  <1>18. ASSUME NEW s \in Thd, RescanDone(s)
         PROVE  Told'
    BY <1>1, <1>3, <1>6, <1>18 DEF RescanDone, table
  <1>19. ASSUME NEW t \in Thd, Birth(t)
         PROVE  Told'
    <2>1. Inserting' = Inserting
      BY <1>19, BirthEffect, InsertingKept
    <2> QED
      BY <1>3, <1>19, <2>1 DEF Birth, table
  <1>20. ASSUME NEW t \in Thd, Death(t)
         PROVE  Told'
    <2>1. Inserting' = Inserting
      BY <1>20, DeathEffect, InsertingKept
    <2> QED
      BY <1>3, <1>20, <2>1 DEF Death, table
  <1>21. CASE UNCHANGED vars
    BY <1>4, <1>21 DEF vars, table
  <1> QED
    BY <1>7, <1>8, <1>9, <1>10, <1>11, <1>12, <1>13, <1>14, <1>15, <1>16, <1>17, <1>18, <1>19, <1>20, <1>21
    DEF Next, Construct, Process, ScanStep

\* The constructor returns after a full scan.
LEMMA FirstScanStep ==
    ASSUME Inv, [Next]_vars
    PROVE  FirstScan'
  <1> USE DEF Inv, FirstScan, Active, Reading
  <1>1. Owner \in Tid /\ Poller \in Tid /\ Thd \subseteq Tid
    BY DEF Tid
  <1>2. CASE StartPoller
    <2>1. \A s \in Tid : scan[s].at = "none"
      BY <1>2 DEF StartPoller, Phases, Scanners, Tid
    <2> QED
      BY <1>2, <2>1 DEF StartPoller, Phases
  <1>3. CASE AwaitPoller \/ Stop \/ Join
    BY <1>3 DEF AwaitPoller, Stop, Join
  <1>4. CASE ConstructorScan
    <2>1. \A s \in Tid : scan[s].at = "none"
      BY <1>4 DEF ConstructorScan, Phases, Scanners, Tid
    <2>2. poll_initialized' = 0 /\ alive' = alive
      BY <1>4 DEF ConstructorScan, Phases, env
    <2> QED
      BY <1>1, <1>4, <2>1, <2>2, BeginScanEffect DEF ConstructorScan, Others
  <1>5. CASE ConstructorScanned
    BY <1>5 DEF ConstructorScanned
  <1>6. CASE Self
    <2>1. \A s \in Thd : scan[s].at = "none"
      BY <1>6 DEF Self, Phases, Scanners
    <2>2. poll_initialized' = 0 /\ alive' = alive
      BY <1>6 DEF Self, Phases, env
    <2> QED
      BY <1>1, <1>6, <2>1, <2>2, BeginScanEffect DEF Self, Others, Tid
  <1>7. CASE Wait
    BY <1>1, <1>7, EndScanEffect DEF Wait, Others, env, table
  <1>8. CASE Wake
    BY <1>8 DEF Wake, env, table
  <1>9. CASE Loop
    <2>1. \A s \in Tid : scan[s].at = "none"
      BY <1>9 DEF Loop, Phases, Scanners, Tid
    <2> QED
      BY <1>1, <1>9, <2>1, BeginScanEffect DEF Loop, Others
  <1>10. ASSUME NEW s \in Tid, NEW t \in Tid, Visit(s, t)
         PROVE  FirstScan'
    <2>1. UNCHANGED <<alive, known, owner, poll_initialized>>
      BY <1>10 DEF Visit, env, ctrl
    <2> QED
      BY <1>10, <2>1, VisitEffect DEF Others
  <1>11. ASSUME NEW s \in Tid, Insert(s)
         PROVE  FirstScan'
    <2>1. UNCHANGED <<alive, owner, poll_initialized>> /\ known' = known \cup {scan[s].tid}
      BY <1>11 DEF Insert, env, ctrl
    <2> QED
      BY <1>11, <2>1, InsertEffect DEF Others
  <1>12. ASSUME NEW s \in Tid, Collect(s)
         PROVE  FirstScan'
    BY <1>12, CollectEffect DEF Collect, Others, env, table, ctrl
  <1>13. ASSUME NEW s \in Tid, NEW t \in Tid, Remove(s, t)
         PROVE  FirstScan'
    <2>1. t \notin alive
      BY <1>13, SweptGone DEF Remove
    <2>2. UNCHANGED <<alive, owner, poll_initialized>> /\ known' = known \ {t}
      BY <1>13 DEF Remove, env, ctrl
    <2> QED
      BY <1>13, <2>1, <2>2, RemoveEffect DEF Others
  <1>14. ASSUME NEW s \in Thd, Rescan(s) \/ RescanDone(s)
         PROVE  FirstScan'
    BY <1>14 DEF Rescan, RescanDone
  <1>15. ASSUME NEW t \in Thd, Birth(t)
         PROVE  FirstScan'
    <2>1. t \in Unborn
      BY <1>15 DEF Birth, Existed
    <2>2. UNCHANGED <<known, owner, poll_initialized>> /\ alive' = alive \cup {t}
      BY <1>15 DEF Birth, table, ctrl
    <2> QED
      BY <1>15, <2>1, <2>2, BirthEffect
  <1>16. ASSUME NEW t \in Thd, Death(t)
         PROVE  FirstScan'
    <2>1. UNCHANGED <<known, owner, poll_initialized>> /\ alive' = alive \ {t}
      BY <1>16 DEF Death, table, ctrl
    <2> QED
      BY <1>16, <2>1, DeathEffect
  <1>17. CASE UNCHANGED vars
    BY <1>17 DEF vars, env, table, ctrl
  <1> QED
    BY <1>2, <1>3, <1>4, <1>5, <1>6, <1>7, <1>8, <1>9, <1>10, <1>11, <1>12, <1>13, <1>14, <1>15, <1>16, <1>17
    DEF Next, Construct, Process, ScanStep

-----------------------------------------------------------------------------
(* The theorems.                                                            *)

\* The invariant holds initially.
LEMMA InitInv ==
    ASSUME Init
    PROVE  Inv
  <1> USE DEF Init
  <1>1. Thd \subseteq Tid /\ Poller \in Tid
    BY DEF Tid
  <1>2. \A s \in Tid : scan[s] = NoScan
    OBVIOUS
  <1>3. NoScan \in ScanType
    BY DEF NoScan, ScanType
  <1>4. TypeOK
    <2>1. scan \in [Tid -> ScanType]
      BY <1>3
    <2>2. seen \in [Tid -> 0 .. Gens - 1] /\ told \in [Tid -> Int]
      OBVIOUS
    <2>3. /\ alive \in SUBSET Tid /\ born \in SUBSET Tid /\ known \in SUBSET Tid
          /\ stop_mtx \in Tid \cup {NoThd}
      BY <1>1
    <2>4. gen \in 0 .. Gens - 1 /\ poll_initialized \in 0 .. 2 /\ rescans \in 0 .. MaxRescans
      OBVIOUS
    <2> QED
      BY <2>1, <2>2, <2>3, <2>4 DEF TypeOK
  <1>5. Phases /\ Scanners
    BY <1>1, <1>2 DEF Phases, Scanners, Active, NoScan
  <1>6. Existed
    BY <1>2 DEF Existed, NoScan
  <1>7. OneGeneration /\ Present /\ FirstScan
    BY <1>2 DEF OneGeneration, Present, FirstScan, Active, Reading, NoScan
  <1>8. Inserting = {}
    BY <1>2 DEF Inserting, NoScan
  <1>9. Told
    BY <1>1, <1>8 DEF Told
  <1> QED
    BY <1>4, <1>5, <1>6, <1>7, <1>9 DEF Inv

\* The invariant holds throughout, whatever threads are born, die or rescan.
THEOREM Invariance == Spec => []Inv
  <1>1. Inv /\ [Next]_vars => Inv'
    <2> SUFFICES ASSUME Inv, [Next]_vars
                 PROVE  Inv'
      OBVIOUS
    <2>1. TypeOK'
      BY TypeStep DEF Inv
    <2> QED
      BY <2>1, PhasesStep, ScannersStep, ExistedStep, OneGenerationStep, PresentStep, ToldStep, FirstScanStep DEF Inv
  <1> QED
    BY <1>1, InitInv, PTL DEF Spec

\* The monitor's variables keep their types; gen stays a gen_t when it wraps.
THEOREM TypeCorrect == Spec => []TypeOK
  <1>1. Inv => TypeOK
    BY DEF Inv
  <1> QED
    BY <1>1, Invariance, PTL

\* With polling, and without it as long as one thread at most calls
\* discover_threads, the handler never hears twice of the same thread
\* (scan_tasks under stop_mtx; without polling nothing serializes two callers).
THEOREM ReportsOnce == Spec => [](Serial => ReportedOnce)
  <1>1. Inv => (Serial => ReportedOnce)
    BY DEF Inv, Told, ReportedOnce, Tid
  <1> QED
    BY <1>1, Invariance, PTL

\* The initial states of the monitor are initial states of discovery.
LEMMA AnnouncesInit ==
    ASSUME Init
    PROVE  Promise!Init
  <1>1. \A t \in Tid : told[t] = 0
    BY DEF Init
  <1>2. {t \in Tid : told[t] > 0} = {}
    BY <1>1
  <1> QED
    BY <1>2 DEF Init, Promise!Init

\* Every step of the monitor is a step of discovery or invisible to it.
LEMMA AnnouncesStep ==
    ASSUME Inv, [Next]_vars
    PROVE  [Promise!Next]_<<alive \cap Thd, born \cap Thd, {t \in Tid : told[t] > 0},
                            owner \in {"up", "stopping", "gone"}>>
  <1> DEFINE Announced == {t \in Tid : told[t] > 0}
             Up == owner \in {"up", "stopping", "gone"}
             Hidden == UNCHANGED <<alive \cap Thd, born \cap Thd, Announced, Up>>
  <1> SUFFICES Promise!Next \/ Hidden
    OBVIOUS
  <1> USE DEF Inv
  <1>1. Owner \in Tid /\ Poller \in Tid /\ Thd \subseteq Tid
    BY DEF Tid
  <1>2. CASE StartPoller
    BY <1>2 DEF StartPoller
  <1>3. ASSUME \A t \in (alive \cap Thd) \ Unborn : t \in known,
               ~Up, Up', UNCHANGED <<alive, born, told>>
        PROVE  Promise!Next
    <2>1. (alive \cap Thd) \ Unborn \subseteq Announced
      BY <1>1, <1>3 DEF Told
    <2>2. Promise!Ready
      BY <1>3, <2>1 DEF Promise!Ready
    <2> QED
      BY <2>2 DEF Promise!Next
  <1>4. CASE AwaitPoller
    BY <1>3, <1>4 DEF AwaitPoller, Initialized, FirstScan, env
  <1>5. CASE ConstructorScan
    BY <1>5 DEF ConstructorScan, env
  <1>6. CASE ConstructorScanned
    <2>1. \A t \in (alive \cap Thd) \ Unborn : t \in known
      BY <1>1, <1>6, EndScanEffect DEF ConstructorScanned, FirstScan, Active, Reading
    <2> QED
      BY <1>3, <1>6, <2>1 DEF ConstructorScanned, env
  <1>7. CASE Self \/ Wait \/ Wake
    BY <1>7 DEF Self, Wait, Wake, env
  <1>8. CASE Loop
    BY <1>8 DEF Loop
  <1>9. CASE Stop \/ Join
    BY <1>9 DEF Stop, Join, env
  <1>10. ASSUME NEW s \in Tid, NEW t \in Tid, Visit(s, t)
         PROVE  Promise!Next \/ Hidden
    <2>1. CASE t \in known
      BY <1>10, <2>1 DEF Visit, env, ctrl
    <2>2. CASE t \notin known
      <3>1. t \in Thd /\ t \in born
        BY <1>10, <2>2, VisitEffect, PollerKnown DEF Active, Tid, Existed
      <3>2. UNCHANGED <<alive, born, owner>> /\ told' = [told EXCEPT ![t] = @ + 1] /\ told \in [Tid -> Int]
        BY <1>10, <2>2 DEF Visit, TypeOK, env, ctrl
      <3>3. told[t] >= 0
        BY <3>1 DEF Told, TypeOK, Tid
      <3>4. Announced' = Announced \cup {t}
        BY <3>2, <3>3
      <3>5. CASE t \in Announced
        BY <3>2, <3>4, <3>5
      <3>6. CASE t \notin Announced
        <4>1. Promise!Announce(t)
          BY <3>1, <3>2, <3>4, <3>6 DEF Promise!Announce
        <4> QED
          BY <3>1, <4>1 DEF Promise!Next
      <3> QED
        BY <3>5, <3>6
    <2> QED
      BY <2>1, <2>2
  <1>11. ASSUME NEW s \in Tid, Insert(s) \/ Collect(s)
         PROVE  Hidden
    BY <1>11 DEF Insert, Collect, env, ctrl
  <1>12. ASSUME NEW s \in Tid, NEW t \in Tid, Remove(s, t)
         PROVE  Promise!Next
    <2>1. t \in Thd /\ t \notin alive /\ t \in known /\ Serial
      BY <1>12, SweptGone DEF Remove, Serial
    <2>2. UNCHANGED <<alive, born, owner>> /\ told' = [told EXCEPT ![t] = @ - 1] /\ told \in [Tid -> Int]
      BY <1>12 DEF Remove, TypeOK, env, ctrl
    <2>3. told[t] = 1
      BY <2>1 DEF Told
    <2>4. t \in Announced /\ Announced' = Announced \ {t}
      BY <2>2, <2>3
    <2>5. Promise!Retract(t)
      BY <2>1, <2>2, <2>4 DEF Promise!Retract
    <2> QED
      BY <2>1, <2>5 DEF Promise!Next
  <1>13. ASSUME NEW s \in Thd, Rescan(s) \/ RescanDone(s)
         PROVE  Hidden
    BY <1>13 DEF Rescan, RescanDone, env
  <1>14. ASSUME NEW t \in Thd, Birth(t)
         PROVE  Promise!Next
    <2>1. Promise!Birth(t)
      BY <1>14 DEF Birth, Promise!Birth, ctrl
    <2> QED
      BY <2>1 DEF Promise!Next
  <1>15. ASSUME NEW t \in Thd, Death(t)
         PROVE  Promise!Next
    <2>1. Promise!Death(t)
      BY <1>15 DEF Death, Promise!Death, ctrl
    <2> QED
      BY <2>1 DEF Promise!Next
  <1>16. CASE UNCHANGED vars
    BY <1>16 DEF vars, env, ctrl
  <1> QED
    BY <1>2, <1>4, <1>5, <1>6, <1>7, <1>8, <1>9, <1>10, <1>11, <1>12, <1>13, <1>14, <1>15, <1>16
    DEF Next, Construct, Process, ScanStep

\* The monitor implements discovery, with polling or without, also when
\* rescans overlap: nobody is reported as terminated while alive, the poller is
\* never reported, and construction ends after the first reports.
THEOREM ImplementsDiscovery == Spec => Announces
  <1>1. Init => Promise!Init
    BY AnnouncesInit
  <1>2. Inv /\ [Next]_vars =>
          [Promise!Next]_<<alive \cap Thd, born \cap Thd, {t \in Tid : told[t] > 0},
                           owner \in {"up", "stopping", "gone"}>>
    BY AnnouncesStep
  <1> QED
    BY <1>1, <1>2, Invariance, PTL DEF Spec, Announces, Promise!Spec
=============================================================================
