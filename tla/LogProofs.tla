----------------------------- MODULE LogProofs ------------------------------
(***************************************************************************)
(* Proofs about Log for any number of processes, sectors and contents and  *)
(* any size of the log.                                                    *)
(***************************************************************************)
EXTENDS Log, TLAPS

\* The values memory has at power-on have their types.
LEMMA BootTypes == /\ ZeroHeader \in Header
                   /\ ZeroHeader.n = 0
                   /\ BootPC \in [Proc -> PC]
                   /\ [p \in Proc |-> 0] \in [Proc -> 0 .. LOGSIZE]
                   /\ [s \in Sector |-> NoBuf] \in [Sector -> Data \cup {NoBuf}]
<1>1. ZeroHeader \in Header /\ ZeroHeader.n = 0
  BY LogConstants DEF ZeroHeader, Header, Slot
<1>2. BootPC \in [Proc -> PC]
  BY DEF BootPC, PC
<1>3. [p \in Proc |-> 0] \in [Proc -> 0 .. LOGSIZE]
  BY LogConstants
<1> QED
  BY <1>1, <1>2, <1>3

(* A power-on or crash state satisfies the invariant when the header on    *)
(* disk names no sector twice.                                             *)
LEMMA InitIInv == Init => IInv
<1> SUFFICES ASSUME Init PROVE IInv
  OBVIOUS
<1>2. TypeOK
  BY ZenonT(30), BootTypes, LogConstants DEF Init, TypeOK
<1>3. lh.n = 0 /\ head.n = 0
  BY DEF Init, ZeroHeader
<1>4. Absorbed(lh) /\ Absorbed(head)
  BY <1>3 DEF Absorbed
<1>5. BusyMeansOwner /\ BootAlone
  BY LogConstants DEF Init, BootPC, BusyMeansOwner, BootAlone, InTrans, Booting
<1>6. CacheCoherent /\ BuildingLog /\ Installing /\ Quiet
  BY <1>3, LogConstants
     DEF Init, BootPC, CacheCoherent, BuildingLog, Installing, Quiet
<1> QED
  BY <1>2, <1>4, <1>5, <1>6 DEF IInv

\* A crash keeps the disk, and memory starts over.
LEMMA CrashIInv == IInv /\ Crash => IInv'
<1> SUFFICES ASSUME IInv, Crash PROVE IInv'
  OBVIOUS
<1>1. ZeroHeader.n = 0
  BY BootTypes
<1>2. TypeOK'
  BY ZenonT(30), BootTypes DEF IInv, Crash, TypeOK, disk
<1>3. Absorbed(lh)' /\ Absorbed(head)'
  BY <1>1 DEF IInv, Crash, Absorbed, disk
<1>4. BusyMeansOwner' /\ BootAlone'
  BY LogConstants DEF Crash, BootPC, BusyMeansOwner, BootAlone, InTrans, Booting
<1>5. CacheCoherent' /\ BuildingLog' /\ Installing' /\ Quiet'
  BY <1>1, LogConstants
     DEF Crash, BootPC, CacheCoherent, BuildingLog, Installing, Quiet
<1> QED
  BY <1>2, <1>3, <1>4, <1>5 DEF IInv

\* bread fills a buffer with its home sector.
LEMMA ReadIInv == ASSUME IInv, NEW p \in Proc, NEW s \in Sector, Read(p, s)
                  PROVE  IInv'
<1> USE DEF IInv, Read, disk
<1>1. TypeOK'
  BY DEF TypeOK
<1>2. Absorbed(lh)' /\ Absorbed(head)' /\ BusyMeansOwner' /\ BootAlone'
  BY DEF Absorbed, BusyMeansOwner, BootAlone
<1>3. s \notin dirty
  BY DEF CacheCoherent
<1>4. CacheCoherent'
  BY <1>3, LogConstants DEF CacheCoherent, TypeOK
<1>5. BuildingLog'
  BY <1>3 DEF BuildingLog, Named, TypeOK
<1>6. Installing' /\ Quiet'
  BY <1>3 DEF Installing, Quiet, TypeOK
<1> QED
  BY <1>1, <1>2, <1>4, <1>5, <1>6

\* bget drops a buffer that is not B_DIRTY.
LEMMA RecycleIInv == ASSUME IInv, NEW s \in Sector, Recycle(s) PROVE IInv'
<1> USE DEF IInv, Recycle, MayRecycle, disk
<1>0. dirty' = dirty
  OBVIOUS
<1>1. TypeOK'
  BY DEF TypeOK
<1>2. Absorbed(lh)' /\ Absorbed(head)' /\ BusyMeansOwner' /\ BootAlone'
  BY DEF Absorbed, BusyMeansOwner, BootAlone
<1>4. CacheCoherent'
  BY <1>0, LogConstants DEF CacheCoherent, TypeOK
<1>5. BuildingLog'
  BY <1>0 DEF BuildingLog, Named, TypeOK
<1>6. Installing' /\ Quiet'
  BY <1>0 DEF Installing, Quiet, TypeOK
<1> QED
  BY <1>1, <1>2, <1>4, <1>5, <1>6

\* begin_trans sleeps, or becomes the owner of an empty log.
LEMMA BeginTransIInv == ASSUME IInv, NEW p \in Proc, BeginTrans(p) PROVE IInv'
<1> USE DEF IInv, BeginTrans, disk
<1>1. TypeOK'
  BY ZenonT(30) DEF TypeOK, PC
<1>2. Absorbed(lh)' /\ Absorbed(head)' /\ CacheCoherent'
  BY DEF Absorbed, CacheCoherent
<1>3. BusyMeansOwner'
  BY DEF BusyMeansOwner, InTrans, TypeOK
<1>4. pc[InitProc] \notin Booting /\ \A q \in Proc : pc[q] \notin Booting
  BY LogConstants DEF BootAlone, Booting, TypeOK
<1>5. BootAlone'
  BY <1>4, LogConstants DEF BootAlone, Booting, TypeOK
<1>6. CASE busy
  BY <1>6, <1>1, <1>2, <1>3, <1>5, LogConstants
     DEF BuildingLog, Installing, Quiet, TypeOK, Booting
<1>7. CASE ~busy
  <2>1. \A q \in Proc : pc[q] \notin InTrans
    BY <1>7 DEF BusyMeansOwner
  <2>2. lh.n = 0 /\ dirty = {} /\ head.n = 0
    BY <2>1, <1>4 DEF Quiet, InTrans, Booting
  <2>3. BuildingLog' /\ Installing' /\ Quiet'
    BY <1>7, <2>1, <2>2, <1>4 DEF BuildingLog, Installing, Quiet, Named, TypeOK,
       InTrans, Booting
  <2> QED
    BY <2>3, <1>1, <1>2, <1>3, <1>5
<1> QED
  BY <1>6, <1>7

(* kill wakes a sleeper early; nobody's transaction changes.               *)
LEMMA KillIInv == ASSUME IInv, NEW p \in Proc, Kill(p) PROVE IInv'
<1> USE DEF IInv, Kill, disk
<1>1. TypeOK'
  BY DEF TypeOK, PC
<1>2. Absorbed(lh)' /\ Absorbed(head)' /\ CacheCoherent'
  BY DEF Absorbed, CacheCoherent
<1>3. \A q \in Proc : q # p => pc'[q] = pc[q]
  BY DEF TypeOK
<1>4. pc[p] = "sleep" /\ pc'[p] = "begin"
  BY DEF TypeOK
<1>5. BusyMeansOwner' /\ BootAlone'
  BY <1>3, <1>4, LogConstants DEF BusyMeansOwner, BootAlone, InTrans, Booting
<1>6. BuildingLog' /\ Installing' /\ Quiet'
  BY <1>3, <1>4, LogConstants DEF BuildingLog, Installing, Quiet, Named
<1> QED
  BY <1>1, <1>2, <1>5, <1>6

(* log_write's search: it finds the slot the sector already has, or the    *)
(* first free one.                                                         *)
LEMMA SlotOfFacts ==
  ASSUME TypeOK, NEW s \in Sector
  PROVE  /\ SlotOf(s) \in 0 .. lh.n
         /\ SlotOf(s) # lh.n => lh.sector[SlotOf(s)] = s
         /\ SlotOf(s) = lh.n => \A i \in 0 .. lh.n - 1 : lh.sector[i] # s
<1>1. lh.n \in Nat
  BY LogConstants DEF TypeOK, Header
<1>2. CASE \E i \in 0 .. lh.n - 1 : lh.sector[i] = s
  <2> DEFINE k == CHOOSE i \in 0 .. lh.n - 1 : lh.sector[i] = s
  <2>1. k \in 0 .. lh.n - 1 /\ lh.sector[k] = s
    BY <1>2
  <2>2. SlotOf(s) = k
    BY <1>2 DEF SlotOf
  <2> HIDE DEF k
  <2> QED
    BY <2>1, <2>2, <1>1
<1>3. CASE ~ \E i \in 0 .. lh.n - 1 : lh.sector[i] = s
  <2>1. SlotOf(s) = lh.n
    BY <1>3 DEF SlotOf
  <2> QED
    BY <2>1, <1>1, <1>3
<1> QED
  BY <1>2, <1>3

\* log_write panics, or logs the sector in the slot SlotOf finds.
LEMMA LogWriteIInv ==
  ASSUME IInv, NEW p \in Proc, NEW s \in Sector, NEW d \in Data, LogWrite(p, s, d)
  PROVE  IInv'
<1> USE DEF IInv
<1>0. /\ pc[p] = "trans"
      /\ UNCHANGED <<home, head, busy, tail>>
  BY DEF LogWrite
<1>1. busy /\ \A q \in Proc : pc[q] \in InTrans => q = p
  BY <1>0 DEF BusyMeansOwner, InTrans, TypeOK
<1>2. pc[InitProc] \notin Booting /\ \A q \in Proc : pc[q] \notin Booting
  BY <1>0, LogConstants DEF BootAlone, Booting, TypeOK
<1>3. CASE LogFull
  <2>1. /\ pc' = [pc EXCEPT ![p] = "panic"]
        /\ UNCHANGED <<home, logblk, head, cache, dirty, lh, busy, tail>>
    BY <1>3 DEF LogWrite
  <2>2. TypeOK'
    BY <2>1 DEF TypeOK, PC
  <2>3. Absorbed(lh)' /\ Absorbed(head)' /\ CacheCoherent'
    BY <2>1 DEF Absorbed, CacheCoherent
  <2>4. BusyMeansOwner'
    BY <2>1, <1>0, <1>1 DEF BusyMeansOwner, InTrans, TypeOK
  <2>5. BootAlone'
    BY <2>1, <1>2, LogConstants DEF BootAlone, Booting, TypeOK
  <2>6. BuildingLog' /\ Installing' /\ Quiet'
    BY <2>1, <1>0, <1>1 DEF BuildingLog, Installing, Quiet, InTrans, TypeOK, Named
  <2> QED
    BY <2>2, <2>3, <2>4, <2>5, <2>6
<1>4. CASE ~LogFull
  <2> DEFINE i == SlotOf(s)
  <2>0. /\ lh' = [n |-> IF i = lh.n THEN lh.n + 1 ELSE lh.n,
                  sector |-> [lh.sector EXCEPT ![i] = s]]
        /\ logblk' = [logblk EXCEPT ![i] = d]
        /\ cache' = [cache EXCEPT ![s] = d]
        /\ dirty' = dirty \cup {s}
        /\ pc' = pc
    BY <1>4, <1>1 DEF LogWrite
  <2>1. /\ lh.n \in Nat /\ lh.n < LOGSIZE /\ LOGSIZE \in Nat
        /\ lh.sector \in [Slot -> Sector]
    BY <1>4, LogConstants DEF TypeOK, Header, LogFull
  <2>2. /\ i \in 0 .. lh.n
        /\ i # lh.n => lh.sector[i] = s
        /\ i = lh.n => \A j \in 0 .. lh.n - 1 : lh.sector[j] # s
    BY SlotOfFacts
  <2> HIDE DEF i
  <2>3. i \in Slot
    BY <2>1, <2>2 DEF Slot
  <2>4. /\ lh'.n = IF i = lh.n THEN lh.n + 1 ELSE lh.n
        /\ lh'.n \in 1 .. LOGSIZE
        /\ lh'.sector \in [Slot -> Sector]
        /\ lh'.sector[i] = s
        /\ \A j \in Slot : j # i => lh'.sector[j] = lh.sector[j]
        /\ i \in 0 .. lh'.n - 1
        /\ \A j \in 0 .. lh'.n - 1 : j # i => j \in 0 .. lh.n - 1 /\ lh.sector[j] # s
    BY <2>0, <2>1, <2>2, <2>3 DEF Slot, Absorbed
  <2>5. lh' \in Header
    BY <2>0, <2>1, <2>2, <2>3 DEF Header, Slot
  <2>6. TypeOK'
    BY <2>0, <2>3, <2>5, <1>0 DEF TypeOK
  <2>7. \A j \in 0 .. lh'.n - 1 : j \in Slot
    BY <2>4, <2>1 DEF Slot
  <2>8. Absorbed(lh)' /\ Absorbed(head)'
    BY <2>4, <2>7, <1>0 DEF Absorbed
  <2>9. BusyMeansOwner' /\ BootAlone'
    BY <2>0, <1>0 DEF BusyMeansOwner, BootAlone
  <2>10. CacheCoherent'
    BY <2>0, <1>0, LogConstants DEF CacheCoherent, TypeOK
  <2>11. dirty' = Named(lh)'
    <3>1. dirty = Named(lh)
      BY <1>0 DEF BuildingLog
    <3>2. \A x : x \in Named(lh') <=> x \in Named(lh) \/ x = s
      BY <2>1, <2>2, <2>4, <2>7 DEF Named
    <3> QED
      BY <3>1, <3>2, <2>0
  <2>12. \A j \in 0 .. lh'.n - 1 : cache'[lh'.sector[j]] = logblk'[j]
    BY SMTT(30), <2>0, <2>3, <2>4, <2>7, <1>0 DEF BuildingLog, TypeOK
  <2>13. BuildingLog'
    BY <2>0, <2>11, <2>12, <1>0 DEF BuildingLog, TypeOK
  <2>14. Installing' /\ Quiet'
    BY <2>0, <1>0, <1>1, <1>2 DEF Installing, Quiet, InTrans, Booting
  <2> QED
    BY <2>6, <2>8, <2>9, <2>10, <2>13, <2>14
<1> QED
  BY <1>3, <1>4

\* commit_trans writes the header, or finds nothing to commit.
LEMMA CommitTransIInv == ASSUME IInv, NEW p \in Proc, CommitTrans(p) PROVE IInv'
<1> USE DEF IInv
<1>0. pc[p] = "trans" /\ UNCHANGED <<home, logblk, cache, dirty, lh, busy>>
  BY DEF CommitTrans
<1>1. busy /\ \A q \in Proc : pc[q] \in InTrans => q = p
  BY <1>0 DEF BusyMeansOwner, InTrans, TypeOK
<1>2. pc[InitProc] \notin Booting /\ \A q \in Proc : pc[q] \notin Booting
  BY <1>0, LogConstants DEF BootAlone, Booting, TypeOK
<1>3. head.n = 0 /\ dirty = Named(lh) /\ \A i \in 0 .. lh.n - 1 : cache[lh.sector[i]] = logblk[i]
  BY <1>0 DEF BuildingLog
<1>4. lh.n \in 0 .. LOGSIZE /\ LOGSIZE \in Nat
  BY LogConstants DEF TypeOK, Header
<1>5. CASE lh.n > 0
  <2>1. /\ head' = CopyHeader(lh, head)
        /\ pc' = [pc EXCEPT ![p] = "install"]
        /\ tail' = [tail EXCEPT ![p] = 0]
    BY <1>5 DEF CommitTrans, CommittedHeader
  <2>2. head' \in Header /\ head'.n = lh.n /\ \A i \in 0 .. lh.n - 1 : head'.sector[i] = lh.sector[i]
    BY <2>1, <1>4 DEF CopyHeader, Header, TypeOK, Slot
  <2>3. TypeOK'
    BY <2>1, <2>2, <1>0, <1>4 DEF TypeOK, PC
  <2>4. Absorbed(lh)' /\ Absorbed(head)' /\ CacheCoherent'
    BY <2>2, <1>0 DEF Absorbed, CacheCoherent
  <2>5. BusyMeansOwner' /\ BootAlone'
    BY <2>1, <1>0, <1>1, <1>2, LogConstants
       DEF BusyMeansOwner, BootAlone, InTrans, Booting, TypeOK
  <2>6. Installing'
    <3>1. tail'[p] = 0 /\ pc'[p] = "install"
      BY <2>1 DEF TypeOK
    <3>2. dirty' = {lh'.sector[i] : i \in tail'[p] .. lh'.n - 1}
      BY <3>1, <1>3, <1>0 DEF Named
    <3>3. \A q \in Proc : pc'[q] \in {"install", "recover"} => q = p
      BY <2>1, <1>1, <1>2 DEF InTrans, Booting, TypeOK
    <3> QED
      BY SMTT(30), <3>1, <3>2, <3>3, <2>2, <1>0, <1>3, <1>4 DEF Installing
  <2>7. BuildingLog' /\ Quiet'
    BY <2>1, <1>1, <1>2 DEF BuildingLog, Quiet, InTrans, Booting, TypeOK
  <2> QED
    BY <2>3, <2>4, <2>5, <2>6, <2>7
<1>6. CASE ~(lh.n > 0)
  <2>1. pc' = [pc EXCEPT ![p] = "release"] /\ UNCHANGED <<head, tail>>
    BY <1>6 DEF CommitTrans
  <2>2. lh.n = 0 /\ dirty = {}
    BY <1>3, <1>4, <1>6 DEF Named
  <2>3. TypeOK'
    BY <2>1, <1>0 DEF TypeOK, PC
  <2>4. Absorbed(lh)' /\ Absorbed(head)' /\ CacheCoherent'
    BY <2>1, <1>0 DEF Absorbed, CacheCoherent
  <2>5. BusyMeansOwner' /\ BootAlone'
    BY <2>1, <1>0, <1>1, <1>2, LogConstants
       DEF BusyMeansOwner, BootAlone, InTrans, Booting, TypeOK
  <2>6. BuildingLog' /\ Installing' /\ Quiet'
    BY <2>1, <2>2, <1>0, <1>1, <1>2, <1>3
       DEF BuildingLog, Installing, Quiet, InTrans, Booting, TypeOK
  <2> QED
    BY <2>3, <2>4, <2>5, <2>6
<1> QED
  BY <1>5, <1>6

\* install_trans copies one block home.
LEMMA InstallBlockIInv == ASSUME IInv, NEW p \in Proc, InstallBlock(p) PROVE IInv'
<1> USE DEF IInv
<1> DEFINE t == tail[p]
           s == lh.sector[t]
           d == logblk[t]
<1>0. /\ pc[p] \in {"install", "recover"}
      /\ t < lh.n
      /\ home' = [home EXCEPT ![s] = d]
      /\ cache' = [cache EXCEPT ![s] = d]
      /\ dirty' = dirty \ {s}
      /\ tail' = [tail EXCEPT ![p] = t + 1]
      /\ UNCHANGED <<logblk, head, lh, busy, pc>>
  BY DEF InstallBlock
<1>1. lh.n \in 0 .. LOGSIZE /\ LOGSIZE \in Nat /\ t \in Nat /\ lh.sector \in [Slot -> Sector]
  BY LogConstants DEF TypeOK, Header
<1>2. t \in Slot /\ s \in Sector /\ d \in Data /\ t \in 0 .. lh.n - 1
  BY <1>0, <1>1 DEF TypeOK, Slot
<1>3. \A i \in 0 .. lh.n - 1 : i \in Slot /\ (i # t => lh.sector[i] # s)
  BY SMTT(30), <1>1, <1>2 DEF Absorbed, Slot
<1> HIDE DEF t, s, d
<1>4. TypeOK'
  BY SMTT(30), <1>0, <1>1, <1>2 DEF TypeOK
<1>5. Absorbed(lh)' /\ Absorbed(head)' /\ BusyMeansOwner' /\ BootAlone'
  BY <1>0 DEF Absorbed, BusyMeansOwner, BootAlone
<1>6. CacheCoherent'
  BY <1>0, <1>2, LogConstants DEF CacheCoherent, TypeOK
<1>7. \A q \in Proc : pc[q] \in {"install", "recover"} => q = p
  BY <1>0 DEF BusyMeansOwner, BootAlone, InTrans, Booting, TypeOK
<1>8. \A q \in Proc : pc[q] \notin {"trans", "panic"}
  BY <1>0 DEF BusyMeansOwner, BootAlone, InTrans, Booting, TypeOK
<1>9. tail'[p] = t + 1
  BY <1>0 DEF TypeOK
<1>10. /\ head.n = lh.n
       /\ \A i \in 0 .. lh.n - 1 : head.sector[i] = lh.sector[i]
       /\ \A i \in 0 .. lh.n - 1 : i < t => home[lh.sector[i]] = logblk[i]
       /\ pc[p] = "recover" => dirty = {}
       /\ pc[p] = "install" =>
             /\ dirty = {lh.sector[i] : i \in t .. lh.n - 1}
             /\ \A i \in t .. lh.n - 1 : cache[lh.sector[i]] = logblk[i]
  BY <1>0 DEF Installing, t
<1>11. \A i \in 0 .. lh.n - 1 : i < t + 1 => home'[lh.sector[i]] = logblk[i]
  <2> SUFFICES ASSUME NEW i \in 0 .. lh.n - 1, i < t + 1
               PROVE  home'[lh.sector[i]] = logblk[i]
    OBVIOUS
  <2>1. CASE i = t
    BY <2>1, <1>0, <1>2 DEF TypeOK, s, d
  <2>2. CASE i # t
    BY <2>2, <1>0, <1>1, <1>2, <1>3, <1>10 DEF TypeOK
  <2> QED
    BY <2>1, <2>2
<1>12. ASSUME pc[p] = "install"
       PROVE  /\ dirty' = {lh.sector[i] : i \in t + 1 .. lh.n - 1}
              /\ \A i \in t + 1 .. lh.n - 1 : cache'[lh.sector[i]] = logblk[i]
  <2>1. \A x : x \in dirty' <=> x \in {lh.sector[i] : i \in t + 1 .. lh.n - 1}
    <3>1. \A i : i \in t .. lh.n - 1 <=> i = t \/ i \in t + 1 .. lh.n - 1
      BY <1>1, <1>2
    <3>2. \A i \in t + 1 .. lh.n - 1 : lh.sector[i] # s
      BY <1>1, <1>2, <1>3
    <3>3. lh.sector[t] = s
      BY DEF s
    <3> QED
      BY <3>1, <3>2, <3>3, <1>0, <1>10, <1>12
  <2>2. \A i \in t + 1 .. lh.n - 1 : cache'[lh.sector[i]] = logblk[i]
    BY <1>0, <1>1, <1>2, <1>3, <1>10, <1>12 DEF TypeOK
  <2> QED
    BY <2>1, <2>2
<1>13. Installing'
  BY SMTT(30), <1>0, <1>1, <1>2, <1>7, <1>9, <1>10, <1>11, <1>12 DEF Installing
<1>14. BuildingLog' /\ Quiet'
  BY <1>0, <1>8 DEF BuildingLog, Quiet
<1> QED
  BY <1>4, <1>5, <1>6, <1>13, <1>14

\* commit_trans and recovery erase the header once all blocks are home.
LEMMA EraseLogIInv == ASSUME IInv, NEW p \in Proc, EraseLog(p) PROVE IInv'
<1> USE DEF IInv
<1>0. /\ pc[p] \in {"install", "recover"}
      /\ tail[p] >= lh.n
      /\ lh' = [lh EXCEPT !.n = 0]
      /\ head' = CopyHeader(lh', head)
      /\ pc' = AfterErase(p)
      /\ UNCHANGED <<home, logblk, cache, dirty, busy, tail>>
  BY DEF EraseLog, Installed
<1>1. lh.n \in 0 .. LOGSIZE /\ LOGSIZE \in Nat /\ tail[p] \in Nat
  BY LogConstants DEF TypeOK, Header
<1>2. lh' \in Header /\ lh'.n = 0 /\ head' \in Header /\ head'.n = 0
  BY <1>0, <1>1 DEF TypeOK, Header, CopyHeader, Slot
<1>3. dirty = {}
  <2>1. CASE pc[p] = "recover"
    BY <2>1 DEF Installing
  <2>2. CASE pc[p] = "install"
    <3>1. dirty = {lh.sector[i] : i \in tail[p] .. lh.n - 1}
      BY <2>2 DEF Installing
    <3>2. tail[p] .. lh.n - 1 = {}
      BY <1>0, <1>1
    <3> QED
      BY <3>1, <3>2
  <2> QED
    BY <1>0, <2>1, <2>2
<1>4. TypeOK'
  BY <1>0, <1>2 DEF TypeOK, AfterErase, PC
<1>5. Absorbed(lh)' /\ Absorbed(head)' /\ CacheCoherent'
  BY <1>0, <1>2 DEF Absorbed, CacheCoherent
<1>6. \A q \in Proc : pc'[q] \notin {"trans", "panic", "install", "recover", "initlog", "none"}
  BY <1>0 DEF AfterErase, BusyMeansOwner, BootAlone, InTrans, Booting, TypeOK, PC
<1>7. BusyMeansOwner'
  BY <1>0 DEF AfterErase, BusyMeansOwner, BootAlone, InTrans, Booting, TypeOK, PC
<1>8. BootAlone' /\ BuildingLog' /\ Installing' /\ Quiet'
  BY <1>0, <1>2, <1>3, <1>6, LogConstants
     DEF BootAlone, BuildingLog, Installing, Quiet, Booting
<1> QED
  BY <1>4, <1>5, <1>7, <1>8

\* commit_trans clears log.busy and wakes the sleepers.
LEMMA ReleaseIInv == ASSUME IInv, NEW p \in Proc, Release(p) PROVE IInv'
<1> USE DEF IInv
<1>0. /\ pc[p] = "release"
      /\ busy' = FALSE
      /\ pc' = [q \in Proc |-> IF q = p THEN "user" ELSE Awakened(q)]
      /\ UNCHANGED <<home, logblk, head, cache, dirty, lh, tail>>
  BY DEF Release, disk
<1>1. \A q \in Proc : q # p => pc[q] \notin InTrans
  BY <1>0 DEF BusyMeansOwner, InTrans
<1>2. \A q \in Proc : pc[q] \notin Booting
  BY <1>0, LogConstants DEF BootAlone, Booting, TypeOK
<1>3. \A q \in Proc : pc'[q] \in {"user", "begin"}
  BY <1>0, <1>1, <1>2 DEF Awakened, InTrans, Booting, TypeOK, PC
<1>4. TypeOK'
  BY ZenonT(30), <1>0, <1>3 DEF TypeOK, PC
<1>5. Absorbed(lh)' /\ Absorbed(head)' /\ CacheCoherent'
  BY <1>0 DEF Absorbed, CacheCoherent
<1>6. lh.n = 0 /\ dirty = {} /\ head.n = 0
  BY <1>0, <1>1, <1>2, LogConstants DEF Quiet, InTrans, Booting
<1>7. BusyMeansOwner' /\ BootAlone'
  BY <1>0, <1>3, LogConstants DEF BusyMeansOwner, BootAlone, InTrans, Booting
<1>8. BuildingLog' /\ Installing' /\ Quiet'
  BY <1>0, <1>3, <1>6 DEF BuildingLog, Installing, Quiet
<1> QED
  BY <1>4, <1>5, <1>7, <1>8

\* initlog reads the header a crash left.
LEMMA ReadHeadIInv == ASSUME IInv, NEW p \in Proc, ReadHead(p) PROVE IInv'
<1> USE DEF IInv
<1>0. /\ pc[p] = "initlog"
      /\ lh' = CopyHeader(head, lh)
      /\ pc' = [pc EXCEPT ![p] = "recover"]
      /\ tail' = [tail EXCEPT ![p] = 0]
      /\ UNCHANGED <<home, logblk, head, cache, dirty, busy>>
  BY DEF ReadHead, disk
<1>1. head.n \in 0 .. LOGSIZE /\ LOGSIZE \in Nat
  BY LogConstants DEF TypeOK, Header
<1>2. lh' \in Header /\ lh'.n = head.n /\ \A i \in 0 .. head.n - 1 : lh'.sector[i] = head.sector[i]
  BY <1>0, <1>1 DEF CopyHeader, Header, TypeOK, Slot
<1>3. TypeOK'
  BY <1>0, <1>1, <1>2 DEF TypeOK, PC
<1>4. Absorbed(lh)' /\ Absorbed(head)' /\ CacheCoherent'
  BY <1>0, <1>2 DEF Absorbed, CacheCoherent
<1>5. p = InitProc /\ \A q \in Proc : pc[q] \in Booting /\ (q # p => pc[q] = "none")
  BY <1>0, LogConstants DEF BootAlone, Booting
<1>6. BusyMeansOwner' /\ BootAlone'
  BY <1>0, <1>5, LogConstants DEF BusyMeansOwner, BootAlone, InTrans, Booting, TypeOK
<1>7. dirty = {}
  BY <1>0, <1>5 DEF Quiet, Booting
<1>8. BuildingLog' /\ Installing' /\ Quiet'
  BY SMTT(30), <1>0, <1>1, <1>2, <1>5, <1>7 DEF BuildingLog, Installing, Quiet, Booting, TypeOK
<1> QED
  BY <1>3, <1>4, <1>6, <1>8

\* Every step of the system keeps the invariant.
LEMMA NextIInv == IInv /\ [Next]_vars => IInv'
<1> SUFFICES ASSUME IInv, [Next]_vars PROVE IInv'
  OBVIOUS
<1>1. CASE UNCHANGED vars
  <2>1. TypeOK' /\ BusyMeansOwner' /\ BootAlone' /\ CacheCoherent'
    BY <1>1 DEF vars, IInv, TypeOK, BusyMeansOwner, BootAlone, CacheCoherent
  <2>2. Absorbed(lh)' /\ Absorbed(head)' /\ BuildingLog' /\ Quiet'
    BY <1>1 DEF vars, IInv, Absorbed, BuildingLog, Quiet
  <2>3. Installing'
    BY <1>1 DEF vars, IInv, Installing, Named
  <2> QED
    BY <2>1, <2>2, <2>3 DEF IInv
<1>2. CASE Next
  BY <1>2, CrashIInv, ReadIInv, RecycleIInv, BeginTransIInv, KillIInv, LogWriteIInv,
     CommitTransIInv, InstallBlockIInv, EraseLogIInv, ReleaseIInv, ReadHeadIInv
     DEF Next, Step
<1> QED
  BY <1>1, <1>2

(* log.c keeps its in-memory state, its header and its log blocks in step, *)
(* whatever the interleaving and wherever power is lost.                   *)
THEOREM LogInvariant == Spec => []IInv
  BY InitIInv, NextIInv, PTL DEF Spec

(* Type correctness: in particular log.lh never names more than LOGSIZE    *)
(* blocks, so log_write never indexes past lh.sector.                      *)
THEOREM LogTypes == Spec => []TypeOK
<1>1. IInv => TypeOK
  BY DEF IInv
<1> QED
  BY <1>1, LogInvariant, PTL

(* begin_trans loses no wakeup: whoever sleeps on &log is woken by the     *)
(* commit_trans of the process that is inside a transaction.               *)
THEOREM LogNoLostWakeup == Spec => []SleeperHasWaker
<1>1. Init => SleeperHasWaker
  BY DEF Init, BootPC, SleeperHasWaker
<1>2. ASSUME IInv, SleeperHasWaker, [Next]_vars PROVE SleeperHasWaker'
  <2>1. CASE UNCHANGED vars
    BY <2>1, <1>2 DEF vars, SleeperHasWaker
  <2>2. CASE Crash
    BY <2>2 DEF Crash, BootPC, SleeperHasWaker
  <2>3. ASSUME NEW p \in Proc, BeginTrans(p) PROVE SleeperHasWaker'
    BY <1>2, <2>3 DEF BeginTrans, SleeperHasWaker, IInv, TypeOK, BusyMeansOwner, InTrans
  <2>4. ASSUME NEW p \in Proc, Step(p) PROVE SleeperHasWaker'
    <3>1. CASE CommitTrans(p)
      BY <1>2, <3>1 DEF CommitTrans, SleeperHasWaker, IInv, TypeOK, InTrans
    <3>2. CASE InstallBlock(p)
      BY <1>2, <3>2 DEF InstallBlock, SleeperHasWaker
    <3>3. CASE EraseLog(p)
      BY <1>2, <3>3 DEF EraseLog, AfterErase, SleeperHasWaker, IInv, TypeOK, InTrans
    <3>4. CASE Release(p)
      BY <1>2, <3>4 DEF Release, Awakened, SleeperHasWaker
    <3>5. CASE ReadHead(p)
      BY <1>2, <3>5 DEF ReadHead, SleeperHasWaker, IInv, TypeOK, InTrans
    <3> QED
      BY <2>4, <3>1, <3>2, <3>3, <3>4, <3>5 DEF Step
  <2>5. ASSUME NEW p \in Proc, NEW s \in Sector, NEW d \in Data, LogWrite(p, s, d)
        PROVE  SleeperHasWaker'
    BY <1>2, <2>5 DEF LogWrite, SleeperHasWaker, IInv, TypeOK, InTrans
  <2>6. ASSUME NEW p \in Proc, NEW s \in Sector, Read(p, s) PROVE SleeperHasWaker'
    BY <1>2, <2>6 DEF Read, SleeperHasWaker
  <2>7. ASSUME NEW s \in Sector, Recycle(s) PROVE SleeperHasWaker'
    BY <1>2, <2>7 DEF Recycle, SleeperHasWaker
  <2>8. ASSUME NEW p \in Proc, Kill(p) PROVE SleeperHasWaker'
    BY <1>2, <2>8 DEF Kill, SleeperHasWaker, IInv, TypeOK, InTrans
  <2> QED
    BY <1>2, <2>1, <2>2, <2>3, <2>4, <2>5, <2>6, <2>7, <2>8 DEF Next
<1> QED
  BY <1>1, <1>2, LogInvariant, PTL DEF Spec

(* Write-ahead: home sectors only ever receive what the committed header   *)
(* on disk names for them.                                                 *)
THEOREM LogWriteAhead == Spec => WriteAhead
<1>1. ASSUME IInv, [Next]_vars
      PROVE  [\A s \in Sector : home'[s] # home[s] =>
                \E i \in 0 .. head.n - 1 : head.sector[i] = s /\ home'[s] = logblk[i]]_vars
  <2>1. CASE UNCHANGED vars
    BY <2>1
  <2>2. CASE home' = home
    BY <2>2
  <2>3. ASSUME NEW p \in Proc, InstallBlock(p)
        PROVE  \A s \in Sector : home'[s] # home[s] =>
                  \E i \in 0 .. head.n - 1 : head.sector[i] = s /\ home'[s] = logblk[i]
    <3>1. tail[p] \in 0 .. lh.n - 1
      BY <1>1, <2>3, LogConstants DEF InstallBlock, IInv, TypeOK, Header
    <3>2. head.n = lh.n /\ head.sector[tail[p]] = lh.sector[tail[p]]
      BY <1>1, <2>3, <3>1 DEF InstallBlock, IInv, Installing
    <3> QED
      BY <1>1, <2>3, <3>1, <3>2 DEF InstallBlock, IInv, TypeOK
  <2> QED
    BY <1>1, <2>1, <2>2, <2>3 DEF Next, Step, Crash, Read, Recycle, BeginTrans,
       Kill, LogWrite, CommitTrans, EraseLog, Release, ReadHead, disk
<1> QED
  BY <1>1, LogInvariant, PTL DEF Spec, WriteAhead

-----------------------------------------------------------------------------
(* The log implements AtomicDisk.                                          *)

(* What redoing the log gives: the log block for a sector the header       *)
(* names, the home sector's own contents for any other.                    *)
LEMMA RedoFacts ==
  ASSUME NEW h, NEW blocks, NEW base, NEW s \in Sector, Absorbed(h)
  PROVE  /\ \A i \in 0 .. h.n - 1 : h.sector[i] = s => Redo(h, blocks, base)[s] = blocks[i]
         /\ (\A i \in 0 .. h.n - 1 : h.sector[i] # s) => Redo(h, blocks, base)[s] = base[s]
<1>1. CASE \E i \in 0 .. h.n - 1 : h.sector[i] = s
  <2> DEFINE k == CHOOSE i \in 0 .. h.n - 1 : h.sector[i] = s
  <2>1. k \in 0 .. h.n - 1 /\ h.sector[k] = s
    BY <1>1
  <2>2. Redo(h, blocks, base)[s] = blocks[k]
    BY <1>1 DEF Redo
  <2> HIDE DEF k
  <2> QED
    BY <1>1, <2>1, <2>2 DEF Absorbed
<1>2. CASE ~ \E i \in 0 .. h.n - 1 : h.sector[i] = s
  BY <1>2 DEF Redo
<1> QED
  BY <1>1, <1>2

(* An empty header leaves the home sectors as they are.                    *)
LEMMA RedoNothing ==
  ASSUME NEW h, NEW blocks, NEW base \in [Sector -> Data], h.n = 0
  PROVE  Redo(h, blocks, base) = base
  BY DEF Redo

\* The owner is a process in a transaction when there is one, else nobody.
LEMMA OwnerFacts ==
  ASSUME NEW at
  PROVE  /\ (\A p \in Proc : at[p] \notin InTrans) => InTransaction(at) = NoProc
         /\ \A p \in Proc : at[p] \in InTrans /\ (\A q \in Proc : at[q] \in InTrans => q = p)
               => InTransaction(at) = p
  BY ZenonT(30) DEF InTransaction

(* Outside a transaction, and once it is known stable, memory and disk     *)
(* agree on every sector.                                                  *)
LEMMA ViewClean ==
  ASSUME IInv, dirty = {}
  PROVE  [s \in Sector |-> IF cache[s] = NoBuf THEN home[s] ELSE cache[s]] = home
  BY DEF IInv, CacheCoherent, TypeOK

\* A fresh disk is an initial abstract disk.
LEMMA InitRefines == Init => Abstract!Init
<1> SUFFICES ASSUME Init PROVE Abstract!Init
  OBVIOUS
<1>1. pc = BootPC /\ head.n = 0 /\ home \in [Sector -> Data]
  BY DEF Init, ZeroHeader
<1>2. Stable = home
  BY <1>1, RedoNothing DEF Stable
<1>3. View = Stable
  BY <1>1, LogConstants DEF View, BootPC, Booting
<1>4. Owner = NoProc
  BY <1>1, OwnerFacts DEF Owner, BootPC, InTrans
<1> QED
  BY <1>1, <1>2, <1>3, <1>4 DEF Abstract!Init

(* The transaction's owner is a function of the program counters.          *)
LEMMA OwnerIs ==
  ASSUME IInv, NEW p \in Proc, pc[p] \in InTrans
  PROVE  Owner = p
  BY OwnerFacts DEF IInv, BusyMeansOwner, Owner

\* A crash is a crash of the abstract disk: redoing the log loses nothing.
LEMMA CrashRefines == ASSUME IInv, Crash PROVE Abstract!Crash
<1>1. Stable' = Stable
  BY DEF Crash, disk, Stable
<1>2. pc' = BootPC
  BY DEF Crash
<1>3. View' = Stable'
  BY <1>2, LogConstants DEF View, BootPC, Booting
<1>4. Owner' = NoProc
  BY <1>2, OwnerFacts DEF Owner, BootPC, InTrans
<1> QED
  BY <1>1, <1>3, <1>4 DEF Abstract!Crash

\* Reading a sector changes nothing that can be observed.
LEMMA ReadRefines ==
  ASSUME IInv, NEW p \in Proc, NEW s \in Sector, Read(p, s)
  PROVE  UNCHANGED Abstract!vars
<1>1. Stable' = Stable /\ Owner' = Owner
  BY DEF Read, disk, Stable, Owner
<1>2. View' = View
  BY <1>1, LogConstants DEF Read, disk, View, IInv, TypeOK
<1> QED
  BY <1>1, <1>2 DEF Abstract!vars

\* Dropping a clean buffer changes nothing that can be observed.
LEMMA RecycleRefines ==
  ASSUME IInv, NEW s \in Sector, Recycle(s)
  PROVE  UNCHANGED Abstract!vars
<1>1. Stable' = Stable /\ Owner' = Owner
  BY DEF Recycle, disk, Stable, Owner
<1>2. cache[s] = home[s]
  BY DEF Recycle, MayRecycle, IInv, CacheCoherent
<1>3. View' = View
  BY <1>1, <1>2, LogConstants DEF Recycle, disk, View, IInv, TypeOK
<1> QED
  BY <1>1, <1>3 DEF Abstract!vars

\* begin_trans is Begin, or a stutter when it goes to sleep.
LEMMA BeginTransRefines ==
  ASSUME IInv, IInv', NEW p \in Proc, BeginTrans(p)
  PROVE  Abstract!Begin(p) \/ UNCHANGED Abstract!vars
<1>1. Stable' = Stable
  BY DEF BeginTrans, disk, Stable
<1>2. pc[InitProc] \notin Booting /\ pc'[InitProc] \notin Booting
  BY LogConstants DEF BeginTrans, IInv, BootAlone, Booting, TypeOK
<1>3. View' = View
  BY <1>2 DEF BeginTrans, disk, View
<1>4. CASE busy
  <2>1. PICK q \in Proc : pc[q] \in InTrans
    BY <1>4 DEF IInv, BusyMeansOwner
  <2>2. pc'[q] \in InTrans
    BY <1>4, <2>1 DEF BeginTrans, InTrans, IInv, TypeOK
  <2>3. Owner' = q
    BY <2>2, OwnerFacts DEF IInv, BusyMeansOwner, Owner
  <2> QED
    BY <1>1, <1>3, <2>1, <2>3, OwnerIs DEF Abstract!vars
<1>5. CASE ~busy
  <2>1. Owner = NoProc
    BY <1>5, OwnerFacts DEF IInv, BusyMeansOwner, Owner
  <2>2. pc'[p] \in InTrans
    BY <1>5 DEF BeginTrans, InTrans, IInv, TypeOK
  <2>3. Owner' = p
    BY <2>2, OwnerFacts DEF IInv, BusyMeansOwner, Owner
  <2> QED
    BY <1>1, <1>3, <2>1, <2>3 DEF Abstract!Begin
<1> QED
  BY <1>4, <1>5

\* log_write is Write, or a stutter when it panics.
LEMMA LogWriteRefines ==
  ASSUME IInv, IInv', NEW p \in Proc, NEW s \in Sector, NEW d \in Data, LogWrite(p, s, d)
  PROVE  Abstract!Write(p, s, d) \/ UNCHANGED Abstract!vars
<1>1. /\ pc[p] = "trans" /\ head.n = 0 /\ UNCHANGED <<home, head>>
      /\ pc'[p] \in {"trans", "panic"}
  BY SMTT(30) DEF LogWrite, IInv, BuildingLog, TypeOK
<1>2. Stable = home /\ Stable' = home
  BY <1>1, RedoNothing DEF Stable, IInv, TypeOK
<1>3. Owner = p /\ Owner' = p
  <2>1. pc'[p] \in InTrans
    BY <1>1 DEF InTrans
  <2>2. Owner' = p
    BY <2>1, OwnerFacts DEF IInv, BusyMeansOwner, Owner
  <2> QED
    BY <1>1, <2>2, OwnerIs DEF InTrans
<1>4. pc[InitProc] \notin Booting /\ pc'[InitProc] \notin Booting
  BY <1>1, LogConstants DEF IInv, BootAlone, Booting
<1>5. CASE cache' = cache
  <2>1. View' = View
    BY <1>1, <1>4, <1>5 DEF View
  <2> QED
    BY <1>2, <1>3, <2>1 DEF Abstract!vars
<1>6. CASE cache' = [cache EXCEPT ![s] = d]
  <2>1. View' = [View EXCEPT ![s] = d]
    BY ZenonT(30), <1>1, <1>4, <1>6, LogConstants DEF View, IInv, TypeOK
  <2> QED
    BY <1>2, <1>3, <2>1 DEF Abstract!Write
<1> QED
  BY <1>5, <1>6 DEF LogWrite

\* The header write is Commit; a commit of nothing changes nothing.
LEMMA CommitTransRefines ==
  ASSUME IInv, IInv', NEW p \in Proc, CommitTrans(p)
  PROVE  Abstract!Commit(p) \/ UNCHANGED Abstract!vars
<1>1. /\ pc[p] = "trans" /\ dirty = Named(lh)
      /\ \A i \in 0 .. lh.n - 1 : cache[lh.sector[i]] = logblk[i]
      /\ UNCHANGED <<home, logblk, cache>>
      /\ pc'[p] \in {"install", "release"}
  BY ZenonT(30) DEF CommitTrans, IInv, BuildingLog, TypeOK
<1>2. Owner = p /\ Owner' = p
  <2>1. pc'[p] \in InTrans
    BY ZenonT(30), <1>1 DEF InTrans
  <2>2. Owner' = p
    BY <2>1, OwnerFacts DEF IInv, BusyMeansOwner, Owner
  <2> QED
    BY ZenonT(30), <1>1, <2>2, OwnerIs DEF InTrans
<1>3. pc[InitProc] \notin Booting /\ pc'[InitProc] \notin Booting
  BY <1>1, LogConstants DEF IInv, BootAlone, Booting
<1>4. View' = View
  <2>1. View = [s \in Sector |-> IF cache[s] = NoBuf THEN home[s] ELSE cache[s]]
    BY <1>3 DEF View
  <2>2. View' = [s \in Sector |-> IF cache[s] = NoBuf THEN home[s] ELSE cache[s]]
    BY <1>1, <1>3 DEF View
  <2> QED
    BY <2>1, <2>2
<1>5. CASE lh.n > 0
  <2>1. lh.n \in 0 .. LOGSIZE /\ LOGSIZE \in Nat
    BY LogConstants DEF IInv, TypeOK, Header
  <2>2. head'.n = lh.n /\ \A i \in 0 .. lh.n - 1 : head'.sector[i] = lh.sector[i]
    BY <1>5, <2>1 DEF CommitTrans, CommittedHeader, CopyHeader, Slot
  <2>3. Absorbed(head')
    BY DEF IInv, Absorbed
  <2>4. ASSUME NEW s \in Sector PROVE Redo(head', logblk, home)[s] = View[s]
    <3>1. CASE \E i \in 0 .. lh.n - 1 : lh.sector[i] = s
      <4>1. PICK i \in 0 .. lh.n - 1 : lh.sector[i] = s
        BY <3>1
      <4>2. Redo(head', logblk, home)[s] = logblk[i]
        BY SMTT(30), <4>1, <2>2, <2>3, RedoFacts
      <4>3. cache[s] = logblk[i] /\ cache[s] # NoBuf
        BY <4>1, <1>1 DEF IInv, CacheCoherent, Named
      <4> QED
        BY <4>2, <4>3, <1>3 DEF View
    <3>2. CASE \A i \in 0 .. lh.n - 1 : lh.sector[i] # s
      <4>1. Redo(head', logblk, home)[s] = home[s]
        BY SMTT(30), <3>2, <2>2, <2>3, RedoFacts
      <4>2. s \notin dirty
        BY <3>2, <1>1 DEF Named
      <4> QED
        BY <4>1, <4>2, <1>3 DEF View, IInv, CacheCoherent
    <3> QED
      BY <3>1, <3>2
  <2>5. Stable' = Redo(head', logblk, home)
    BY <1>1 DEF Stable
  <2>6. Redo(head', logblk, home) = View
    BY <2>4, <1>3 DEF Redo, View
  <2> QED
    BY <1>2, <1>4, <2>5, <2>6 DEF Abstract!Commit
<1>6. CASE ~(lh.n > 0)
  <2>1. Stable' = Stable
    BY <1>1, <1>6 DEF CommitTrans, Stable
  <2> QED
    BY <1>2, <1>4, <2>1 DEF Abstract!vars
<1> QED
  BY <1>5, <1>6

\* Copying a block home changes nothing that can be observed.
LEMMA InstallBlockRefines ==
  ASSUME IInv, NEW p \in Proc, InstallBlock(p)
  PROVE  UNCHANGED Abstract!vars
<1> DEFINE t == tail[p]
           s == lh.sector[t]
           d == logblk[t]
<1>1. /\ pc[p] \in {"install", "recover"}
      /\ home' = [home EXCEPT ![s] = d]
      /\ cache' = [cache EXCEPT ![s] = d]
      /\ UNCHANGED <<logblk, head, lh, pc>>
  BY DEF InstallBlock
<1>2. lh.n \in 0 .. LOGSIZE /\ LOGSIZE \in Nat /\ t \in 0 .. lh.n - 1
  BY SMTT(30), LogConstants DEF InstallBlock, IInv, TypeOK, Header
<1>3. s \in Sector /\ d \in Data
  BY <1>2 DEF IInv, TypeOK, Header, Slot
<1>4. head.n = lh.n /\ head.sector[t] = s
  BY ZenonT(30), <1>1, <1>2 DEF IInv, Installing
<1>5. pc[p] = "install" => cache[s] = d
  <2>1. t \in t .. lh.n - 1
    BY <1>2
  <2> QED
    BY ZenonT(30), <2>1 DEF IInv, Installing
<1> HIDE DEF t, s, d
<1>6. Stable' = Stable
  <2>1. ASSUME NEW x \in Sector
        PROVE  Redo(head, logblk, home')[x] = Redo(head, logblk, home)[x]
    <3>1. CASE \E i \in 0 .. head.n - 1 : head.sector[i] = x
      BY SMTT(30), <3>1, RedoFacts DEF IInv
    <3>2. CASE \A i \in 0 .. head.n - 1 : head.sector[i] # x
      <4>1. x # s
        BY <3>2, <1>2, <1>4
      <4>2. home'[x] = home[x]
        BY <4>1, <1>1 DEF IInv, TypeOK
      <4> QED
        BY SMTT(30), <3>2, <4>2, RedoFacts DEF IInv
    <3> QED
      BY <3>1, <3>2
  <2>2. Redo(head, logblk, home') = Redo(head, logblk, home)
    BY <2>1 DEF Redo
  <2> QED
    BY <2>2, <1>1 DEF Stable
<1>7. Owner' = Owner
  BY <1>1 DEF Owner
<1>8. CASE pc[p] = "recover"
  <2>1. pc[InitProc] \in Booting
    BY <1>8, LogConstants DEF IInv, BootAlone, Booting
  <2>2. View' = View
    BY <2>1, <1>1, <1>6 DEF View
  <2> QED
    BY <2>2, <1>6, <1>7 DEF Abstract!vars
<1>9. CASE pc[p] = "install"
  <2>1. pc[InitProc] \notin Booting
    BY <1>9, LogConstants DEF IInv, BootAlone, Booting
  <2>2. View' = View
    BY <2>1, <1>1, <1>3, <1>5, <1>9, LogConstants DEF View, IInv, TypeOK
  <2> QED
    BY <2>2, <1>6, <1>7 DEF Abstract!vars
<1> QED
  BY <1>1, <1>8, <1>9

\* Erasing the header changes nothing that can be observed.
LEMMA EraseLogRefines ==
  ASSUME IInv, IInv', NEW p \in Proc, EraseLog(p)
  PROVE  UNCHANGED Abstract!vars
<1>1. /\ pc[p] \in {"install", "recover"}
      /\ tail[p] >= lh.n
      /\ lh'.n = 0 /\ head'.n = 0
      /\ pc' = AfterErase(p)
      /\ UNCHANGED <<home, logblk, cache, dirty>>
  BY DEF EraseLog, Installed, CopyHeader, IInv, TypeOK, Header
<1>2. lh.n \in 0 .. LOGSIZE /\ LOGSIZE \in Nat /\ tail[p] \in 0 .. LOGSIZE
  BY LogConstants DEF IInv, TypeOK, Header
<1>3. /\ head.n = lh.n
      /\ \A i \in 0 .. lh.n - 1 : home[head.sector[i]] = logblk[i]
  BY SMTT(30), <1>1, <1>2 DEF IInv, Installing
<1>4. Stable = home
  <2>1. ASSUME NEW s \in Sector PROVE Redo(head, logblk, home)[s] = home[s]
    BY SMTT(30), <1>3, RedoFacts DEF IInv
  <2>2. Redo(head, logblk, home) = [s \in Sector |-> Redo(head, logblk, home)[s]]
    BY DEF Redo
  <2> QED
    BY <2>1, <2>2 DEF Stable, IInv, TypeOK
<1>5. Stable' = home
  BY <1>1, RedoNothing DEF Stable, IInv, TypeOK
<1>6. CASE pc[p] = "recover"
  <2>1. dirty = {}
    BY ZenonT(30), <1>6 DEF IInv, Installing
  <2>2. pc[InitProc] \in Booting /\ \A q \in Proc : pc[q] \in Booting
    BY ZenonT(30), <1>6, LogConstants DEF IInv, BootAlone, Booting
  <2>3. \A q \in Proc : pc'[q] = "user"
    BY <1>1, <1>6 DEF AfterErase
  <2>4. Owner = NoProc /\ Owner' = NoProc
    BY <2>2, <2>3, OwnerFacts DEF Owner, InTrans, Booting
  <2>5. View = home
    BY <2>2, <1>4 DEF View
  <2>6. View' = [s \in Sector |-> IF cache[s] = NoBuf THEN home[s] ELSE cache[s]]
    BY <2>3, <1>1, LogConstants DEF View, Booting
  <2> QED
    BY <1>4, <1>5, <2>1, <2>4, <2>5, <2>6, ViewClean DEF Abstract!vars
<1>7. CASE pc[p] = "install"
  <2>1. pc' = [pc EXCEPT ![p] = "release"]
    BY <1>1, <1>7 DEF AfterErase
  <2>2. pc[p] \in InTrans /\ pc'[p] \in InTrans
    BY <2>1, <1>7 DEF InTrans, IInv, TypeOK
  <2>3. Owner' = p
    BY <2>2, OwnerFacts DEF IInv, BusyMeansOwner, Owner
  <2>4. pc[InitProc] \notin Booting /\ pc'[InitProc] \notin Booting
    BY ZenonT(30), <1>7, <2>1, LogConstants DEF IInv, BootAlone, Booting, TypeOK
  <2>5. View' = View
    BY <2>4, <1>1 DEF View
  <2> QED
    BY <1>4, <1>5, <2>2, <2>3, <2>5, OwnerIs DEF Abstract!vars
<1> QED
  BY <1>1, <1>6, <1>7

\* The release of log.busy is End.
LEMMA ReleaseRefines ==
  ASSUME IInv, NEW p \in Proc, Release(p)
  PROVE  Abstract!End(p)
<1>1. /\ pc[p] = "release"
      /\ pc' = [q \in Proc |-> IF q = p THEN "user" ELSE Awakened(q)]
      /\ UNCHANGED <<home, logblk, head, cache>>
  BY DEF Release, disk
<1>2. \A q \in Proc : q # p => pc[q] \notin InTrans
  BY <1>1 DEF IInv, BusyMeansOwner, InTrans
<1>3. \A q \in Proc : pc[q] \notin Booting
  BY <1>1, LogConstants DEF IInv, BootAlone, Booting, TypeOK
<1>4. \A q \in Proc : pc'[q] \in {"user", "begin"}
  BY <1>1, <1>2, <1>3 DEF Awakened, InTrans, Booting, IInv, TypeOK, PC
<1>5. dirty = {} /\ head.n = 0
  BY <1>1, <1>2, <1>3, LogConstants DEF IInv, Quiet, InTrans, Booting
<1>6. Stable = home /\ Stable' = home
  BY <1>1, <1>5, RedoNothing DEF Stable, IInv, TypeOK
<1>7. Owner = p
  BY <1>1, OwnerIs DEF InTrans
<1>8. Owner' = NoProc
  BY <1>4, OwnerFacts DEF Owner, InTrans
<1>9. View = [s \in Sector |-> IF cache[s] = NoBuf THEN home[s] ELSE cache[s]]
  BY <1>3, LogConstants DEF View
<1>10. View' = [s \in Sector |-> IF cache[s] = NoBuf THEN home[s] ELSE cache[s]]
  BY <1>1, <1>4, LogConstants DEF View, Booting
<1> QED
  BY <1>5, <1>6, <1>7, <1>8, <1>9, <1>10, ViewClean DEF Abstract!End

\* Waking a sleeper changes nothing that can be observed.
LEMMA KillRefines ==
  ASSUME IInv, NEW p \in Proc, Kill(p)
  PROVE  UNCHANGED Abstract!vars
<1>1. /\ pc[p] = "sleep" /\ pc'[p] = "begin"
      /\ \A q \in Proc : q # p => pc'[q] = pc[q]
  BY DEF Kill, IInv, TypeOK
<1>2. Stable' = Stable
  BY DEF Kill, disk, Stable
<1>3. pc'[InitProc] \in Booting <=> pc[InitProc] \in Booting
  BY <1>1, LogConstants DEF Booting
<1>4. View' = View
  BY <1>2, <1>3 DEF Kill, disk, View
<1>5. \A q \in Proc : pc'[q] \in InTrans <=> pc[q] \in InTrans
  BY <1>1 DEF InTrans
<1>6. Owner' = Owner
  <2>1. CASE \E q \in Proc : pc[q] \in InTrans
    <3>1. PICK q \in Proc : pc[q] \in InTrans
      BY <2>1
    <3>2. \A r \in Proc : pc[r] \in InTrans => r = q
      BY <3>1 DEF IInv, BusyMeansOwner
    <3> QED
      BY <1>5, <3>1, <3>2 DEF Owner, InTransaction
  <2>2. CASE ~ \E q \in Proc : pc[q] \in InTrans
    BY <1>5, <2>2 DEF Owner, InTransaction
  <2> QED
    BY <2>1, <2>2
<1> QED
  BY <1>2, <1>4, <1>6 DEF Abstract!vars

\* Reading the header changes nothing that can be observed.
LEMMA ReadHeadRefines ==
  ASSUME IInv, IInv', NEW p \in Proc, ReadHead(p)
  PROVE  UNCHANGED Abstract!vars
<1>1. Stable' = Stable
  BY DEF ReadHead, disk, Stable
<1>2. /\ pc[InitProc] \in Booting /\ \A q \in Proc : pc[q] \in Booting
      /\ \A q \in Proc : pc'[q] \in Booting
  BY LogConstants DEF ReadHead, IInv, BootAlone, Booting, TypeOK
<1>3. View' = View
  BY ZenonT(30), <1>1, <1>2, LogConstants DEF View
<1>4. Owner' = Owner
  BY <1>2, OwnerFacts DEF Owner, InTrans, Booting
<1> QED
  BY <1>1, <1>3, <1>4 DEF Abstract!vars

\* Every step is a step of AtomicDisk or a stutter.
LEMMA NextRefines ==
  ASSUME IInv, IInv', [Next]_vars
  PROVE  [Abstract!Next]_(Abstract!vars)
<1>1. CASE UNCHANGED vars
  BY <1>1 DEF vars, Abstract!vars, Stable, View, Owner
<1>2. ASSUME NEW p \in Proc, Step(p) PROVE [Abstract!Next]_(Abstract!vars)
  BY <1>2, CommitTransRefines, InstallBlockRefines, EraseLogRefines,
     ReleaseRefines, ReadHeadRefines DEF Step, Abstract!Next
<1>3. ASSUME NEW p \in Proc, BeginTrans(p) PROVE [Abstract!Next]_(Abstract!vars)
  BY <1>3, BeginTransRefines DEF Abstract!Next
<1>4. ASSUME NEW p \in Proc, NEW s \in Sector, NEW d \in Data, LogWrite(p, s, d)
      PROVE  [Abstract!Next]_(Abstract!vars)
  BY <1>4, LogWriteRefines DEF Abstract!Next
<1>5. ASSUME NEW p \in Proc, NEW s \in Sector, Read(p, s)
      PROVE  [Abstract!Next]_(Abstract!vars)
  BY <1>5, ReadRefines
<1>6. ASSUME NEW s \in Sector, Recycle(s) PROVE [Abstract!Next]_(Abstract!vars)
  BY <1>6, RecycleRefines
<1>7. CASE Crash
  BY <1>7, CrashRefines DEF Abstract!Next
<1>8. ASSUME NEW p \in Proc, Kill(p) PROVE [Abstract!Next]_(Abstract!vars)
  BY <1>8, KillRefines
<1> QED
  BY <1>1, <1>2, <1>3, <1>4, <1>5, <1>6, <1>7, <1>8 DEF Next

(* The log of log.c is a crash-atomic disk: for every number of processes  *)
(* and sectors and every log size, each behaviour of begin_trans,          *)
(* log_write, commit_trans, recovery and crashes maps to one of AtomicDisk.*)
THEOREM LogRefinesAtomicDisk == Spec => RefinesAtomicDisk
  BY InitRefines, NextRefines, LogInvariant, PTL DEF Spec, RefinesAtomicDisk, Abstract!Spec
=============================================================================
