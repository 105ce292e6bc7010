-------------------------- MODULE HostLoaderProofs --------------------------
(***************************************************************************)
(* Proofs about HostLoader, for every set of versions and ABIs, either     *)
(* driver, every update mode and any bound.                                *)
(***************************************************************************)
EXTENDS HostLoader, TLAPS

(* What choose() establishes, commit() consumes and everything else keeps: *)
(* the running host is at the floor or above, and the host on trial is the *)
(* running one and above it.                                               *)
FloorInv ==
    up => /\ m.running \in Blob
          /\ Loads(committed, genesis) => m.running.version >= committed.version
          /\ m.trial # NoBlob =>
               /\ m.trial = m.running
               /\ m.trial.abi = genesis.abi
               /\ Loads(committed, genesis) => m.trial.version > committed.version

(* Versions and ABIs are positive, and only an absent slot has neither.    *)
LEMMA BlobFacts ==
  ASSUME NEW b \in Blob
  PROVE  b.version \in Nat /\ b.version # 0 /\ b.abi \in Nat /\ b.abi # 0 /\ b # NoBlob /\ b \in Slot
<1>1. b.version \in Versions /\ b.abi \in Abis
  BY DEF Blob
<1>2. b.version \in Nat /\ b.version # 0
  BY <1>1, VersionsAssumption
<1>3. b.abi \in Nat /\ b.abi # 0
  BY <1>1, AbisAssumption
<1> QED
  BY <1>2, <1>3 DEF Slot, NoBlob

(* What a slot holds is a blob, or the lack of one, which has no version   *)
(* and no ABI.                                                             *)
LEMMA SlotFacts ==
  ASSUME NEW b \in Slot
  PROVE  b.version \in Nat /\ b.abi \in Nat /\ (b # NoBlob => b \in Blob)
                                            /\ (b.abi # 0 => b \in Blob)
  BY BlobFacts DEF Slot, NoBlob

(* An empty slot is a slot. *)
LEMMA NoBlobSlot == NoBlob \in Slot
  BY DEF Slot

(* The memory of a process that is down. *)
LEMMA OffType == Off \in Memory
  BY NoBlobSlot DEF Off, Memory

(* A process that dies leaves its disk well formed. *)
LEMMA DiesType ==
  ASSUME NEW p \in Slot, NEW t \in BOOLEAN, NEW f \in Fate, Dies(p, t, f)
  PROVE  /\ pending' \in Slot /\ tried' \in BOOLEAN /\ fate' \in Fate
         /\ up' = FALSE /\ m' \in Memory
  BY OffType DEF Dies, Fate

(* So does one that goes on. *)
LEMMA LivesType ==
  ASSUME NEW mem \in Memory, NEW p \in Slot, NEW t \in BOOLEAN, NEW f \in Fate,
         Lives(mem, p, t, f)
  PROVE  /\ pending' \in Slot /\ tried' \in BOOLEAN /\ fate' \in Fate
         /\ up' = TRUE /\ m' = mem /\ m' \in Memory
  BY DEF Lives, Fate

(* The base that is chosen loads, and is no older than what was committed. *)
LEMMA BaseFacts ==
  ASSUME NEW g \in Blob, committed \in Slot
  PROVE  /\ Base(g) \in Blob
         /\ Base(g).abi = g.abi
         /\ Loads(committed, g) => Base(g).version >= committed.version
<1>1. g.version \in Nat /\ g.abi # 0 /\ committed.version \in Nat
  BY BlobFacts, SlotFacts
<1>2. CASE Loads(committed, g) /\ committed.version > g.version
  <2>1. committed \in Blob
    BY <1>1, <1>2, SlotFacts DEF Loads
  <2> QED BY <1>1, <1>2, <2>1 DEF Base, Loads
<1>3. CASE ~(Loads(committed, g) /\ committed.version > g.version)
  BY <1>1, <1>3 DEF Base
<1> QED BY <1>2, <1>3

(* A boot runs the blob it was given, as the trial it was given. *)
LEMMA BootType ==
  ASSUME NEW mem \in Memory, NEW b \in Slot, NEW trial \in Slot
  PROVE  /\ Boot(mem, b, trial) \in Memory
         /\ Boot(mem, b, trial).trial = trial
         /\ Boot(mem, b, trial).running = b
<1> DEFINE g == mem.gen + 1
           fl == mem.flows \union {mem.gen + 1}
           r == IF Target = "native" THEN 0 ELSE mem.restarts
<1>1. g \in Nat /\ fl \in SUBSET Nat /\ r \in Nat
  BY DEF Memory
<1>2. Boot(mem, b, trial) =
        [mem EXCEPT !.serving = FALSE, !.gen = g, !.trial = trial, !.running = b,
                    !.err = FALSE, !.flows = fl, !.restarts = r]
  BY DEF Boot
<1>3. Boot(mem, b, trial).trial = trial /\ Boot(mem, b, trial).running = b
  BY DEF Memory, Boot
<1> HIDE DEF g, fl, r
<1>4. Boot(mem, b, trial) \in Memory
  BY <1>1, <1>2, ZenonT(40) DEF Memory
<1> QED BY <1>3, <1>4

(* What is staged in memory touches nothing that runs. *)
LEMMA StagedType ==
  ASSUME NEW mem \in Memory
  PROVE  /\ Staged(mem) \in Memory
         /\ Staged(mem).running = mem.running
         /\ Staged(mem).trial = mem.trial
         /\ Staged(mem).gen = mem.gen /\ Staged(mem).flows = mem.flows
         /\ Staged(mem).serving <=> mem.serving
         /\ Staged(mem).restarts > 0 => mem.restarts > 0 \/ mem.serving
<1> DEFINE r == IF Target = "native" THEN 1 ELSE mem.restarts + 1
<1>1. r \in Nat
  BY DEF Memory
<1>2. CASE Staged(mem) = mem
  BY <1>2
<1>3. CASE mem.serving /\ Staged(mem) = [mem EXCEPT !.restarts = r]
  <2> HIDE DEF r
  <2> QED BY <1>1, <1>3 DEF Memory
<1>4. CASE Staged(mem) = [mem EXCEPT !.bootAfterFlow = TRUE]
  BY <1>4 DEF Memory
<1> QED BY <1>2, <1>3, <1>4 DEF Staged

(* choose() boots a host at or above the floor, whatever it starts from.   *)
LEMMA ChooseFloor ==
  ASSUME TypeOK, NEW g \in Blob, NEW mem \in Memory, NEW p \in Slot, NEW t \in BOOLEAN,
         NEW f \in Fate, NEW d \in Reason, Choose(g, mem, p, t, f, d)
  PROVE  TypeOK' /\ FloorInv'
<1> DEFINE base == Base(g)
           boot == Boot(mem, base, NoBlob)
           try == Boot(mem, p, p)
<1>1. base \in Blob /\ base.abi = g.abi
      /\ (Loads(committed, g) => base.version >= committed.version)
  BY BaseFacts DEF TypeOK
<1>2. boot \in Memory /\ boot.trial = NoBlob /\ boot.running = base
  BY <1>1, BlobFacts, NoBlobSlot, BootType
<1>3. try \in Memory /\ try.trial = p /\ try.running = p
  BY BootType
<1>4. genesis' = g /\ committed' = committed /\ committed \in Slot
  BY DEF Choose, TypeOK
<1>5. ASSUME NEW x \in Slot, NEW y \in BOOLEAN, NEW h \in Fate, Lives(boot, x, y, h), dropped' \in Reason
      PROVE  TypeOK' /\ FloorInv'
  <2>1. /\ pending' \in Slot /\ tried' \in BOOLEAN /\ fate' \in Fate
        /\ up' = TRUE /\ m' = boot /\ m' \in Memory
    BY <1>2, <1>5, LivesType
  <2>2. TypeOK'
    BY <1>4, <1>5, <2>1 DEF TypeOK
  <2>3. FloorInv'
    BY <1>1, <1>2, <1>4, <2>1 DEF FloorInv, Loads
  <2> QED BY <2>2, <2>3
<1>6. ASSUME NEW x \in Slot, NEW y \in BOOLEAN, NEW h \in Fate, Dies(x, y, h), dropped' \in Reason
      PROVE  TypeOK' /\ FloorInv'
  BY <1>4, <1>6, DiesType DEF TypeOK, FloorInv
<1>7. ASSUME NEW why \in Reason, Discards(boot, p, t, f, why)
      PROVE  TypeOK' /\ FloorInv'
  <2>1. PICK x \in {p, NoBlob}, y \in BOOLEAN, dies \in BOOLEAN :
             IF dies THEN Dies(x, y, f) ELSE Lives(boot, x, y, f)
    BY <1>7 DEF Discards
  <2>2. x \in Slot /\ dropped' \in Reason
    BY <1>7, NoBlobSlot DEF Discards
  <2>3. CASE dies
    BY <2>1, <2>2, <2>3, <1>6
  <2>4. CASE ~dies
    BY <2>1, <2>2, <2>4, <1>5
  <2> QED BY <2>3, <2>4
<1>8. ASSUME Loads(p, g), p.version > base.version, Lives(try, p, TRUE, "trying"), dropped' \in Reason
      PROVE  TypeOK' /\ FloorInv'
  <2>1. g.abi # 0 /\ p \in Blob
    BY <1>8, BlobFacts, SlotFacts DEF Loads
  <2>2. /\ pending' \in Slot /\ tried' \in BOOLEAN /\ fate' \in Fate /\ up' = TRUE /\ m' = try
        /\ m' \in Memory
    BY <1>3, <1>8, LivesType DEF Fate
  <2>3. TypeOK'
    BY <1>4, <1>8, <2>2 DEF TypeOK
  <2>4. Loads(committed, g) => p.version > committed.version
    BY <1>1, <1>4, <1>8, <2>1, BlobFacts, SlotFacts
  <2>5. Loads(committed, g) => p.version >= committed.version
    BY <1>4, <2>1, <2>4, BlobFacts, SlotFacts
  <2>6. FloorInv'
    BY <1>3, <1>4, <1>8, <2>1, <2>2, <2>4, <2>5 DEF FloorInv, Loads
  <2> QED BY <2>3, <2>6
<1>9. f \in Reason /\ "unreadable" \in Reason /\ "floor" \in Reason /\ "trying" \in Fate
  BY DEF Reason, Fate
<1> HIDE DEF base, boot, try
<1>10. CASE committed # NoBlob /\ Dies(p, t, f) /\ dropped' = d
  BY <1>10, <1>6
<1>11. CASE Lives(boot, p, t, f) /\ dropped' = d
  BY <1>11, <1>5
<1>12. CASE \E why \in Reason : Discards(boot, p, t, f, why)
  BY <1>12, <1>7
<1>13. CASE Loads(p, g) /\ p.version > base.version /\ Lives(try, p, TRUE, "trying") /\ dropped' = d
  BY <1>13, <1>8
<1> QED
  BY <1>9, <1>10, <1>11, <1>12, <1>13, Zenon DEF Choose, base, boot, try

(* A boot that fails, on each of its ways out, keeps the floor. *)
LEMMA FailedFloor ==
  ASSUME TypeOK, FloorInv, NEW mem \in Memory, NEW f \in Fate, Failed(mem, f)
  PROVE  TypeOK' /\ FloorInv'
<1> DEFINE after == [mem EXCEPT !.trial = NoBlob]
<1>1. after \in Memory /\ f \in Reason /\ dropped \in Reason /\ genesis \in Blob
  BY NoBlobSlot DEF Memory, Reason, TypeOK
<1>2. pending \in Slot /\ tried \in BOOLEAN
  BY DEF TypeOK
<1>3. ASSUME NEW x \in Slot, NEW y \in BOOLEAN, Dies(x, y, f), dropped' \in Reason,
             UNCHANGED <<committed, genesis>>
      PROVE  TypeOK' /\ FloorInv'
  BY <1>3, DiesType DEF TypeOK, FloorInv
<1> HIDE DEF after
<1>4. CASE Dies(pending, tried, f) /\ UNCHANGED <<committed, genesis, dropped>>
  BY <1>1, <1>2, <1>3, <1>4
<1>5. CASE \E x \in {pending, NoBlob}, y \in BOOLEAN :
             Dies(x, y, f) /\ dropped' = f /\ UNCHANGED <<committed, genesis>>
  BY <1>1, <1>2, <1>3, <1>5, NoBlobSlot
<1>6. CASE \E x \in {pending, NoBlob}, y \in BOOLEAN : Choose(genesis, after, x, y, f, f)
  BY <1>1, <1>2, <1>6, NoBlobSlot, ChooseFloor
<1>7. CASE Choose(genesis, after, pending, tried, f, dropped)
  BY <1>1, <1>2, <1>7, ChooseFloor
<1> QED
  BY <1>4, <1>5, <1>6, <1>7 DEF Failed, after

(* Every step keeps the types and the floor. *)
LEMMA NextFloor ==
  ASSUME TypeOK, FloorInv, [Next]_vars
  PROVE  TypeOK' /\ FloorInv'
<1> USE NoBlobSlot
<1>1. /\ pending \in Slot /\ tried \in BOOLEAN /\ genesis \in Blob /\ committed \in Slot
      /\ fate \in Fate /\ dropped \in Reason /\ m \in Memory /\ m.trial \in Slot
      /\ up \in BOOLEAN
  BY DEF TypeOK, Memory
<1>2. ASSUME NEW g \in Blob, Start(g)
      PROVE  TypeOK' /\ FloorInv'
  <2> QED BY <1>1, <1>2, OffType, ChooseFloor DEF Start
<1>3. ASSUME Crash PROVE TypeOK' /\ FloorInv'
  BY <1>1, <1>3, DiesType DEF Crash, TypeOK, FloorInv
<1>4. ASSUME NEW b \in Blob, Stage(b) PROVE TypeOK' /\ FloorInv'
  <2>1. b \in Slot /\ "partial" \in Fate /\ "staged" \in Fate
    BY BlobFacts DEF Fate
  <2>2. Staged(m) \in Memory /\ Staged(m).running = m.running /\ Staged(m).trial = m.trial
    BY <1>1, StagedType
  <2>3. UNCHANGED <<committed, genesis, dropped>> /\ up
    BY <1>4 DEF Stage, HostRuns
  <2>4. CASE Dies(b, tried, "partial")
    BY <1>1, <2>1, <2>3, <2>4, DiesType DEF TypeOK, FloorInv
  <2>5. CASE \E t \in BOOLEAN : Lives(Staged(m), b, t, "staged")
    <3>1. PICK t \in BOOLEAN : Lives(Staged(m), b, t, "staged")
      BY <2>5
    <3>2. /\ pending' \in Slot /\ tried' \in BOOLEAN /\ fate' \in Fate
          /\ up' = TRUE /\ m' = Staged(m) /\ m' \in Memory
      BY <2>1, <2>2, <3>1, LivesType
    <3> QED BY <1>1, <2>2, <2>3, <3>2 DEF TypeOK, FloorInv, Loads
  <2> QED BY <1>4, <2>4, <2>5 DEF Stage
<1>5. ASSUME Restart PROVE TypeOK' /\ FloorInv'
  <2>0. m.restarts \in Nat /\ m.restarts > 0
    BY <1>1, <1>5 DEF Memory, Restart
  <2>1. m.restarts - 1 \in Nat
    BY <2>0
  <2>2. [m EXCEPT !.restarts = m.restarts - 1] \in Memory
    BY <1>1, <2>1 DEF Memory
  <2> QED BY <1>1, <1>5, <2>2, ChooseFloor DEF Restart
<1>7. ASSUME NEW b \in 1..MaxBoots, NEW serving \in BOOLEAN, FlowEnds(b, serving)
      PROVE  TypeOK' /\ FloorInv'
  <2> DEFINE again == serving /\ m.bootAfterFlow
             sv == IF serving THEN m.served \union {b} ELSE m.served
             after == [m EXCEPT !.bootAfterFlow = FALSE,
                                !.serving = serving /\ ~again,
                                !.flows = m.flows \ {b}, !.served = sv]
             armed == IF m.trial # NoBlob THEN m.timers \union {m.gen} ELSE m.timers
             unblamed == IF b = m.gen /\ fate = "trying" THEN "staged" ELSE fate
  <2>1. b \in Nat /\ sv \in SUBSET Nat /\ armed \in SUBSET Nat /\ m.flows \ {b} \in SUBSET Nat
        /\ (serving /\ ~again) \in BOOLEAN /\ unblamed \in Fate
    BY <1>1, LoaderAssumption DEF Memory, Fate
  <2>2. after.running = m.running /\ after.trial = m.trial
    BY <1>1 DEF Memory
  <2>3. after \in Memory
    <3> HIDE DEF sv, again
    <3> QED BY <1>1, <2>1 DEF Memory
  <2> HIDE DEF sv, again, after, armed
  <2>4. CASE Choose(genesis, after, pending, tried, fate, dropped)
    BY <1>1, <2>3, <2>4, ChooseFloor
  <2>5. CASE /\ m' = [after EXCEPT !.timers = armed]
             /\ UNCHANGED <<committed, pending, tried, genesis, up, fate, dropped>>
    <3>1. m' \in Memory /\ m'.running = m.running /\ m'.trial = m.trial
      BY <2>1, <2>2, <2>3, <2>5 DEF Memory
    <3> QED BY <2>5, <3>1 DEF TypeOK, FloorInv, Loads
  <2>6. CASE /\ UNCHANGED <<committed, genesis, dropped>>
             /\ \E t \in BOOLEAN : \/ Dies(pending, t, unblamed)
                                   \/ Lives([after EXCEPT !.trial = NoBlob], pending, t, unblamed)
    <3>1. PICK t \in BOOLEAN : \/ Dies(pending, t, unblamed)
                               \/ Lives([after EXCEPT !.trial = NoBlob], pending, t, unblamed)
      BY <2>6
    <3>2. CASE Dies(pending, t, unblamed)
      BY <1>1, <2>1, <2>6, <3>2, DiesType DEF TypeOK, FloorInv
    <3>3. CASE Lives([after EXCEPT !.trial = NoBlob], pending, t, unblamed)
      <4>1. /\ [after EXCEPT !.trial = NoBlob] \in Memory
            /\ [after EXCEPT !.trial = NoBlob].running = m.running
            /\ [after EXCEPT !.trial = NoBlob].trial = NoBlob
        BY <2>2, <2>3 DEF Memory
      <4>2. /\ pending' \in Slot /\ tried' \in BOOLEAN /\ fate' \in Fate
            /\ m' = [after EXCEPT !.trial = NoBlob] /\ m' \in Memory /\ up' = TRUE
        BY <1>1, <2>1, <3>3, <4>1, LivesType
      <4>3. up
        BY <1>7 DEF FlowEnds
      <4> QED BY <2>6, <4>1, <4>2, <4>3 DEF TypeOK, FloorInv, Loads
    <3> QED BY <3>1, <3>2, <3>3
  <2> QED BY <1>7, <2>4, <2>5, <2>6 DEF FlowEnds, after, again, sv, armed
<1>8. ASSUME NEW fl \in SUBSET Nat, NEW f \in Fate,
             Failed([m EXCEPT !.flows = fl], f)
      PROVE  TypeOK' /\ FloorInv'
  <2>1. [m EXCEPT !.flows = fl] \in Memory
    BY <1>1 DEF Memory
  <2> QED BY <1>8, <2>1, FailedFloor
<1>9. \A b : Blamed(b) \in Fate
  BY <1>1 DEF Blamed, Fate
<1>10. ASSUME NEW b \in 1..MaxBoots, FlowRejects(b) PROVE TypeOK' /\ FloorInv'
  <2>1. m.flows \ {b} \in SUBSET Nat
    BY <1>1 DEF Memory
  <2> QED BY <1>8, <1>9, <1>10, <2>1 DEF FlowRejects
<1>11. ASSUME HostFailsOnNode PROVE TypeOK' /\ FloorInv'
  <2> QED BY <1>1, <1>9, <1>11, FailedFloor DEF HostFailsOnNode
<1>12. ASSUME HostFailsOnNative PROVE TypeOK' /\ FloorInv'
  <2>1. m' \in Memory /\ m'.running = m.running /\ m'.trial = m.trial
    BY <1>1, <1>12 DEF HostFailsOnNative, Memory
  <2> QED BY <1>9, <1>12, <2>1 DEF HostFailsOnNative, TypeOK, FloorInv, Loads
<1>13. ASSUME NativeFailure PROVE TypeOK' /\ FloorInv'
  <2>1. [m EXCEPT !.flows = {}] \in Memory
    BY <1>1 DEF Memory
  <2> QED BY <1>1, <1>13, <2>1, FailedFloor DEF NativeFailure
<1>14. ASSUME NEW b \in 1..MaxBoots, HealthTimer(b) PROVE TypeOK' /\ FloorInv'
  <2> DEFINE fired == [m EXCEPT !.timers = m.timers \ {b}]
             done == [fired EXCEPT !.trial = NoBlob]
             f == IF fate = "trying" THEN "committed" ELSE fate
  <2>1. fired \in Memory /\ fired.running = m.running /\ fired.trial = m.trial
    BY <1>1 DEF Memory
  <2>2. done \in Memory /\ done.running = m.running /\ done.trial = NoBlob
    BY <2>1 DEF Memory
  <2>3. up /\ genesis' = genesis
    BY <1>14 DEF HealthTimer
  <2>4. f \in Fate /\ "committed" \in Fate
    BY <1>1 DEF Fate
  <2> HIDE DEF fired, done, f
  <2>5. CASE m' = fired /\ UNCHANGED <<committed, pending, tried, up, fate, dropped>>
    BY <2>1, <2>3, <2>5 DEF TypeOK, FloorInv, Loads
  <2>6. ASSUME NEW x \in Slot, NEW y \in BOOLEAN, NEW h \in Fate,
               Dies(x, y, h) \/ Lives(done, x, y, h),
               m.trial # NoBlob, committed' = m.trial, UNCHANGED dropped
        PROVE  TypeOK' /\ FloorInv'
    <3>1. CASE Dies(x, y, h)
      BY <1>1, <2>3, <2>6, <3>1, DiesType DEF TypeOK, FloorInv
    <3>2. CASE Lives(done, x, y, h)
      <4>1. /\ pending' \in Slot /\ tried' \in BOOLEAN /\ fate' \in Fate
            /\ up' = TRUE /\ m' = done /\ m' \in Memory
        BY <2>2, <3>2, LivesType
      <4>2. m.running \in Blob /\ committed' = m.running /\ m.running.version \in Nat
        BY <2>3, <2>6, BlobFacts DEF FloorInv
      <4> QED BY <1>1, <2>2, <2>3, <2>6, <4>1, <4>2 DEF TypeOK, FloorInv, Loads
    <3> QED BY <2>6, <3>1, <3>2
  <2>7. CASE /\ m.trial # NoBlob /\ committed' = m.trial /\ UNCHANGED dropped
             /\ \/ Dies(pending, tried, f)
                \/ \E x \in {pending, NoBlob}, y \in BOOLEAN :
                     Dies(x, y, "committed") \/ Lives(done, x, y, "committed")
                \/ Lives(done, pending, tried, f)
    BY <1>1, <2>4, <2>6, <2>7
  <2> QED BY <1>14, <2>5, <2>7, Zenon DEF HealthTimer, Commits, fired, done, f
<1>15. CASE UNCHANGED vars
  BY <1>15 DEF vars, TypeOK, FloorInv, Loads
<1> QED
  BY <1>2, <1>3, <1>4, <1>5, <1>7, <1>10, <1>11, <1>12, <1>13, <1>14, <1>15 DEF Next

(* So does the first state. *)
LEMMA InitFloor == Init => TypeOK /\ FloorInv
  BY NoBlobSlot, OffType DEF Init, TypeOK, FloorInv, Fate, Reason

(* Every state of the loader's disk, memory and history is well formed.    *)
THEOREM TypeCorrect == Spec => []TypeOK
<1>1. Init => TypeOK /\ FloorInv
  BY InitFloor
<1>2. TypeOK /\ FloorInv /\ [Next]_vars => (TypeOK /\ FloorInv)'
  BY NextFloor
<1> QED BY <1>1, <1>2, PTL DEF Spec

(* Whatever crashes, is staged, fails or is upgraded, and in whatever      *)
(* order, the running host is never older than the committed one: slots.ts *)
(* choose() and commit() keep the floor.                                   *)
THEOREM FloorHolds == Spec => []RunningAtOrAboveFloor
<1>1. TypeOK /\ FloorInv /\ [Next]_vars => (TypeOK /\ FloorInv)'
  BY NextFloor
<1>2. FloorInv => RunningAtOrAboveFloor
  BY DEF FloorInv, RunningAtOrAboveFloor
<1> QED BY InitFloor, <1>1, <1>2, PTL DEF Spec

(* commit() replaces a committed host of the loader's ABI only by a newer  *)
(* one, even when a timer of an earlier boot fires.                        *)
THEOREM FloorRises == Spec => FloorNeverFalls
<1>1. TypeOK /\ FloorInv /\ [Next]_vars => (TypeOK /\ FloorInv)'
  BY NextFloor
<1>2. ASSUME TypeOK, FloorInv, Next, committed' # committed, Loads(committed, genesis)
      PROVE  committed'.version > committed.version
  <2>1. \E b \in 1..MaxBoots : HealthTimer(b)
    <3>1. \A g, mem, p, t, f, d : Choose(g, mem, p, t, f, d) => committed' = committed
      BY DEF Choose
    <3>2. \A mem, f : Failed(mem, f) => committed' = committed
      BY <3>1 DEF Failed
    <3>3. \A g : Start(g) => committed' = committed
      BY <3>1 DEF Start
    <3>4. Restart => committed' = committed
      BY <3>1 DEF Restart
    <3>5. \A b, s : FlowEnds(b, s) => committed' = committed
      BY <3>1 DEF FlowEnds
    <3>6. /\ \A b : FlowRejects(b) => committed' = committed
          /\ HostFailsOnNode \/ NativeFailure => committed' = committed
      BY <3>2 DEF FlowRejects, HostFailsOnNode, NativeFailure
    <3>7. /\ \A b : Stage(b) => committed' = committed
          /\ Crash \/ HostFailsOnNative => committed' = committed
      BY DEF Stage, Crash, HostFailsOnNative
    <3> QED BY <1>2, <3>3, <3>4, <3>5, <3>6, <3>7 DEF Next
  <2>2. m.trial # NoBlob /\ committed' = m.trial /\ up
    BY <1>2, <2>1 DEF HealthTimer, Commits
  <2> QED BY <1>2, <2>2 DEF FloorInv
<1>3. TypeOK /\ FloorInv /\ [Next]_vars
        => [committed' # committed /\ Loads(committed, genesis)
              => committed'.version > committed.version]_vars
  BY <1>2
<1> QED BY InitFloor, <1>1, <1>3, PTL DEF Spec, FloorNeverFalls

-----------------------------------------------------------------------------
(* Tried once, on the native loader, where removals do what they are asked.*)

(* A blob whose run began, and was not over as a mere op, is marked.       *)
Marked(p, t, f) ==
    p # NoBlob => f # "none" /\ (f \in {"trying", "failed", "committed"} => t)

(* The native loader awaits one flow, that of the last boot, and none      *)
(* while it serves; a trial that goes on is not of a blob already judged.  *)
OneFlow ==
    up => /\ m.flows \subseteq {m.gen}
          /\ m.serving \/ m.restarts > 0 => m.flows = {}
          /\ m.trial # NoBlob /\ ~m.err => fate \notin {"failed", "committed"}

Fresh(f) == f \in {"staged", "partial"}

(* A native boot has one flow, of a generation of its own. *)
LEMMA BootNative ==
  ASSUME NEW mem \in Memory, NEW b, NEW trial, Target = "native", mem.flows = {}
  PROVE  /\ Boot(mem, b, trial).gen = mem.gen + 1
         /\ Boot(mem, b, trial).flows = {mem.gen + 1}
         /\ Boot(mem, b, trial).trial = trial
         /\ ~Boot(mem, b, trial).serving
         /\ Boot(mem, b, trial).restarts = 0
  BY DEF Memory, Boot

(* Choosing what to run keeps the mark of what was tried, and tries only   *)
(* what is fresh.                                                          *)
LEMMA ChooseMark ==
  ASSUME Target = "native", ~RemoveMayFail,
         NEW g, NEW mem \in Memory, NEW p \in Slot, NEW t \in BOOLEAN, NEW f \in Fate, NEW d,
         mem.flows = {}, Marked(p, t, f), Choose(g, mem, p, t, f, d)
  PROVE  /\ Marked(pending', tried', fate') /\ OneFlow'
         /\ m'.gen > mem.gen /\ m'.trial # NoBlob => Fresh(f)
<1> DEFINE boot == Boot(mem, Base(g), NoBlob)
           try == Boot(mem, p, p)
<1>1. /\ boot.gen = mem.gen + 1 /\ boot.flows = {mem.gen + 1} /\ boot.trial = NoBlob
      /\ ~boot.serving /\ boot.restarts = 0
  BY BootNative
<1>2. /\ try.gen = mem.gen + 1 /\ try.flows = {mem.gen + 1} /\ try.trial = p
      /\ ~try.serving /\ try.restarts = 0
  BY BootNative
<1>3. mem.gen \in Nat
  BY DEF Memory
<1>4. \A x, y, h : Dies(x, y, h) => m'.trial = NoBlob /\ ~up'
  BY DEF Dies, Off
<1> HIDE DEF boot, try
<1>5. ASSUME NEW x, NEW y \in BOOLEAN, NEW h \in Fate, Marked(x, y, h), Lives(boot, x, y, h)
      PROVE  /\ Marked(pending', tried', fate') /\ OneFlow' /\ m'.trial = NoBlob
  <2>1. m' = boot /\ pending' = x /\ tried' = y /\ (x # NoBlob => fate' = h)
    BY <1>5 DEF Lives
  <2>2. Marked(pending', tried', fate')
    BY <1>5, <2>1 DEF Marked
  <2>3. OneFlow'
    BY <1>1, <2>1 DEF OneFlow
  <2> QED BY <1>1, <2>1, <2>2, <2>3
<1>6. ASSUME NEW x, NEW y \in BOOLEAN, NEW h \in Fate, Marked(x, y, h), Dies(x, y, h)
      PROVE  Marked(pending', tried', fate') /\ OneFlow'
  BY <1>6 DEF Dies, Marked, OneFlow
<1>7. ASSUME NEW why, Discards(boot, p, t, f, why)
      PROVE  Marked(pending', tried', fate') /\ OneFlow' /\ m'.trial = NoBlob
  <2>1. PICK x \in {p, NoBlob}, y \in BOOLEAN, dies \in BOOLEAN :
             /\ Clears(p, t, x, y, dies)
             /\ IF dies THEN Dies(x, y, f) ELSE Lives(boot, x, y, f)
    BY <1>7 DEF Discards
  <2>2. Marked(x, y, f)
    BY <2>1 DEF Clears, Marked
  <2>3. CASE dies
    BY <1>4, <1>6, <2>1, <2>2, <2>3
  <2>4. CASE ~dies
    BY <1>5, <2>1, <2>2, <2>4
  <2> QED BY <2>3, <2>4
<1>8. CASE Dies(p, t, f)
  BY <1>4, <1>6, <1>8
<1>9. CASE Lives(boot, p, t, f)
  BY <1>5, <1>9
<1>10. CASE \E why : Discards(boot, p, t, f, why)
  BY <1>7, <1>10
<1>11. CASE p # NoBlob /\ ~t /\ Lives(try, p, TRUE, "trying")
  <2>1. m' = try /\ pending' = p /\ tried' = TRUE /\ fate' = "trying"
    BY <1>11 DEF Lives
  <2>2. Marked(pending', tried', fate')
    BY <2>1 DEF Marked
  <2>3. OneFlow'
    BY <1>2, <2>1 DEF OneFlow
  <2>4. Fresh(f)
    BY <1>11 DEF Marked, Fresh, Fate
  <2> QED BY <2>2, <2>3, <2>4
<1> QED
  BY <1>8, <1>9, <1>10, <1>11, Zenon DEF Choose, boot, try

(* The inductive step: one step of the native loader keeps the marks and   *)
(* the single flow, and puts only a fresh blob on trial.                   *)
LEMMA NextMark ==
  ASSUME Target = "native", ~RemoveMayFail,
         TypeOK, Marked(pending, tried, fate), OneFlow, Next
  PROVE  /\ Marked(pending', tried', fate') /\ OneFlow'
         /\ m'.gen > m.gen /\ m'.trial # NoBlob => Fresh(fate)
<1>1. /\ pending \in Slot /\ tried \in BOOLEAN /\ fate \in Fate /\ m \in Memory
      /\ up \in BOOLEAN /\ m.gen \in Nat /\ m.flows \in SUBSET Nat
  BY DEF TypeOK, Memory
<1> DEFINE Goal == /\ Marked(pending', tried', fate') /\ OneFlow'
                   /\ m'.gen > m.gen /\ m'.trial # NoBlob => Fresh(fate)
<1>2. ASSUME NEW p, NEW t \in BOOLEAN, NEW f, Dies(p, t, f), Marked(p, t, f)
      PROVE  Goal
  <2>1. ~up' /\ m'.trial = NoBlob
    BY <1>2 DEF Dies, Off
  <2>2. Marked(pending', tried', fate')
    BY <1>2 DEF Dies, Marked
  <2> QED BY <2>1, <2>2 DEF OneFlow
<1>3. ASSUME NEW g \in Blob, Start(g) PROVE Goal
  <2>1. Off \in Memory /\ Off.flows = {}
    BY OffType DEF Memory, Off
  <2>2. /\ Marked(pending', tried', fate') /\ OneFlow'
        /\ m'.gen > Off.gen /\ m'.trial # NoBlob => Fresh(fate)
    BY <1>1, <1>3, <2>1, ChooseMark DEF Start
  <2>3. Off.gen = 0
    BY DEF Off
  <2>4. m'.gen \in Nat
    <3>1. TypeOK'
      BY <1>1, <1>3, <2>1, ChooseFloor DEF Start, TypeOK
    <3> QED BY <3>1 DEF TypeOK, Memory
  <2>5. m'.gen > m.gen => m'.gen > Off.gen
    BY <1>1, <2>3, <2>4
  <2> QED BY <2>2, <2>5
<1>4. ASSUME Crash PROVE Goal
  BY <1>1, <1>2, <1>4 DEF Crash
<1>5. ASSUME NEW b \in Blob, Stage(b) PROVE Goal
  <2>1. CASE Dies(b, tried, "partial")
    BY <1>1, <1>2, <2>1 DEF Marked
  <2>2. CASE \E t \in BOOLEAN : Lives(Staged(m), b, t, "staged")
    <3>1. PICK t \in BOOLEAN : Lives(Staged(m), b, t, "staged")
      BY <2>2
    <3>2. m' = Staged(m) /\ fate' = "staged"
      BY <3>1, BlobFacts DEF Lives
    <3>3. /\ Staged(m).gen = m.gen /\ Staged(m).flows = m.flows
          /\ (Staged(m).serving <=> m.serving)
          /\ (Staged(m).restarts > 0 => m.restarts > 0 \/ m.serving)
      BY <1>1, StagedType
    <3>4. OneFlow'
      BY <1>5, <3>2, <3>3 DEF OneFlow, Stage, HostRuns
    <3>5. Marked(pending', tried', fate')
      BY <3>2 DEF Marked
    <3> QED BY <1>1, <3>2, <3>3, <3>4, <3>5
  <2> QED BY <1>5, <2>1, <2>2 DEF Stage
<1>6. ASSUME Restart PROVE Goal
  <2>1. m.restarts \in Nat /\ m.restarts > 0
    BY <1>1, <1>6 DEF Memory, Restart
  <2>2. m.restarts - 1 \in Nat
    BY <2>1
  <2>3. /\ [m EXCEPT !.restarts = m.restarts - 1] \in Memory
        /\ [m EXCEPT !.restarts = m.restarts - 1].flows = {}
        /\ [m EXCEPT !.restarts = m.restarts - 1].gen = m.gen
    BY <1>1, <1>6, <2>1, <2>2 DEF Memory, OneFlow, Restart
  <2> QED BY <1>1, <1>6, <2>3, ChooseMark DEF Restart
<1>8. ASSUME NEW b \in 1..MaxBoots, NEW serving \in BOOLEAN, FlowEnds(b, serving) PROVE Goal
  <2> DEFINE again == serving /\ m.bootAfterFlow
             sv == IF serving THEN m.served \union {b} ELSE m.served
             after == [m EXCEPT !.bootAfterFlow = FALSE,
                                !.serving = serving /\ ~again,
                                !.flows = m.flows \ {b}, !.served = sv]
             armed == IF m.trial # NoBlob THEN m.timers \union {m.gen} ELSE m.timers
             unblamed == IF b = m.gen /\ fate = "trying" THEN "staged" ELSE fate
  <2>1. /\ b \in Nat /\ sv \in SUBSET Nat /\ m.flows \ {b} \in SUBSET Nat
        /\ (serving /\ ~again) \in BOOLEAN /\ b = m.gen /\ m.flows \ {b} = {} /\ up /\ ~m.err
    BY <1>1, <1>8, LoaderAssumption DEF Memory, FlowEnds, OneFlow
  <2>2. /\ after.flows = {} /\ after.gen = m.gen /\ after.trial = m.trial
        /\ after.restarts = m.restarts
    BY <1>1, <2>1 DEF Memory
  <2>3. after \in Memory
    <3> HIDE DEF sv, again
    <3> QED BY <1>1, <2>1 DEF Memory
  <2> HIDE DEF sv, again, after, armed
  <2>4. CASE Choose(genesis, after, pending, tried, fate, dropped)
    BY <1>1, <2>2, <2>3, <2>4, ChooseMark
  <2>5. CASE /\ m' = [after EXCEPT !.timers = armed]
             /\ UNCHANGED <<committed, pending, tried, genesis, up, fate, dropped>>
    <3>1. m'.gen = m.gen /\ m'.flows = {} /\ m'.trial = m.trial
      BY <2>2, <2>3, <2>5 DEF Memory
    <3> QED BY <1>1, <2>1, <2>5, <3>1 DEF OneFlow
  <2>6. ASSUME NEW t \in BOOLEAN, IF m.trial = NoBlob THEN t <=> tried ELSE t => RemoveMayFail /\ tried
        PROVE  Marked(pending, t, unblamed)
    BY <1>1, <2>1, <2>6 DEF Marked, OneFlow, Fate
  <2>7. CASE \E t \in BOOLEAN :
               /\ IF m.trial = NoBlob THEN t <=> tried ELSE t => RemoveMayFail /\ tried
               /\ \/ Dies(pending, t, unblamed)
                  \/ Lives([after EXCEPT !.trial = NoBlob], pending, t, unblamed)
    <3>1. PICK t \in BOOLEAN :
               /\ IF m.trial = NoBlob THEN t <=> tried ELSE t => RemoveMayFail /\ tried
               /\ \/ Dies(pending, t, unblamed)
                  \/ Lives([after EXCEPT !.trial = NoBlob], pending, t, unblamed)
      BY <2>7
    <3>2. Marked(pending, t, unblamed)
      BY <2>6, <3>1
    <3>3. CASE Dies(pending, t, unblamed)
      BY <1>2, <3>2, <3>3
    <3>4. CASE Lives([after EXCEPT !.trial = NoBlob], pending, t, unblamed)
      <4>1. m' = [after EXCEPT !.trial = NoBlob]
        BY <3>4 DEF Lives
      <4>2. m'.gen = m.gen /\ m'.flows = {} /\ m'.trial = NoBlob
        BY <2>2, <2>3, <4>1 DEF Memory
      <4>3. Marked(pending', tried', fate')
        BY <3>2, <3>4 DEF Lives, Marked
      <4> QED BY <1>1, <4>2, <4>3 DEF OneFlow
    <3> QED BY <3>1, <3>3, <3>4
  <2> QED BY <1>8, <2>4, <2>5, <2>7 DEF FlowEnds, after, again, sv, armed
<1>9. ASSUME HostFailsOnNative PROVE Goal
  <2>1. /\ m'.gen = m.gen /\ m'.flows = m.flows /\ (m'.serving <=> m.serving)
        /\ m'.restarts = m.restarts /\ m'.trial = m.trial /\ m'.err
    BY <1>1, <1>9 DEF HostFailsOnNative, Memory
  <2>2. UNCHANGED <<pending, tried, up>> /\ fate' = IF fate = "trying" THEN "failed" ELSE fate
    BY <1>9 DEF HostFailsOnNative, Blamed
  <2>3. Marked(pending', tried', fate')
    BY <2>2 DEF Marked
  <2> QED BY <1>1, <2>1, <2>2, <2>3 DEF OneFlow
<1>10. ASSUME NativeFailure PROVE Goal
  <2> DEFINE after == [[m EXCEPT !.flows = {}] EXCEPT !.trial = NoBlob]
  <2>1. after \in Memory /\ after.flows = {} /\ after.gen = m.gen
    BY <1>1, NoBlobSlot DEF Memory
  <2> HIDE DEF after
  <2>2. CASE Dies(pending, tried, fate)
    BY <1>1, <1>2, <2>2
  <2>3. CASE \E x \in {pending, NoBlob}, y, dies \in BOOLEAN :
               /\ Clears(pending, tried, x, y, dies)
               /\ \/ Dies(x, y, fate)
                  \/ \E d : Choose(genesis, after, x, y, fate, d)
    <3>1. PICK x \in {pending, NoBlob}, y \in BOOLEAN, dies \in BOOLEAN :
               /\ Clears(pending, tried, x, y, dies)
               /\ \/ Dies(x, y, fate)
                  \/ \E d : Choose(genesis, after, x, y, fate, d)
      BY <2>3
    <3>2. Marked(x, y, fate) /\ x \in Slot
      BY <3>1, NoBlobSlot DEF Clears, Marked
    <3>3. CASE Dies(x, y, fate)
      BY <1>2, <3>2, <3>3
    <3>4. CASE \E d : Choose(genesis, after, x, y, fate, d)
      BY <1>1, <2>1, <3>2, <3>4, ChooseMark
    <3> QED BY <3>1, <3>3, <3>4
  <2>4. CASE Choose(genesis, after, pending, tried, fate, dropped)
    BY <1>1, <2>1, <2>4, ChooseMark
  <2>5. Failed([m EXCEPT !.flows = {}], fate)
    BY <1>10 DEF NativeFailure
  <2> QED BY <2>2, <2>3, <2>4, <2>5, Zenon DEF Failed, after
<1>11. ASSUME NEW b \in 1..MaxBoots, HealthTimer(b) PROVE Goal
  <2> DEFINE fired == [m EXCEPT !.timers = m.timers \ {b}]
             done == [fired EXCEPT !.trial = NoBlob]
             f == IF fate = "trying" THEN "committed" ELSE fate
  <2>1. /\ fired.gen = m.gen /\ fired.flows = m.flows /\ (fired.serving <=> m.serving)
        /\ fired.restarts = m.restarts /\ fired.trial = m.trial /\ (fired.err <=> m.err)
    BY <1>1 DEF Memory
  <2>2. /\ done.gen = m.gen /\ done.flows = m.flows /\ (done.serving <=> m.serving)
        /\ done.restarts = m.restarts /\ done.trial = NoBlob
    BY <1>1 DEF Memory
  <2>3. Marked(pending, tried, f) /\ up
    BY <1>11 DEF Marked, HealthTimer
  <2> HIDE DEF fired, done, f
  <2>4. CASE m' = fired /\ UNCHANGED <<committed, pending, tried, up, fate, dropped>>
    BY <1>1, <2>1, <2>4 DEF OneFlow
  <2>5. ASSUME NEW x, NEW y \in BOOLEAN, NEW h, Marked(x, y, h), Lives(done, x, y, h)
        PROVE  Goal
    <3>1. m' = done /\ pending' = x /\ tried' = y /\ (x # NoBlob => fate' = h)
      BY <2>5 DEF Lives
    <3>2. Marked(pending', tried', fate')
      BY <2>5, <3>1 DEF Marked
    <3>3. OneFlow'
      BY <2>2, <2>3, <3>1 DEF OneFlow
    <3> QED BY <1>1, <2>2, <3>1, <3>2, <3>3
  <2>6. CASE Dies(pending, tried, f) \/ Lives(done, pending, tried, f)
    BY <1>1, <1>2, <2>3, <2>5, <2>6
  <2>7. CASE \E x \in {pending, NoBlob}, y, dies \in BOOLEAN :
               /\ Clears(pending, tried, x, y, dies)
               /\ Dies(x, y, "committed") \/ Lives(done, x, y, "committed")
    <3>1. PICK x \in {pending, NoBlob}, y \in BOOLEAN, dies \in BOOLEAN :
               /\ Clears(pending, tried, x, y, dies)
               /\ Dies(x, y, "committed") \/ Lives(done, x, y, "committed")
      BY <2>7
    <3>2. Marked(x, y, "committed")
      BY <3>1 DEF Clears, Marked
    <3> QED BY <1>2, <2>5, <3>1, <3>2
  <2> QED BY <1>11, <2>4, <2>6, <2>7, Zenon DEF HealthTimer, fired, done, f
<1>12. ~HostFailsOnNode /\ \A b : ~FlowRejects(b)
  BY DEF HostFailsOnNode, FlowRejects
<1> HIDE DEF Goal
<1>13. Goal
  BY <1>3, <1>4, <1>5, <1>6, <1>8, <1>9, <1>10, <1>11, <1>12 DEF Next
<1> QED BY <1>13 DEF Goal

(* "A staged blob is tried once": on the native loader, through any        *)
(* sequence of crashes, failures, stagings and restarts, choose() never    *)
(* puts a blob on trial whose earlier run failed, was cut short, or goes   *)
(* on, as long as the file system removes what it is told to.              *)
THEOREM TrialRunsOnce ==
  ASSUME Target = "native", ~RemoveMayFail
  PROVE  Spec => TriedOnce
<1> DEFINE Inv == TypeOK /\ FloorInv /\ Marked(pending, tried, fate) /\ OneFlow
<1>1. Init => Inv
  BY InitFloor DEF Init, Marked, OneFlow
<1>2. Inv /\ [Next]_vars => Inv'
  <2>1. CASE Next
    BY <2>1, NextFloor, NextMark
  <2>2. CASE UNCHANGED vars
    BY <2>2, NextFloor DEF vars, Marked, OneFlow
  <2> QED BY <2>1, <2>2
<1>3. Inv /\ [Next]_vars
        => [m'.gen > m.gen /\ m'.trial # NoBlob => fate \in {"staged", "partial"}]_vars
  BY NextMark DEF Fresh
<1> HIDE DEF Inv
<1> QED BY <1>1, <1>2, <1>3, PTL DEF Spec, TriedOnce

-----------------------------------------------------------------------------
(* Committed only after its own flow ended serving, on the native loader.  *)

(* The native loader awaits one flow, that of the last boot, and none      *)
(* while it serves or is to restart; a health timer runs only for a boot   *)
(* whose flow ended serving.                                               *)
Healthy(mem) ==
    /\ mem.flows \subseteq {mem.gen}
    /\ mem.serving \/ mem.restarts > 0 => mem.flows = {}
    /\ mem.timers \subseteq mem.served

(* choose() leaves the process dead or with the memory of a new boot, and  *)
(* never touches committed.skb.                                            *)
LEMMA ChooseMemory ==
  ASSUME NEW g, NEW mem, NEW p, NEW t, NEW f, NEW d, Choose(g, mem, p, t, f, d)
  PROVE  (m' = Off \/ \E b, trial : m' = Boot(mem, b, trial)) /\ committed' = committed
<1> DEFINE boot == Boot(mem, Base(g), NoBlob)
           try == Boot(mem, p, p)
           Good == m' = Off \/ \E b, trial : m' = Boot(mem, b, trial)
<1>1. ASSUME NEW x, NEW y, NEW h, Dies(x, y, h) PROVE Good
  BY <1>1 DEF Dies
<1>2. ASSUME NEW x, NEW y, NEW h, Lives(boot, x, y, h) \/ Lives(try, x, y, h) PROVE Good
  <2>1. m' = boot \/ m' = try
    BY <1>2 DEF Lives
  <2> QED BY <2>1
<1>3. ASSUME NEW why, Discards(boot, p, t, f, why) PROVE Good
  <2>1. PICK x \in {p, NoBlob}, y \in BOOLEAN, dies \in BOOLEAN :
             IF dies THEN Dies(x, y, f) ELSE Lives(boot, x, y, f)
    BY <1>3 DEF Discards
  <2> QED BY <1>1, <1>2, <2>1
<1> HIDE DEF boot, try, Good
<1>4. Good
  BY <1>1, <1>2, <1>3, Zenon DEF Choose, boot, try
<1>5. committed' = committed
  BY DEF Choose
<1> QED BY <1>4, <1>5 DEF Good

(* A boot from a memory that awaits nothing is healthy again.              *)
LEMMA BootHealthy ==
  ASSUME Target = "native", NEW mem \in Memory, mem.flows = {}, mem.timers \subseteq mem.served,
         m' = Off \/ \E b, trial : m' = Boot(mem, b, trial)
  PROVE  Healthy(m')
<1>1. CASE m' = Off
  BY <1>1 DEF Healthy, Off
<1>2. CASE \E b, trial : m' = Boot(mem, b, trial)
  <2>1. PICK b, trial : m' = Boot(mem, b, trial)
    BY <1>2
  <2>2. /\ m'.gen = mem.gen + 1 /\ m'.flows = {mem.gen + 1}
        /\ ~m'.serving /\ m'.restarts = 0
    BY <2>1, BootNative
  <2>3. m'.timers = mem.timers /\ m'.served = mem.served
    BY <2>1 DEF Boot, Memory
  <2> QED BY <2>2, <2>3 DEF Healthy
<1> QED BY <1>1, <1>2

(* One step of the native loader keeps a healthy memory healthy, and only  *)
(* commits a boot whose flow ended serving.                                *)
LEMMA NextHealthy ==
  ASSUME Target = "native", TypeOK, Healthy(m), Next
  PROVE  Healthy(m') /\ (committed' # committed => m.gen \in m.served)
<1>1. /\ m \in Memory /\ m.gen \in Nat /\ m.flows \in SUBSET Nat /\ m.timers \in SUBSET Nat
      /\ m.served \in SUBSET Nat /\ m.restarts \in Nat
  BY DEF TypeOK, Memory
<1> DEFINE Goal == Healthy(m') /\ (committed' # committed => m.gen \in m.served)
<1>2. ASSUME NEW p, NEW t, NEW f, Dies(p, t, f) PROVE Healthy(m')
  BY <1>2 DEF Dies, Healthy, Off
<1>3. ASSUME NEW g \in Blob, Start(g) PROVE Goal
  <2>1. Off \in Memory /\ Off.flows = {} /\ Off.timers \subseteq Off.served
    BY OffType DEF Memory, Off
  <2>2. Choose(g, Off, pending, tried, fate, dropped)
    BY <1>3 DEF Start
  <2> QED BY <2>1, <2>2, ChooseMemory, BootHealthy
<1>4. ASSUME Crash PROVE Goal
  BY <1>2, <1>4 DEF Crash
<1>5. ASSUME NEW b \in Blob, Stage(b) PROVE Goal
  <2>1. committed' = committed
    BY <1>5 DEF Stage
  <2>2. CASE Dies(b, tried, "partial")
    BY <1>2, <2>1, <2>2
  <2>3. CASE \E t \in BOOLEAN : Lives(Staged(m), b, t, "staged")
    <3>1. m' = Staged(m)
      BY <2>3 DEF Lives
    <3>2. /\ Staged(m).gen = m.gen /\ Staged(m).flows = m.flows
          /\ (Staged(m).serving <=> m.serving)
          /\ (Staged(m).restarts > 0 => m.restarts > 0 \/ m.serving)
      BY <1>1, StagedType
    <3>3. Staged(m).timers = m.timers /\ Staged(m).served = m.served
      BY <1>1 DEF Staged, Memory
    <3> QED BY <2>1, <3>1, <3>2, <3>3 DEF Healthy
  <2> QED BY <1>5, <2>2, <2>3 DEF Stage
<1>6. ASSUME Restart PROVE Goal
  <2> DEFINE r == m.restarts - 1
             mem == [m EXCEPT !.restarts = r]
  <2>1. m.restarts > 0 /\ r \in Nat
    BY <1>1, <1>6 DEF Restart
  <2>2. m.flows = {}
    BY <2>1 DEF Healthy
  <2>3. Choose(genesis, mem, pending, tried, fate, dropped)
    BY <1>6 DEF Restart
  <2> HIDE DEF r
  <2>4. mem \in Memory /\ mem.flows = {} /\ mem.timers = m.timers /\ mem.served = m.served
    BY <1>1, <2>1, <2>2 DEF Memory
  <2> HIDE DEF mem
  <2> QED BY <2>3, <2>4, ChooseMemory, BootHealthy DEF Healthy
<1>7. ASSUME NEW b \in 1..MaxBoots, NEW serving \in BOOLEAN, FlowEnds(b, serving) PROVE Goal
  <2> DEFINE again == serving /\ m.bootAfterFlow
             sv == IF serving THEN m.served \union {b} ELSE m.served
             after == [m EXCEPT !.bootAfterFlow = FALSE,
                                !.serving = serving /\ ~again,
                                !.flows = m.flows \ {b}, !.served = sv]
             armed == IF m.trial # NoBlob THEN m.timers \union {m.gen} ELSE m.timers
             unblamed == IF b = m.gen /\ fate = "trying" THEN "staged" ELSE fate
  <2>1. /\ b \in Nat /\ sv \in SUBSET Nat /\ m.flows \ {b} \in SUBSET Nat
        /\ (serving /\ ~again) \in BOOLEAN /\ b = m.gen /\ m.flows \ {b} = {}
        /\ m.served \subseteq sv /\ (serving => m.gen \in sv)
    BY <1>1, <1>7, LoaderAssumption DEF Memory, FlowEnds, Healthy
  <2>2. armed \in SUBSET Nat /\ (serving => armed \subseteq sv) /\ m.timers \subseteq sv
    BY <1>1, <2>1 DEF Healthy
  <2> HIDE DEF sv, again, armed
  <2>3. /\ after \in Memory /\ after.flows = {} /\ after.timers = m.timers /\ after.served = sv
        /\ after.gen = m.gen
    BY <1>1, <2>1 DEF Memory
  <2> HIDE DEF after
  <2>4. CASE Choose(genesis, after, pending, tried, fate, dropped)
    BY <2>2, <2>3, <2>4, ChooseMemory, BootHealthy
  <2>5. CASE serving /\ m' = [after EXCEPT !.timers = armed] /\ committed' = committed
    <3>1. m'.flows = {} /\ m'.timers = armed /\ m'.served = sv
      BY <2>2, <2>3, <2>5 DEF Memory
    <3> QED BY <2>2, <2>5, <3>1 DEF Healthy
  <2>6. CASE \E t \in BOOLEAN : /\ committed' = committed
                                /\ \/ Dies(pending, t, unblamed)
                                   \/ Lives([after EXCEPT !.trial = NoBlob], pending, t, unblamed)
    <3>1. PICK t \in BOOLEAN : \/ Dies(pending, t, unblamed)
                               \/ Lives([after EXCEPT !.trial = NoBlob], pending, t, unblamed)
      BY <2>6
    <3>2. CASE Dies(pending, t, unblamed)
      BY <1>2, <2>6, <3>2
    <3>3. CASE Lives([after EXCEPT !.trial = NoBlob], pending, t, unblamed)
      <4>1. m' = [after EXCEPT !.trial = NoBlob]
        BY <3>3 DEF Lives
      <4>2. m'.flows = {} /\ m'.timers = m.timers /\ m'.served = sv
        BY <2>3, <4>1 DEF Memory
      <4> QED BY <2>2, <2>6, <4>2 DEF Healthy
    <3> QED BY <3>1, <3>2, <3>3
  <2> QED BY <1>7, <2>4, <2>5, <2>6 DEF FlowEnds, after, again, sv, armed
<1>8. ASSUME HostFailsOnNative PROVE Goal
  <2>1. m' = [m EXCEPT !.err = TRUE] /\ committed' = committed
    BY <1>8 DEF HostFailsOnNative
  <2>2. /\ m'.gen = m.gen /\ m'.flows = m.flows /\ (m'.serving <=> m.serving)
        /\ m'.restarts = m.restarts /\ m'.timers = m.timers /\ m'.served = m.served
    BY <1>1, <2>1 DEF Memory
  <2> QED BY <2>1, <2>2 DEF Healthy
<1>9. ASSUME NativeFailure PROVE Goal
  <2> DEFINE after == [[m EXCEPT !.flows = {}] EXCEPT !.trial = NoBlob]
  <2>1. /\ after \in Memory /\ after.flows = {} /\ after.timers = m.timers
        /\ after.served = m.served
    BY <1>1, NoBlobSlot DEF Memory
  <2> HIDE DEF after
  <2>2. Failed([m EXCEPT !.flows = {}], fate)
    BY <1>9 DEF NativeFailure
  <2>3. CASE committed' = committed /\ \E x, y : Dies(x, y, fate)
    BY <1>2, <2>3
  <2>4. CASE \E x, y, d : Choose(genesis, after, x, y, fate, d)
    BY <2>1, <2>4, ChooseMemory, BootHealthy DEF Healthy
  <2> QED BY <2>2, <2>3, <2>4, Zenon DEF Failed, after
<1>10. ASSUME NEW b \in 1..MaxBoots, HealthTimer(b) PROVE Goal
  <2> DEFINE rest == m.timers \ {b}
             fired == [m EXCEPT !.timers = rest]
             done == [fired EXCEPT !.trial = NoBlob]
  <2>1. rest \in SUBSET Nat /\ rest \subseteq m.timers /\ b \in m.timers
    BY <1>1, <1>10 DEF HealthTimer
  <2> HIDE DEF rest
  <2>2. /\ fired.gen = m.gen /\ fired.flows = m.flows /\ (fired.serving <=> m.serving)
        /\ fired.restarts = m.restarts /\ fired.timers = rest /\ fired.served = m.served
    BY <1>1, <2>1 DEF Memory
  <2>3. /\ done.gen = m.gen /\ done.flows = m.flows /\ (done.serving <=> m.serving)
        /\ done.restarts = m.restarts /\ done.timers = rest /\ done.served = m.served
    BY <1>1, <2>1 DEF Memory
  <2>4. Healthy(fired) /\ Healthy(done)
    BY <2>1, <2>2, <2>3 DEF Healthy
  <2> HIDE DEF fired, done
  <2>5. m' = fired \/ m' = done \/ \E x, y, h : Dies(x, y, h)
    BY <1>10, Zenon DEF HealthTimer, Lives, fired, done, rest
  <2>6. committed' # committed => m.gen = b
    BY <1>10 DEF HealthTimer, Commits
  <2> QED BY <1>2, <2>1, <2>4, <2>5, <2>6 DEF Healthy
<1>11. ~HostFailsOnNode /\ \A b : ~FlowRejects(b)
  BY DEF HostFailsOnNode, FlowRejects
<1> HIDE DEF Goal
<1>12. Goal
  BY <1>3, <1>4, <1>5, <1>6, <1>7, <1>8, <1>9, <1>10, <1>11 DEF Next
<1> QED BY <1>12 DEF Goal

(* "Committed only after a health window it served through", on the native *)
(* loader: the boot whose blob commit() writes is one whose own operator   *)
(* flow ended serving, whatever was staged, failed or restarted before.    *)
(* On Node it is refuted, see CommittedAfterServing and the README.        *)
THEOREM CommitsServe ==
  ASSUME Target = "native"
  PROVE  Spec => CommittedAfterServing
<1> DEFINE Inv == TypeOK /\ FloorInv /\ Healthy(m)
<1>1. Init => Inv
  BY InitFloor DEF Init, Healthy, Off
<1>2. Inv /\ [Next]_vars => Inv'
  <2>1. CASE Next
    BY <2>1, NextFloor, NextHealthy
  <2>2. CASE UNCHANGED vars
    BY <2>2, NextFloor DEF vars, Healthy
  <2> QED BY <2>1, <2>2
<1>3. Inv /\ [Next]_vars => [committed' # committed => m.gen \in m.served]_vars
  BY NextHealthy
<1> HIDE DEF Inv
<1> QED BY <1>1, <1>2, <1>3, PTL DEF Spec, CommittedAfterServing

-----------------------------------------------------------------------------
(* Dropped only for cause, on the native loader that waits for the next    *)
(* start to try what was staged, where removals do what they are asked.    *)

Blameless == {"staged", "trying"}

(* A blob that waits for its trial is not marked, a trial is over once the *)
(* process is, and a blob staged by the host on trial is its successor:    *)
(* what tells holdsPending() that the slot holds another blob.             *)
CauseInv ==
    /\ dropped \notin Blameless
    /\ fate = "staged" => ~tried
    /\ ~up => fate # "trying"
    /\ up => /\ ~m.bootAfterFlow /\ m.restarts = 0
             /\ fate = "trying" => m.trial # NoBlob /\ ~m.err
             /\ m.trial # NoBlob /\ fate = "staged" => pending.version > m.trial.version

(* A process that ends keeps the reason for the last drop and the marks.   *)
LEMMA DiesCause ==
  ASSUME NEW p, NEW t \in BOOLEAN, NEW f, Dies(p, t, f), f = "staged" => ~t,
         dropped' \notin Blameless
  PROVE  CauseInv'
  BY DEF Dies, CauseInv

(* A process that goes on without a host on trial does too.                *)
LEMMA LivesCause ==
  ASSUME NEW mem, NEW p, NEW t \in BOOLEAN, NEW f, Lives(mem, p, t, f), f # "trying",
         f = "staged" => ~t, dropped' \notin Blameless,
         mem.trial = NoBlob, ~mem.bootAfterFlow, mem.restarts = 0
  PROVE  CauseInv'
  BY DEF Lives, CauseInv

(* choose() drops a marked blob for what its earlier run came to.          *)
LEMMA ChooseCause ==
  ASSUME Target = "native", ~RemoveMayFail,
         NEW g, NEW mem \in Memory, NEW p \in Slot, NEW t \in BOOLEAN, NEW f \in Fate, NEW d,
         mem.flows = {}, ~mem.bootAfterFlow, f # "trying", f = "staged" => ~t,
         d \notin Blameless, Choose(g, mem, p, t, f, d)
  PROVE  CauseInv'
<1> DEFINE boot == Boot(mem, Base(g), NoBlob)
           try == Boot(mem, p, p)
<1>1. boot.trial = NoBlob /\ ~boot.bootAfterFlow /\ boot.restarts = 0
  BY BootNative DEF Boot, Memory
<1>2. try.trial = p /\ ~try.bootAfterFlow /\ try.restarts = 0 /\ ~try.err
  BY BootNative DEF Boot, Memory
<1> HIDE DEF boot, try
<1>3. ASSUME NEW why, why \notin Blameless, Discards(boot, p, t, f, why) PROVE CauseInv'
  <2>1. PICK x \in {p, NoBlob}, y \in BOOLEAN, dies \in BOOLEAN :
             /\ Clears(p, t, x, y, dies)
             /\ IF dies THEN Dies(x, y, f) ELSE Lives(boot, x, y, f)
    BY <1>3 DEF Discards
  <2>2. dropped' \notin Blameless
    BY <1>3 DEF Discards
  <2>3. f = "staged" => ~y
    BY <2>1 DEF Clears
  <2> QED BY <1>1, <2>1, <2>2, <2>3, DiesCause, LivesCause
<1>4. CASE dropped' = d /\ Dies(p, t, f)
  BY <1>4, DiesCause
<1>5. CASE dropped' = d /\ Lives(boot, p, t, f)
  BY <1>1, <1>5, LivesCause
<1>6. CASE t /\ Discards(boot, p, t, f, f)
  BY <1>3, <1>6 DEF Blameless
<1>7. CASE Discards(boot, p, t, f, "unreadable") \/ Discards(boot, p, t, f, "floor")
  BY <1>3, <1>7 DEF Blameless
<1>8. CASE dropped' = d /\ p # NoBlob /\ Lives(try, p, TRUE, "trying")
  BY <1>2, <1>8 DEF Lives, CauseInv
<1> QED
  BY <1>4, <1>5, <1>6, <1>7, <1>8, Zenon DEF Choose, boot, try

(* One step of the native loader keeps the invariant.                      *)
LEMMA NextCause ==
  ASSUME Target = "native", ~RemoveMayFail, Mode # "now",
         TypeOK, FloorInv, Marked(pending, tried, fate), OneFlow, CauseInv, Next
  PROVE  CauseInv'
<1>1. /\ pending \in Slot /\ tried \in BOOLEAN /\ fate \in Fate /\ m \in Memory
      /\ up \in BOOLEAN /\ m.gen \in Nat /\ m.flows \in SUBSET Nat
      /\ m.trial \in Slot /\ m.served \in SUBSET Nat /\ m.timers \in SUBSET Nat
  BY DEF TypeOK, Memory
<1>2. dropped \notin Blameless /\ (fate = "staged" => ~tried) /\ (~up => fate # "trying")
  BY DEF CauseInv
<1>3. ASSUME NEW g \in Blob, Start(g) PROVE CauseInv'
  <2>1. Off \in Memory /\ Off.flows = {} /\ ~Off.bootAfterFlow
    BY OffType DEF Memory, Off
  <2>2. ~up /\ Choose(g, Off, pending, tried, fate, dropped)
    BY <1>3 DEF Start
  <2> QED BY <1>1, <1>2, <2>1, <2>2, ChooseCause
<1>4. ASSUME Crash PROVE CauseInv'
  <2>1. Dies(pending, tried, fate) /\ dropped' = dropped
    BY <1>4 DEF Crash
  <2> QED BY <1>1, <1>2, <2>1, DiesCause
<1>5. ASSUME NEW b \in Blob, Stage(b) PROVE CauseInv'
  <2>1. dropped' = dropped /\ up /\ b.version > m.running.version /\ b # NoBlob
    BY <1>5, BlobFacts DEF Stage, HostRuns
  <2>2. CASE Dies(b, tried, "partial")
    BY <1>1, <1>2, <2>1, <2>2, DiesCause
  <2>3. CASE \E t \in BOOLEAN : (t => RemoveMayFail /\ tried) /\ Lives(Staged(m), b, t, "staged")
    <3>1. Mode = "next"
      BY <1>5, LoaderAssumption DEF Stage
    <3>2. m' = m /\ pending' = b /\ ~tried' /\ fate' = "staged" /\ up'
      BY <2>1, <2>3, <3>1 DEF Lives, Staged
    <3>3. m.trial # NoBlob => m.trial = m.running
      BY <2>1 DEF FloorInv
    <3> QED BY <1>2, <2>1, <3>2, <3>3 DEF CauseInv
  <2> QED BY <1>5, <2>2, <2>3 DEF Stage
<1>6. ~Restart
  BY <1>1 DEF Restart, CauseInv, Memory
<1>7. ASSUME NEW b \in 1..MaxBoots, NEW serving \in BOOLEAN, FlowEnds(b, serving) PROVE CauseInv'
  <2> DEFINE again == serving /\ m.bootAfterFlow
             sv == IF serving THEN m.served \union {b} ELSE m.served
             after == [m EXCEPT !.bootAfterFlow = FALSE,
                                !.serving = serving /\ ~again,
                                !.flows = m.flows \ {b}, !.served = sv]
             armed == IF m.trial # NoBlob THEN m.timers \union {m.gen} ELSE m.timers
             unblamed == IF b = m.gen /\ fate = "trying" THEN "staged" ELSE fate
  <2>1. up /\ ~m.err /\ ~again /\ b = m.gen
    BY <1>1, <1>7 DEF FlowEnds, CauseInv, OneFlow
  <2>2. armed \in SUBSET Nat
    BY <1>1
  <2> HIDE DEF sv, again, armed
  <2>3. /\ after.trial = m.trial /\ ~after.bootAfterFlow /\ after.restarts = m.restarts
        /\ (after.err <=> m.err) /\ after = [after EXCEPT !.bootAfterFlow = FALSE]
        /\ [after EXCEPT !.timers = armed].trial = m.trial
        /\ [after EXCEPT !.timers = armed].restarts = m.restarts
        /\ ~[after EXCEPT !.timers = armed].bootAfterFlow
        /\ ([after EXCEPT !.timers = armed].err <=> m.err)
        /\ [after EXCEPT !.trial = NoBlob].trial = NoBlob
        /\ [after EXCEPT !.trial = NoBlob].restarts = m.restarts
        /\ ~[after EXCEPT !.trial = NoBlob].bootAfterFlow
    BY <1>1 DEF Memory
  <2> HIDE DEF after
  <2>4. CASE /\ m' = [after EXCEPT !.timers = armed]
             /\ UNCHANGED <<pending, tried, up, fate, dropped>>
    BY <1>2, <2>1, <2>3, <2>4 DEF CauseInv
  <2>5. CASE /\ dropped' = dropped
             /\ \E t \in BOOLEAN :
                  /\ IF m.trial = NoBlob THEN t <=> tried ELSE t => RemoveMayFail /\ tried
                  /\ \/ Dies(pending, t, unblamed)
                     \/ Lives([after EXCEPT !.trial = NoBlob], pending, t, unblamed)
    <3>1. PICK t \in BOOLEAN :
               /\ IF m.trial = NoBlob THEN t <=> tried ELSE t => RemoveMayFail /\ tried
               /\ \/ Dies(pending, t, unblamed)
                  \/ Lives([after EXCEPT !.trial = NoBlob], pending, t, unblamed)
      BY <2>5
    <3>2. unblamed # "trying"
      BY <2>1
    <3>3. unblamed = "staged" => ~t
      BY <1>2, <2>1, <3>1 DEF CauseInv
    <3>4. m.restarts = 0
      BY <2>1 DEF CauseInv
    <3> HIDE DEF unblamed
    <3> QED BY <1>2, <2>3, <2>5, <3>1, <3>2, <3>3, <3>4, DiesCause, LivesCause
  <2> QED BY <1>7, <2>1, <2>4, <2>5 DEF FlowEnds, after, again, sv, armed
<1>8. ASSUME HostFailsOnNative PROVE CauseInv'
  <2>1. /\ m' = [m EXCEPT !.err = TRUE] /\ UNCHANGED <<pending, tried, up, dropped>>
        /\ fate' = IF fate = "trying" THEN "failed" ELSE fate
    BY <1>8 DEF HostFailsOnNative, Blamed
  <2>2. m'.trial = m.trial /\ (m'.bootAfterFlow <=> m.bootAfterFlow) /\ m'.restarts = m.restarts
    BY <1>1, <2>1 DEF Memory
  <2> QED BY <2>1, <2>2 DEF CauseInv
<1>9. ASSUME NativeFailure PROVE CauseInv'
  <2> DEFINE after == [[m EXCEPT !.flows = {}] EXCEPT !.trial = NoBlob]
  <2>1. after \in Memory /\ after.flows = {} /\ (after.bootAfterFlow <=> m.bootAfterFlow)
    BY <1>1, NoBlobSlot DEF Memory
  <2> HIDE DEF after
  <2>2. up /\ m.err /\ Failed([m EXCEPT !.flows = {}], fate)
    BY <1>9 DEF NativeFailure
  <2>3. fate # "trying" /\ ~m.bootAfterFlow
    BY <2>2 DEF CauseInv
  <2>4. CASE Dies(pending, tried, fate) /\ dropped' = dropped
    BY <1>1, <1>2, <2>4, DiesCause
  <2>5. CASE /\ m.trial # NoBlob /\ HoldsPending
             /\ \E x \in {pending, NoBlob}, y, dies \in BOOLEAN :
                  /\ Clears(pending, tried, x, y, dies)
                  /\ \/ Dies(x, y, fate) /\ dropped' = fate
                     \/ Choose(genesis, after, x, y, fate, fate)
    <3>1. PICK x \in {pending, NoBlob}, y \in BOOLEAN, dies \in BOOLEAN :
               /\ Clears(pending, tried, x, y, dies)
               /\ \/ Dies(x, y, fate) /\ dropped' = fate
                  \/ Choose(genesis, after, x, y, fate, fate)
      BY <2>5
    <3>2. pending.version = m.trial.version /\ pending.version \in Nat
      BY <1>1, <2>5, SlotFacts DEF HoldsPending
    <3>3. fate \notin Blameless
      BY <2>2, <2>3, <2>5, <3>2 DEF CauseInv, Blameless
    <3>4. x \in Slot /\ (fate = "staged" => ~y)
      BY <1>1, <1>2, <3>1, NoBlobSlot DEF Clears
    <3>5. CASE Dies(x, y, fate) /\ dropped' = fate
      BY <3>3, <3>4, <3>5, DiesCause
    <3>6. CASE Choose(genesis, after, x, y, fate, fate)
      BY <1>1, <2>1, <2>3, <3>3, <3>4, <3>6, ChooseCause
    <3> QED BY <3>1, <3>5, <3>6
  <2>6. CASE Choose(genesis, after, pending, tried, fate, dropped)
    BY <1>1, <1>2, <2>1, <2>3, <2>6, ChooseCause
  <2> QED BY <2>2, <2>4, <2>5, <2>6, Zenon DEF Failed, after
<1>10. ASSUME NEW b \in 1..MaxBoots, HealthTimer(b) PROVE CauseInv'
  <2> DEFINE rest == m.timers \ {b}
             fired == [m EXCEPT !.timers = rest]
             done == [fired EXCEPT !.trial = NoBlob]
             f == IF fate = "trying" THEN "committed" ELSE fate
  <2>1. up /\ dropped' = dropped
    BY <1>10 DEF HealthTimer
  <2>2. /\ fired.trial = m.trial /\ (fired.err <=> m.err) /\ fired.restarts = m.restarts
        /\ (fired.bootAfterFlow <=> m.bootAfterFlow)
        /\ done.trial = NoBlob /\ done.restarts = m.restarts
        /\ (done.bootAfterFlow <=> m.bootAfterFlow)
    BY <1>1 DEF Memory
  <2>3. f # "trying" /\ (f = "staged" => ~tried) /\ ~m.bootAfterFlow /\ m.restarts = 0
    BY <1>2, <2>1 DEF CauseInv
  <2> HIDE DEF rest, fired, done, f
  <2>4. CASE m' = fired /\ UNCHANGED <<pending, tried, up, fate>>
    BY <1>2, <2>1, <2>2, <2>4 DEF CauseInv
  <2>5. CASE Dies(pending, tried, f) \/ Lives(done, pending, tried, f)
    BY <1>1, <1>2, <2>1, <2>2, <2>3, <2>5, DiesCause, LivesCause
  <2>6. CASE \E x \in {pending, NoBlob}, y \in BOOLEAN :
               Dies(x, y, "committed") \/ Lives(done, x, y, "committed")
    BY <1>2, <2>1, <2>2, <2>3, <2>6, DiesCause, LivesCause
  <2> QED BY <1>10, <2>4, <2>5, <2>6, Zenon DEF HealthTimer, fired, done, f, rest
<1>11. ~HostFailsOnNode /\ \A b : ~FlowRejects(b)
  BY DEF HostFailsOnNode, FlowRejects
<1> QED
  BY <1>3, <1>4, <1>5, <1>6, <1>7, <1>8, <1>9, <1>10, <1>11 DEF Next

(* A blob leaves pending.skb only for cause, on the native loader that     *)
(* tries what was staged at the next start: choose(), failed() and         *)
(* commit() never take for judged a blob that waits for its trial or is    *)
(* still on it.  Under --host-updates now it is refuted, see the README.   *)
THEOREM DropsForCause ==
  ASSUME Target = "native", ~RemoveMayFail, Mode # "now"
  PROVE  Spec => []DroppedForCause
<1> DEFINE Inv == TypeOK /\ FloorInv /\ Marked(pending, tried, fate) /\ OneFlow /\ CauseInv
<1>1. Init => Inv
  BY InitFloor DEF Init, Marked, OneFlow, CauseInv, Blameless
<1>2. Inv /\ [Next]_vars => Inv'
  <2>1. CASE Next
    BY <2>1, NextFloor, NextMark, NextCause
  <2>2. CASE UNCHANGED vars
    BY <2>2, NextFloor DEF vars, Marked, OneFlow, CauseInv
  <2> QED BY <2>1, <2>2
<1>3. Inv => DroppedForCause
  BY DEF CauseInv, Blameless, DroppedForCause
<1> HIDE DEF Inv
<1> QED BY <1>1, <1>2, <1>3, PTL DEF Spec
=============================================================================
